------------------------------ MODULE Responses ------------------------------
(***************************************************************************)
(* PlaychainResponseParser: the members each answer must have, what one    *)
(* that is missing or strange does, and how lists are gathered entry by    *)
(* entry. The parser has a copy of the settings of its own, of which it    *)
(* reads the asset, and which other threads assign while it parses.        *)
(***************************************************************************)
EXTENDS SettingsRefresh, Texts

CONSTANTS
  Keys,       \* what tells the entries of an answer apart
  Prices,     \* fees of operations in transactions read back
  Instances,  \* instances of identifiers the node sends back
  Amounts,    \* amounts written and read
  Versions,   \* protocol versions written and read
  MaxEntries  \* bound: entries of a list

ASSUME ResponsesAssumption ==
  /\ Keys # {} /\ Prices \subseteq Int /\ MaxEntries \in Nat
  /\ Instances \subseteq 0..(FourBytes \div 2) - 1 /\ Amounts \cup Versions \subseteq Nat

VARIABLES
  parser,  \* the asset_id of the parser's m_settings; a caller's choice, like the builder's
  call,    \* the parse that runs, with the asset_ids that the parser had during it
  result,  \* what the last one returned
  trx,     \* a transaction of the builder: the asset and the fees in it
  fee,     \* what getFeeFromTransaction made of it
  echo     \* what was written as text and read again

callVars == <<call, result>>
textVars == <<trx, fee, echo>>
responseVars == <<parser, call, result, trx, fee, echo>>
-----------------------------------------------------------------------------
(* What the entries of answers are made of. Types of members:              *)
(*   id, amount, key, version, name, array: its type is asserted, and its  *)
(*     conversion throws for what it refuses (an id without a dot, another *)
(*     asset, an empty metadata, an array with such an item);              *)
(*   plain: its type is asserted, and any value will do (an unknown state);*)
(*   optional id: the default, unless it is a string;                      *)
(*   id if present: the default, if it is absent;                          *)
(*   raw, raw key: taken for a string, which nothing asserts;              *)
(*   late amount: converted without asking whether it is there.            *)

Throwing == {"id", "amount", "key", "version", "name", "array"}

Table == [id |-> "id", owner |-> "id", owner_name |-> "plain", required_witnesses |-> "plain",
          min_accepted_proposal_asset |-> "amount", state |-> "plain", metadata |-> "name", server_url |-> "plain"]
TableExt == Table @@ [pending_proposals |-> "array", cash |-> "array", playing_cash |-> "array", missed_voters |-> "array"]
\* Its valid() asks for a state that is known.
PlayerTable == [state |-> "name", balance |-> "amount", buyouting_balance |-> "amount", table |-> "array"]
PendingBuyin == [id |-> "id", name |-> "raw", uid |-> "raw", amount |-> "amount"]
CashInfo == [id |-> "id", name |-> "plain", amount |-> "amount"]
RoomBase == [id |-> "id", owner |-> "id", server_url |-> "plain", metadata |-> "plain", rating |-> "plain"]
Room == RoomBase @@ [owner_name |-> "plain", protocol_version |-> "version"]
RoomExt == Room @@ [last_rating_update |-> "plain", rake_balance |-> "late amount", rake_balance_id |-> "optional id"]
ListedRoom == RoomBase @@ [protocol_version |-> "plain", v_num |-> "plain", version_metadata |-> "plain"]
Invitation == [inviter |-> "id", uid |-> "plain", metadata |-> "plain", created |-> "plain", expiration |-> "plain"]
InvitedPlayer == [account |-> "id", name |-> "plain"]
Balance == [account_balance |-> "amount", referral_balance |-> "amount", rake_balance |-> "amount",
            witness_balance |-> "amount", referral_balance_id |-> "optional id",
            rake_balance_id |-> "optional id", witness_balance_id |-> "optional id"]
Login == [account |-> "id", login_key |-> "key"]
NamedId == [id |-> "id", name |-> "plain"]
Witness == [id |-> "id", witness_account |-> "id", last_aslot |-> "plain", signing_key |-> "raw key", total_votes |-> "plain",
            url |-> "raw", total_missed |-> "plain", last_confirmed_block_num |-> "plain", pay_vb |-> "id if present"]

Gives(shape, members) == [shape |-> shape, members |-> members]

\* The functions, each with the shape of "result" and the members of its entries: a list, a map
\* (of a list of pairs), one object, one or null, one or null that counts as none, or the first
\* of a list. The last two are maps within a table.
parseGetTablesInfoResponse == Gives("list", TableExt)
parseCheckIfTableAllocatedForPendingBuyinResponse == Gives("object or null", Table)
parseListTablesWithPlayerRequest == Gives("list", PlayerTable)
parseGetAccountIdByNameResponse == Gives("map", NamedId)
parseListPlayerInvitationsResponse == Gives("list", Invitation)
parseListInvitedPlayersResponse == Gives("list", InvitedPlayer)
parseGetPlaychainBalanceResponse == Gives("object", Balance)
parseLoginResponse == Gives("object or none", Login)
parseLegacyGetAccountBalanceResponse == Gives("first", [amount |-> "amount"])
parseLegacyGetAccountIdByNameResponse == Gives("map", NamedId)
parseChangeTableInfoNotification == Gives("list", TableExt)
parseGetPlayerIdByAccountIdResponse == Gives("object or null", [id |-> "id"])
parseListRoomsResponse == Gives("list", ListedRoom)
parseGetRoomInfoResponse == Gives("object or null", RoomExt)
parseGetTablesInfoByMetadataResponse == Gives("list", Table)
parseListTablesResponse == Gives("list", [id |-> "id"])
parseGetBlockchainWitnessResponse == Gives("object or null", Witness)
parseGetBlockchainGameWitnessesResponse == Gives("list", [id |-> "id", account |-> "id"])
parseGetBlockchainAccountsResponse == Gives("list", [id |-> "id", name |-> "raw"])
pending_proposals == Gives("map", PendingBuyin)
cash == Gives("map", CashInfo)

Functions == [
  parseGetTablesInfoResponse |-> parseGetTablesInfoResponse,
  parseCheckIfTableAllocatedForPendingBuyinResponse |-> parseCheckIfTableAllocatedForPendingBuyinResponse,
  parseListTablesWithPlayerRequest |-> parseListTablesWithPlayerRequest,
  parseGetAccountIdByNameResponse |-> parseGetAccountIdByNameResponse,
  parseListPlayerInvitationsResponse |-> parseListPlayerInvitationsResponse,
  parseListInvitedPlayersResponse |-> parseListInvitedPlayersResponse,
  parseGetPlaychainBalanceResponse |-> parseGetPlaychainBalanceResponse,
  parseLoginResponse |-> parseLoginResponse,
  parseLegacyGetAccountBalanceResponse |-> parseLegacyGetAccountBalanceResponse,
  parseLegacyGetAccountIdByNameResponse |-> parseLegacyGetAccountIdByNameResponse,
  parseChangeTableInfoNotification |-> parseChangeTableInfoNotification,
  parseGetPlayerIdByAccountIdResponse |-> parseGetPlayerIdByAccountIdResponse,
  parseListRoomsResponse |-> parseListRoomsResponse,
  parseGetRoomInfoResponse |-> parseGetRoomInfoResponse,
  parseGetTablesInfoByMetadataResponse |-> parseGetTablesInfoByMetadataResponse,
  parseListTablesResponse |-> parseListTablesResponse,
  parseGetBlockchainWitnessResponse |-> parseGetBlockchainWitnessResponse,
  parseGetBlockchainGameWitnessesResponse |-> parseGetBlockchainGameWitnessesResponse,
  parseGetBlockchainAccountsResponse |-> parseGetBlockchainAccountsResponse,
  pending_proposals |-> pending_proposals,
  cash |-> cash]

Lists == {"list", "map", "first"}

\* Functions whose "result" is one value, and the values they take.
parseGetChainIdResponse == {"text"}
parseTransactionResponse == {"null"}
parseLegacyLoginResponse == {"true", "false"}
Scalars == [
  parseGetChainIdResponse |-> parseGetChainIdResponse,
  parseTransactionResponse |-> parseTransactionResponse,
  parseLegacyLoginResponse |-> parseLegacyLoginResponse]
ScalarValues == {"text", "empty text", "null", "true", "false", "object"}

\* What an answer may hold for a member, beside what it should: nothing, another JSON type, a
\* text its conversion refuses, or one that is none but is taken: atoll reads any text, an id's
\* last number may have anything behind it, from_hex leaves what a short key does not fill.
Strange == {"absent", "mistyped", "none", "loose"}
Throws(type, value) == value # "loose" /\
  \/ type \in Throwing \cup {"late amount"}
  \/ type = "plain" /\ value # "none"
  \/ type = "optional id" /\ value = "none"
  \/ type = "id if present" /\ value # "absent"
  \/ type = "raw" /\ value = "absent"
  \/ type = "raw key" /\ value # "mistyped"
\* The behaviour of the JSON library is undefined (or its assertion ends the process).
Undefined(type, value) ==
  \/ type \in {"raw", "raw key"} /\ value = "mistyped"
  \/ type = "late amount" /\ value = "absent"

\* An entry of an answer: all is as it should be but one member, if that.
Item(key, asset, at, value) == [key |-> key, asset |-> asset, at |-> at, value |-> value]
Sound == "sound"
SoundItems == { Item(k, a, Sound, Sound) : k \in Keys, a \in OwnChoices }
StrangeItems(f) ==
  { Item(CHOOSE k \in Keys : TRUE, DefaultChoice, m, v) : m \in DOMAIN Functions[f].members, v \in Strange }

TypeAt(f, entry) == Functions[f].members[entry.at]
HasAmount(f) == \E m \in DOMAIN Functions[f].members : Functions[f].members[m] \in {"amount", "late amount"}

\* The comparison with asset_id, at the time of the call.
AnyAsset(f, entry) == FALSE  \* mutant: the asset of an amount is not looked at
OtherAsset(f, entry) == HasAmount(f) /\ entry.asset # parser

Refused(f, entry) ==
  \/ OtherAsset(f, entry)
  \/ entry.value \in Strange /\ Throws(TypeAt(f, entry), entry.value)
Unforeseen(f, entry) == entry.value \in Strange /\ Undefined(TypeAt(f, entry), entry.value)
-----------------------------------------------------------------------------
(* A parse: the document, then entry by entry.                             *)

Parse(f, left, data, all, during) == [f |-> f, left |-> left, data |-> data, all |-> all, during |-> during]
Result(how, f, data, all, during) == [how |-> how, f |-> f, data |-> data, all |-> all, during |-> during]
Idle == Parse("", <<>>, <<>>, <<>>, {})
NoResult == Result("none", "", <<>>, <<>>, {})
Null == Item(CHOOSE k \in Keys : TRUE, DefaultChoice, "null", "null")

Running == call.f \in DOMAIN Functions
Ended(r) == call' = Idle /\ result' = r
Invalid == Result("invalid", call.f, <<>>, call.all, call.during)
Valid(data) == Result("valid", call.f, data, call.all, call.during)

NoFees == [asset |-> DefaultChoice, fees |-> <<>>]
NoFee == [how |-> "none", value |-> 0, asset |-> DefaultChoice, of |-> NoFees]
NoEcho == [of |-> "none", wrote |-> 0, read |-> 0]

ResponseInit ==
  /\ parser = DefaultChoice
  /\ call = Idle /\ result = NoResult
  /\ trx = NoFees /\ fee = NoFee /\ echo = NoEcho

\* No call depends on an earlier one: each is looked at by itself.
Quiescent == call = Idle /\ result = NoResult /\ trx = NoFees /\ fee = NoFee /\ echo = NoEcho
TakeResult ==
  /\ call.f = ""
  /\ call' = Idle /\ result' = NoResult
  /\ trx' = NoFees /\ fee' = NoFee /\ echo' = NoEcho
  /\ UNCHANGED parser

\* An answer with a "result" of the right shape.
Begin(f, entries) ==
  /\ Quiescent
  /\ Functions[f].shape \notin Lists => Len(entries) = 1
  /\ LET left == IF Functions[f].shape = "first" /\ entries # <<>> THEN <<entries[1]>> ELSE entries
     IN call' = Parse(f, left, <<>>, entries, {parser})
  /\ UNCHANGED <<parser, result, textVars>>

\* No JSON, no "result" (an error of the node), or one of another shape.
Unparsable(f) ==
  /\ Quiescent
  /\ result' = Result("invalid", f, <<>>, <<>>, {})
  /\ UNCHANGED <<parser, call, textVars>>

\* "result" is null: a default object that is not valid() itself, or no result at all.
NullResult(f) ==
  /\ Quiescent
  /\ result' = IF Functions[f].shape = "object or null"
                  THEN Result("valid", f, <<Null>>, <<>>, {}) ELSE Result("invalid", f, <<>>, <<>>, {})
  /\ UNCHANGED <<parser, call, textVars>>

ParseScalar(f, value) ==
  /\ Quiescent
  /\ result' = IF value \in Scalars[f]
                  THEN Result("valid", f, <<value>>, <<>>, {}) ELSE Result("invalid", f, <<>>, <<>>, {})
  /\ UNCHANGED <<parser, call, textVars>>

Known(f, entry) == \E k \in DOMAIN call.data : call.data[k].key = entry.key
Replaced(f, entry) ==  \* mutant: a second entry of a key takes the place of the first
  IF Functions[f].shape = "map" /\ Known(f, entry)
    THEN [k \in DOMAIN call.data |-> IF call.data[k].key = entry.key THEN entry ELSE call.data[k]]
    ELSE Append(call.data, entry)
\* emplace_back, or a map's emplace, which keeps what it has.
Gathered(f, entry) ==
  IF Functions[f].shape = "map" /\ Known(f, entry) THEN call.data ELSE Append(call.data, entry)

ParseEntry ==
  /\ Running /\ call.left # <<>>
  /\ LET entry == Head(call.left) IN
       /\ ~Refused(call.f, entry)
       /\ call' = Parse(call.f, Tail(call.left), Gathered(call.f, entry), call.all, call.during)
  /\ UNCHANGED <<parser, result, textVars>>

\* The exception leaves the loop. So may a read that nothing guards: of a
\* null pointer, an exception, of any other, whatever is there, or an abort.
RefuseEntry ==
  /\ Running /\ call.left # <<>>
  /\ Refused(call.f, Head(call.left)) \/ Unforeseen(call.f, Head(call.left))
  /\ Ended(Invalid)
  /\ UNCHANGED <<parser, textVars>>

Abort ==
  /\ Running /\ call.left # <<>>
  /\ Unforeseen(call.f, Head(call.left))
  /\ call' = Parse("aborted", <<>>, <<>>, <<>>, {})
  /\ UNCHANGED <<parser, result, textVars>>

Return ==
  /\ Running /\ call.left = <<>>
  /\ Ended(Valid(call.data))
  /\ UNCHANGED <<parser, textVars>>

\* PlaychainResponseParser::updateSettings, by another thread.
UpdateParser(c) ==
  /\ c # parser
  /\ parser' = c
  /\ call' = IF Running THEN Parse(call.f, call.left, call.data, call.all, call.during \cup {c}) ELSE call
  /\ UNCHANGED <<result, textVars>>
-----------------------------------------------------------------------------
(* Fees read back, identifiers, amounts and versions.                      *)

MakeTransaction(fees) ==
  /\ Quiescent
  /\ trx' = [asset |-> settings.choice, fees |-> fees]
  /\ UNCHANGED <<parser, callVars, fee, echo>>

LastFee(fees) == IF fees = <<>> THEN 0 ELSE fees[Len(fees)]  \* mutant: = in place of +=
SumOfFees(fees) == FoldLeft(+, 0, fees)

\* 0 for no transaction; an exception of parse_asset if the parser has another asset.
GetFeeFromTransaction ==
  /\ Quiescent \/ trx # NoFees
  /\ fee' = IF trx.fees # <<>> /\ trx.asset # parser
              THEN [how |-> "throw", value |-> 0, asset |-> parser, of |-> trx]
              ELSE [how |-> "value", value |-> SumOfFees(trx.fees), asset |-> parser, of |-> trx]
  /\ UNCHANGED <<parser, callVars, trx, echo>>

Echo(of, wrote, read) ==
  /\ Quiescent
  /\ echo' = [of |-> of, wrote |-> wrote, read |-> read]
  /\ UNCHANGED <<parser, callVars, trx, fee>>

\* A valid identifier comes back in an answer, where its type or another one is expected.
EchoId(type, as, n) ==
  /\ IdValid(type, n)
  /\ LET read == id_from_str(as, id_to_str(type, n))
     IN Echo(IF as = type THEN "id" ELSE "other id", n, IF IdValid(as, read) THEN read ELSE NoInstance("Asset"))
EchoAmount(n) == Echo("amount", n, plc_from_str(plc_to_str(n)))
EchoVotes(n, as_number) == Echo(IF as_number THEN "votes, a number" ELSE "votes", n, parse_votes(n, as_number))
EchoVersion(v) ==
  /\ version_readable(version_to_str(v))
  /\ Echo("version", v, version_from_str(version_to_str(v)))

\* Operations of a transaction: the three vesting balances are withdrawn in one.
MaxFees == 3
SeqsOf(s, n) == UNION {[1..k -> s] : k \in 0..n}
\* Answers in which at most one entry is strange.
AnswersOf(f) ==
  LET sound == SeqsOf(SoundItems, MaxEntries) IN
    sound \cup UNION {{ [entries EXCEPT ![k] = e] : k \in DOMAIN entries, e \in StrangeItems(f) } : entries \in sound}

ParseNext ==
  \/ Quiescent /\ \E f \in DOMAIN Functions :
       (\E entries \in AnswersOf(f) : Begin(f, entries)) \/ Unparsable(f) \/ NullResult(f)
  \/ Quiescent /\ \E f \in DOMAIN Scalars, v \in ScalarValues : ParseScalar(f, v)
  \/ ParseEntry \/ RefuseEntry \/ Abort \/ Return \/ TakeResult
  \/ \E c \in OwnChoices : UpdateParser(c)

TextNext ==
  \/ GetFeeFromTransaction
  \/ /\ Quiescent
     /\ \/ \E fees \in SeqsOf(Prices, MaxFees) : MakeTransaction(fees)
        \/ \E type, as \in DOMAIN IdTypes, n \in Instances : EchoId(type, as, n)
        \/ \E n \in Amounts : EchoAmount(n)
        \/ \E n \in Instances, as_number \in BOOLEAN : EchoVotes(n, as_number)
        \/ \E v \in Versions : EchoVersion(v)

(* The settings' answers and the others are looked at apart.               *)
Rested == chain = (CHOOSE p \in Parameters : TRUE) /\ answers = {} /\ source = Refusal

AnswersInit == Init /\ ResponseInit

AnswersNext ==
  \/ Quiescent /\ Next /\ UNCHANGED responseVars
  \/ Rested /\ (ParseNext \/ TextNext) /\ UNCHANGED vars

AnswersSpec == AnswersInit /\ [][AnswersNext]_<<vars, responseVars>>
-----------------------------------------------------------------------------
(* What must hold. *)

FirstOf(entries, key) ==
  LET ks == {k \in DOMAIN entries : entries[k].key = key} IN entries[Min(ks)]

(* A list that is returned is whole: it has every entry of the answer, in  *)
(* its order, or, of a map, the first of each key; an entry that cannot be *)
(* read leaves no shorter list behind.                                     *)
ListsAreWhole ==
  result.how = "valid" /\ result.f \in DOMAIN Functions =>
    /\ Functions[result.f].shape = "list" => result.data = result.all
    /\ Functions[result.f].shape = "map" =>
         /\ ToSet(result.data) = {FirstOf(result.all, k) : k \in {e.key : e \in ToSet(result.all)}}
         /\ Len(result.data) = Cardinality(ToSet(result.data))
    /\ Functions[result.f].shape \notin {"list", "map"} => Len(result.data) <= 1

(* No amount is taken of an asset that was not the parser's while it       *)
(* parsed, whatever text the amount itself is (parse_asset).               *)
AmountsAreOfOneAsset ==
  result.how = "valid" /\ result.f \in DOMAIN Functions =>
    \A e \in ToSet(result.data) :
      HasAmount(result.f) /\ e.at # "null" => e.asset \in result.during

\* The fees of a transaction: at most three, as withdrawals of vesting balances have.
FeeAt(fees, k) == IF k \in DOMAIN fees THEN fees[k] ELSE 0

(* getFeeFromTransaction returns what the builder charged for all of a     *)
(* transaction's operations, or throws, which it does if and only if the   *)
(* parser's asset is another than the builder's was (playchain_settings    *)
(* are kept twice, response_parser.h:43).                                  *)
FeeReadBack ==
  /\ fee.how = "value" => fee.value = FeeAt(fee.of.fees, 1) + FeeAt(fee.of.fees, 2) + FeeAt(fee.of.fees, 3)
  /\ fee.how # "none" /\ fee.of.fees # <<>> => (fee.how = "throw" <=> fee.asset # fee.of.asset)

(* Identifiers, amounts, votes and versions in texts read as what was      *)
(* written; and no identifier reads as one of another type                 *)
(* (playchain_types.cpp). Votes that come as a number do not, see Texts.   *)
TextsReadBack ==
  /\ echo.of \in {"id", "amount", "votes", "version"} => echo.read = echo.wrote
  /\ echo.of = "other id" => echo.read = NoInstance("Asset")
=============================================================================
