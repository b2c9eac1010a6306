----------------------------- MODULE Operations -----------------------------
(***************************************************************************)
(* The operations of a transaction: what a builder function fills in, what *)
(* is hashed for the digest (raw bytes), what is sent (JSON) and what the  *)
(* node that receives it makes of it. The source lists an operation's      *)
(* fields by hand for the raw bytes, for their size and for the JSON, and  *)
(* the digest is worth nothing unless the node arrives at the same bytes.  *)
(***************************************************************************)
EXTENDS Integers, Sequences, SequencesExt, TLC

CONSTANTS
  Fees,          \* fee settings: [basic, price (per kbyte), asset (the id)]
  Values,        \* per kind of field, the values a caller may pass
  DataFeeLimit   \* the data fee that calculate_data_fee refuses

ASSUME FeesAssumption == Fees \subseteq [basic : Nat, price : Nat, asset : Nat]
ASSUME LimitAssumption == DataFeeLimit \in Nat
ASSUME ValuesAssumption ==
  /\ Values.id \cup Values.asset \cup Values.u16 \cup Values.u32 \subseteq Nat
  /\ Values.bool \subseteq BOOLEAN
  /\ Values.string \cup Values.key \cup Values.signature \subseteq Seq(0..255)
  /\ Values.ids \cup Values.stakes \cup Values.results \subseteq Seq(Nat)

VARIABLES
  fees,    \* the builder's fee settings
  result   \* what the last builder function returned, with the fees it used

vars == <<fees, result>>
-----------------------------------------------------------------------------
(* The members of each operation, in the order they are declared. A member *)
(* comes from the parameter of a builder function or is always the same.   *)
(* A part of a struct is named after the member that holds it.             *)

From(name, kind, param) == [name |-> name, kind |-> kind, param |-> param, value |-> 0]
Always(name, kind, value) == [name |-> name, kind |-> kind, param |-> "", value |-> value]

Field(name, kind) == From(<<name>>, kind, name)
Id(name) == Field(name, "id")
String(name) == Field(name, "string")
Asset(name) == Field(name, "asset")

Operation(which, fields) == [which |-> which, fields |-> fields]

\* authority(1, key, 1), both authorities made of the same key; key_auths is the number
\* of its entries, and the one entry is a key and its weight.
Authority(name) ==
  << Always(<<name, "weight_threshold">>, "u32", 1), Always(<<name, "account_auths">>, "id", 0),
     Always(<<name, "key_auths">>, "id", 1), From(<<name, "key">>, "key", "new_pub_key"),
     Always(<<name, "weight">>, "u16", 1), Always(<<name, "obsolete">>, "id", 0) >>

AccountOptions ==
  << From(<<"options", "memo_key">>, "key", "new_pub_key"),
     Always(<<"options", "voting_account">>, "id", 5),
     Always(<<"options", "num_witness">>, "u16", 0), Always(<<"options", "num_committee">>, "u16", 0),
     Always(<<"options", "votes">>, "id", 0), Always(<<"options", "extensions">>, "id", 0) >>

InvitationMembers == [
  player_invitation_create |-> Operation(56,
    <<Asset("fee"), Id("inviter"), String("uid"), Field("lifetime_in_sec", "u32"), String("metadata")>>),
  player_invitation_resolve |-> Operation(57,
    <<Asset("fee"), Id("inviter"), String("uid"), Field("mandat", "signature"), String("name")>>
    \o Authority("owner") \o Authority("active")),
  player_invitation_cancel |-> Operation(58, <<Asset("fee"), Id("inviter"), String("uid")>>)]

TableMembers == [
  buy_in_table |-> Operation(66,
    <<Asset("fee"), Id("player"), Id("table"), Id("table_owner"), Asset("amount")>>),
  buy_out_table |-> Operation(67,
    <<Asset("fee"), Id("player"), Id("table"), Id("table_owner"), Asset("amount"), String("reason")>>)]

GameInitialData ==
  <<From(<<"initial_data", "cash">>, "stakes", "cash"), From(<<"initial_data", "info">>, "string", "info")>>
GameResult ==
  <<From(<<"result", "cash">>, "results", "cash"), From(<<"result", "log">>, "string", "log")>>

GameMembers == [
  game_start_playing_check |-> Operation(68,
    <<Asset("fee"), Id("table"), Id("table_owner"), Id("voter")>> \o GameInitialData),
  game_result_check |-> Operation(69,
    <<Asset("fee"), Id("table"), Id("table_owner"), Id("voter")>> \o GameResult)]

BalanceMembers == [
  vesting_balance_withdraw |-> Operation(33,
    <<Asset("fee"), Id("vesting_balance"), Id("owner"), Asset("amount")>>),
  game_reset |-> Operation(72,
    <<Asset("fee"), Id("table"), Id("table_owner"), Field("rollback_table", "bool")>>)]

ReserveMembers == [
  buy_in_reserve |-> Operation(73,
    <<Asset("fee"), Id("player"), String("uid"), Asset("amount"), String("metadata"),
      String("protocol_version")>>),
  buy_in_reserving_cancel |-> Operation(74, <<Asset("fee"), Id("player"), String("uid")>>),
  buy_in_reserving_resolve |-> Operation(75,
    <<Asset("fee"), Id("table"), Id("table_owner"), Id("pending_buyin")>>)]

AccountMembers == [
  account_create |-> Operation(5,
    <<Asset("fee"), Id("registrar"), From(<<"referrer">>, "id", "registrar"),
      Always(<<"referrer_percent">>, "u16", 0), String("name")>>
    \o Authority("owner") \o Authority("active") \o AccountOptions
    \o <<Always(<<"extensions">>, "id", 0)>>),
  transfer |-> Operation(0,
    <<Asset("fee"), Id("from"), Id("to"), Asset("amount"),
      Always(<<"memo">>, "bool", FALSE), Always(<<"extensions">>, "id", 0)>>),
  player_create_by_room_owner |-> Operation(71, <<Asset("fee"), Id("account"), Id("room_owner")>>)]

RoomMembers == [
  room_create |-> Operation(62,
    <<Asset("fee"), Id("owner"), String("server_url"), String("metadata"), String("protocol_version")>>),
  room_update |-> Operation(63,
    <<Asset("fee"), Id("owner"), Id("room"), String("server_url"), String("metadata"),
      String("protocol_version")>>),
  table_create |-> Operation(64,
    <<Asset("fee"), Id("owner"), Id("room"), String("metadata"), Field("required_witnesses", "u16"),
      Asset("min_accepted_proposal_asset")>>),
  table_update |-> Operation(65,
    <<Asset("fee"), Id("owner"), Id("table"), String("metadata"), Field("required_witnesses", "u16"),
      Asset("min_accepted_proposal_asset")>>)]

\* The two members of witness_update that the node has as optionals come with a flag there.
UpkeepMembers == [
  buy_in_reserving_cancel_all |-> Operation(79, <<Asset("fee"), Id("player")>>),
  witness_update |-> Operation(21,
    <<Asset("fee"), Id("witness"), Id("witness_account"),
      Always(<<"has_url">>, "bool", TRUE), String("new_url"),
      Always(<<"has_key">>, "bool", TRUE), From(<<"new_signing_key">>, "key", "new_pub_key")>>),
  table_alive |-> Operation(85, <<Asset("fee"), Id("owner"), Field("tables", "ids")>>)]

\* Two functions as one, like f @@ g, which has no definition to expand in a proof.
Merge(f, g) == [x \in DOMAIN f \cup DOMAIN g |-> IF x \in DOMAIN f THEN f[x] ELSE g[x]]

Layout ==
  Merge(InvitationMembers, Merge(TableMembers, Merge(GameMembers, Merge(BalanceMembers,
    Merge(ReserveMembers, Merge(AccountMembers, Merge(RoomMembers, UpkeepMembers)))))))
-----------------------------------------------------------------------------
(* What is packed of them, and in which order, is written by hand in three *)
(* functions: pack_object of the raw bytes, pack_size, and pack_object of  *)
(* the JSON. A struct within an operation has a list of its own, which the *)
(* bytes and their size share; the entries of a container are of one shape *)
(* in all of them.                                                         *)

Own(names) == [i \in DOMAIN names |-> <<names[i]>>]
Part(member, names) == [i \in DOMAIN names |-> <<member, names[i]>>]

Lists(raw, size, json) == [raw |-> raw, size |-> size, json |-> json]
Unsized == <<>>  \* no pack_size of its own: it returns 0

AuthorityWithoutObsolete(member) ==  \* mutant: a member that pack_raw_object forgets
  Part(member, <<"weight_threshold", "account_auths", "key_auths", "key", "weight">>)
AuthorityRaw(member) ==
  Part(member, <<"weight_threshold", "account_auths", "key_auths", "key", "weight", "obsolete">>)
AuthorityJson(member) ==
  Part(member, <<"weight_threshold", "account_auths", "key_auths", "key", "weight">>)

AccountOptionsRaw ==
  Part("options", <<"memo_key", "voting_account", "num_witness", "num_committee", "votes", "extensions">>)
AccountOptionsJson ==
  Part("options", <<"memo_key", "voting_account", "num_witness", "num_committee", "votes", "extensions">>)

InvitationLists == [
  player_invitation_create |-> Lists(
    Own(<<"fee", "inviter", "uid", "lifetime_in_sec", "metadata">>),
    Own(<<"fee", "inviter", "uid", "lifetime_in_sec", "metadata">>),
    Own(<<"fee", "inviter", "uid", "lifetime_in_sec", "metadata">>)),
  player_invitation_resolve |-> Lists(
    Own(<<"fee", "inviter", "uid", "mandat", "name">>) \o AuthorityRaw("owner") \o AuthorityRaw("active"),
    Unsized,
    Own(<<"fee", "inviter", "uid", "mandat", "name">>) \o AuthorityJson("owner") \o AuthorityJson("active")),
  player_invitation_cancel |-> Lists(
    Own(<<"fee", "inviter", "uid">>), Own(<<"fee", "inviter", "uid">>), Own(<<"fee", "inviter", "uid">>))]

TableLists == [
  buy_in_table |-> Lists(
    Own(<<"fee", "player", "table", "table_owner", "amount">>),
    Unsized,
    Own(<<"fee", "player", "table", "table_owner", "amount">>)),
  buy_out_table |-> Lists(
    Own(<<"fee", "player", "table", "table_owner", "amount", "reason">>),
    Own(<<"fee", "player", "table", "table_owner", "amount", "reason">>),
    Own(<<"fee", "player", "table", "table_owner", "amount", "reason">>))]

GameInitialDataRaw == Part("initial_data", <<"cash", "info">>)
GameInitialDataJson == Part("initial_data", <<"cash", "info">>)
GameResultRaw == Part("result", <<"cash", "log">>)
GameResultJson == Part("result", <<"cash", "log">>)

GameLists == [
  game_start_playing_check |-> Lists(
    Own(<<"fee", "table", "table_owner", "voter">>) \o GameInitialDataRaw,
    Own(<<"fee", "table", "table_owner", "voter">>) \o GameInitialDataRaw,
    Own(<<"fee", "table", "table_owner", "voter">>) \o GameInitialDataJson),
  game_result_check |-> Lists(
    Own(<<"fee", "table", "table_owner", "voter">>) \o GameResultRaw,
    Own(<<"fee", "table", "table_owner", "voter">>) \o GameResultRaw,
    Own(<<"fee", "table", "table_owner", "voter">>) \o GameResultJson)]

BalanceLists == [
  vesting_balance_withdraw |-> Lists(
    Own(<<"fee", "vesting_balance", "owner", "amount">>),
    Unsized,
    Own(<<"fee", "vesting_balance", "owner", "amount">>)),
  game_reset |-> Lists(
    Own(<<"fee", "table", "table_owner", "rollback_table">>),
    Unsized,
    Own(<<"fee", "table", "table_owner", "rollback_table">>))]

ReserveLists == [
  buy_in_reserve |-> Lists(
    Own(<<"fee", "player", "uid", "amount", "metadata", "protocol_version">>),
    Own(<<"fee", "player", "uid", "amount", "metadata", "protocol_version">>),
    Own(<<"fee", "player", "uid", "amount", "metadata", "protocol_version">>)),
  buy_in_reserving_cancel |-> Lists(
    Own(<<"fee", "player", "uid">>), Own(<<"fee", "player", "uid">>), Own(<<"fee", "player", "uid">>)),
  buy_in_reserving_resolve |-> Lists(
    Own(<<"fee", "table", "table_owner", "pending_buyin">>),
    Unsized,
    Own(<<"fee", "table", "table_owner", "pending_buyin">>))]

AccountLists == [
  account_create |-> Lists(
    Own(<<"fee", "registrar", "referrer", "referrer_percent", "name">>)
      \o AuthorityRaw("owner") \o AuthorityRaw("active") \o AccountOptionsRaw \o Own(<<"extensions">>),
    Own(<<"fee", "registrar", "referrer", "referrer_percent", "name">>)
      \o AuthorityRaw("owner") \o AuthorityRaw("active") \o AccountOptionsRaw \o Own(<<"extensions">>),
    Own(<<"fee", "registrar", "referrer", "referrer_percent", "name">>)
      \o AuthorityJson("owner") \o AuthorityJson("active") \o AccountOptionsJson),
  transfer |-> Lists(
    Own(<<"fee", "from", "to", "amount", "memo", "extensions">>),
    Own(<<"fee", "from", "to", "amount", "memo", "extensions">>),
    Own(<<"fee", "from", "to", "amount">>)),
  player_create_by_room_owner |-> Lists(
    Own(<<"fee", "account", "room_owner">>), Unsized, Own(<<"fee", "account", "room_owner">>))]

RoomLists == [
  room_create |-> Lists(
    Own(<<"fee", "owner", "server_url", "metadata", "protocol_version">>),
    Own(<<"fee", "owner", "server_url", "metadata", "protocol_version">>),
    Own(<<"fee", "owner", "server_url", "metadata", "protocol_version">>)),
  room_update |-> Lists(
    Own(<<"fee", "owner", "room", "server_url", "metadata", "protocol_version">>),
    Own(<<"fee", "owner", "room", "server_url", "metadata", "protocol_version">>),
    Own(<<"fee", "owner", "room", "server_url", "metadata", "protocol_version">>)),
  table_create |-> Lists(
    Own(<<"fee", "owner", "room", "metadata", "required_witnesses", "min_accepted_proposal_asset">>),
    Own(<<"fee", "owner", "room", "metadata", "required_witnesses", "min_accepted_proposal_asset">>),
    Own(<<"fee", "owner", "room", "metadata", "required_witnesses", "min_accepted_proposal_asset">>)),
  table_update |-> Lists(
    Own(<<"fee", "owner", "table", "metadata", "required_witnesses", "min_accepted_proposal_asset">>),
    Own(<<"fee", "owner", "table", "metadata", "required_witnesses", "min_accepted_proposal_asset">>),
    Own(<<"fee", "owner", "table", "metadata", "required_witnesses", "min_accepted_proposal_asset">>))]

UpkeepLists == [
  buy_in_reserving_cancel_all |-> Lists(
    Own(<<"fee", "player">>), Own(<<"fee", "player">>), Own(<<"fee", "player">>)),
  witness_update |-> Lists(
    Own(<<"fee", "witness", "witness_account", "has_url", "new_url", "has_key", "new_signing_key">>),
    Own(<<"fee", "witness", "witness_account", "has_url", "new_url", "has_key", "new_signing_key">>),
    Own(<<"fee", "witness", "witness_account", "new_url", "new_signing_key">>)),
  table_alive |-> Lists(
    Own(<<"fee", "owner", "tables">>), Own(<<"fee", "owner", "tables">>), Own(<<"fee", "owner", "tables">>))]

PackLists ==
  Merge(InvitationLists, Merge(TableLists, Merge(GameLists, Merge(BalanceLists,
    Merge(ReserveLists, Merge(AccountLists, Merge(RoomLists, UpkeepLists)))))))

\* Where a name is declared, and the declarations in the order of a list.
Position(type, name) == CHOOSE i \in DOMAIN Layout[type].fields : Layout[type].fields[i].name = name
Order(type, names) == [i \in DOMAIN names |-> Position(type, names[i])]

RawOrder == [type \in DOMAIN Layout |-> Order(type, PackLists[type].raw)]
SizeOrder == [type \in DOMAIN Layout |-> Order(type, PackLists[type].size)]
JsonNames == [type \in DOMAIN Layout |-> ToSet(PackLists[type].json)]
-----------------------------------------------------------------------------
Params(type) == { Layout[type].fields[i].param : i \in DOMAIN Layout[type].fields } \ {"", "fee"}
KindOf(type, param) ==
  Layout[type].fields[SelectInSeq(Layout[type].fields, LAMBDA f : f.param = param)].kind
-----------------------------------------------------------------------------
(* Raw bytes. Containers are packed as their size and their elements.      *)

Varint[n \in Nat] == IF n < 128 THEN <<n>> ELSE <<128 + (n % 128)>> \o Varint[n \div 128]

\* By width, and then the number.
LittleEndian[width \in Nat] ==
  [n \in Nat |-> IF width = 0 THEN <<>> ELSE <<n % 256>> \o LittleEndian[width - 1][n \div 256]]

\* What is left of a number without its low bytes: nothing, if it fits them.
Beyond[width \in Nat] == [n \in Nat |-> IF width = 0 THEN n ELSE Beyond[width - 1][n \div 256]]
Fits(width, n) == Beyond[width][n] = 0

Kinds == {"id", "u16", "u32", "bool", "asset", "string", "key", "signature", "ids", "stakes", "results"}

\* The elements of one entry of a container.
Entry == [ids |-> <<"id">>, stakes |-> <<"id", "asset">>, results |-> <<"id", "asset", "asset">>]

BadKey == <<>>  \* a key string that public_key_from_string refuses

\* Integers have the width they are sent with, containers are filled entry by entry.
ASSUME FeesFit == \A f \in Fees : Fits(8, f.basic + DataFeeLimit)
ASSUME ValuesFit ==
  /\ \A n \in Values.u16 : Fits(2, n)
  /\ \A n \in Values.u32 : Fits(4, n)
  /\ \A n \in Values.asset : Fits(8, n)
  /\ \A v \in Values.key : Len(v) = 33 \/ v = BadKey
  /\ \A v \in Values.signature : Len(v) = 65
  /\ \A kind \in {"stakes", "results"} : \A v \in Values[kind] :
       /\ Len(v) % Len(Entry[kind]) = 0
       /\ \A i \in DOMAIN v : (i - 1) % Len(Entry[kind]) # 0 => Fits(8, v[i])

PackShortIds(kind, v) ==  \* mutant: the first byte of an unsigned_int only
  CASE kind = "id" -> <<v % 128>>
    [] kind = "u16" -> LittleEndian[2][v]
    [] kind = "u32" -> LittleEndian[4][v]
    [] kind = "bool" -> IF v THEN <<1>> ELSE <<0>>
    [] kind = "asset" -> LittleEndian[8][v.amount] \o <<v.asset_id % 128>>
    [] kind = "string" -> Varint[Len(v)] \o v
    [] OTHER -> v
PackScalar(kind, v) ==
  CASE kind = "id" -> Varint[v]
    [] kind = "u16" -> LittleEndian[2][v]
    [] kind = "u32" -> LittleEndian[4][v]
    [] kind = "bool" -> IF v THEN <<1>> ELSE <<0>>
    [] kind = "asset" -> LittleEndian[8][v.amount] \o Varint[v.asset_id]
    [] kind = "string" -> Varint[Len(v)] \o v
    [] OTHER -> v  \* key and signature: bytes of a fixed number

PackContainer(kinds, v) ==
  Varint[Len(v) \div Len(kinds)]
  \o FlattenSeq([i \in DOMAIN v |-> PackScalar(kinds[1 + ((i - 1) % Len(kinds))], v[i])])

Pack(kind, v) ==
  IF kind \in DOMAIN Entry THEN PackContainer(Entry[kind], v) ELSE PackScalar(kind, v)

Packed(op, order) ==
  LET fields == Layout[op.type].fields IN
    FlattenSeq([i \in DOMAIN order |-> Pack(fields[order[i]].kind, op.values[order[i]])])

\* pack_size leaves out the operation's number.
Body(op) == Packed(op, RawOrder[op.type])
Size(op) == Len(Packed(op, SizeOrder[op.type]))
Raw(op) == Varint[Layout[op.type].which] \o Body(op)
RawList(ops) == Varint[Len(ops)] \o FlattenSeq([i \in DOMAIN ops |-> Raw(ops[i])])

\* The JSON of an operation: its number and the fields that are listed, by name.
JsonBody(op) == [name \in JsonNames[op.type] |-> op.values[Position(op.type, name)]]
Sent(op) == [which |-> Layout[op.type].which, body |-> JsonBody(op)]
-----------------------------------------------------------------------------
(* The node: what it makes of the JSON it is sent, and what it hashes. Its *)
(* operations have the members declared here, in this order; a member that *)
(* is not sent has its default there.                                      *)

TypeOf(which) == CHOOSE type \in DOMAIN Layout : Layout[type].which = which

\* An optional is present if its value is; nothing else is by default.
NodeDefault(name, kind, given) ==
  CASE name = <<"has_url">> -> <<"new_url">> \in given
    [] name = <<"has_key">> -> <<"new_signing_key">> \in given
    [] OTHER -> IF kind = "bool" THEN FALSE ELSE 0

NodeValues(fields, body) ==
  [i \in DOMAIN fields |->
    IF fields[i].name \in DOMAIN body
      THEN body[fields[i].name]
      ELSE NodeDefault(fields[i].name, fields[i].kind, DOMAIN body)]

NodeReads(js) ==
  LET type == TypeOf(js.which) IN [type |-> type, values |-> NodeValues(Layout[type].fields, js.body)]

NodeBody(op) ==
  LET fields == Layout[op.type].fields IN
    FlattenSeq([i \in DOMAIN fields |-> Pack(fields[i].kind, op.values[i])])
NodeRaw(op) == Varint[Layout[op.type].which] \o NodeBody(op)
NodeList(ops) == Varint[Len(ops)] \o FlattenSeq([i \in DOMAIN ops |-> NodeRaw(ops[i])])
-----------------------------------------------------------------------------
(* The decoder the raw bytes are written for: every field finds its end.   *)

Read(value, rest) == [value |-> value, rest |-> rest]

\* By the bytes a number may take, and then the bytes.
TakeVarint[most \in Nat] ==
  [s \in Seq(0..255) |->
     IF most = 0 \/ s = <<>> THEN Read(0, s)
     ELSE LET more == TakeVarint[most - 1][Tail(s)] IN
       IF Head(s) < 128 THEN Read(Head(s), Tail(s)) ELSE Read((Head(s) % 128) + (128 * more.value), more.rest)]
TakeNumber[width \in Nat] ==
  [s \in Seq(0..255) |->
     IF width = 0 \/ s = <<>> THEN Read(0, s)
     ELSE LET more == TakeNumber[width - 1][Tail(s)] IN Read(Head(s) + (256 * more.value), more.rest)]

TakeSize(s) == TakeVarint[Len(s)][s]
TakeBytes(n, s) == Read(SubSeq(s, 1, n), SubSeq(s, n + 1, Len(s)))

\* n things, each of them from where the one before it ends.
TakeEach(n, One(_, _), s) ==
  LET taken[i \in 0..n] ==
        IF i = 0 THEN Read(<<>>, s)
        ELSE LET before == taken[i - 1]
                 next == One(i, before.rest) IN Read(Append(before.value, next.value), next.rest) IN
    taken[n]

TakeAsset(s) ==
  LET amount == TakeNumber[8][s]
      asset == TakeSize(amount.rest) IN
    Read([amount |-> amount.value, asset_id |-> asset.value], asset.rest)
TakeScalar(kind, s) ==
  CASE kind = "id" -> TakeSize(s)
    [] kind = "u16" -> TakeNumber[2][s]
    [] kind = "u32" -> TakeNumber[4][s]
    [] kind = "bool" -> Read(Head(s) = 1, Tail(s))
    [] kind = "asset" -> TakeAsset(s)
    [] kind = "string" -> TakeBytes(TakeSize(s).value, TakeSize(s).rest)
    [] kind = "key" -> TakeBytes(33, s)
    [] kind = "signature" -> TakeBytes(65, s)

TakeContainer(kinds, s) ==
  TakeEach(TakeSize(s).value * Len(kinds),
           LAMBDA i, rest : TakeScalar(kinds[1 + ((i - 1) % Len(kinds))], rest), TakeSize(s).rest)

Take(kind, s) ==
  IF kind \in DOMAIN Entry THEN TakeContainer(Entry[kind], s) ELSE TakeScalar(kind, s)

TakeOperation(s) ==
  LET which == TakeSize(s)
      type == TypeOf(which.value)
      fields == Layout[type].fields
      body == TakeEach(Len(fields), LAMBDA i, rest : Take(fields[i].kind, rest), which.rest) IN
    Read([type |-> type, values |-> body.value], body.rest)

Decode(s) == TakeEach(TakeSize(s).value, LAMBDA i, rest : TakeOperation(rest), TakeSize(s).rest)
-----------------------------------------------------------------------------
(* The builder functions: which fee each pays.                             *)

PendingBuyinBuilders == [
  buy_in_reserve |-> "priced", buy_in_reserving_cancel |-> "priced",
  buy_in_reserving_resolve |-> "basic", buy_in_reserving_cancel_all |-> "basic"]
InvitationBuilders == [
  player_invitation_create |-> "priced", player_invitation_cancel |-> "priced",
  player_invitation_resolve |-> "free"]
TableBuilders == [
  buy_in_table |-> "basic", buy_out_table |-> "priced", game_start_playing_check |-> "priced",
  game_result_check |-> "priced", game_reset |-> "basic"]
AccountBuilders == [
  transfer |-> "priced", account_create |-> "priced", player_create_by_room_owner |-> "basic"]
RoomBuilders == [
  room_create |-> "priced", table_create |-> "priced", room_update |-> "priced",
  table_update |-> "priced", table_alive |-> "basic", witness_update |-> "basic"]

Charge ==
  Merge(PendingBuyinBuilders, Merge(InvitationBuilders,
    Merge(TableBuilders, Merge(AccountBuilders, RoomBuilders))))

DataFee(bytes, price) == (bytes * price) \div 1024

\* The value of a field: amounts get the asset of the settings.
FieldValue(f, args, fee) ==
  LET asset(n) == [amount |-> n, asset_id |-> fees.asset] IN
    IF f.param = "" THEN f.value
    ELSE IF f.param = "fee" THEN asset(fee)
    ELSE
    CASE f.kind = "asset" -> asset(args[f.param])
      [] f.kind \in {"stakes", "results"} ->
           [i \in DOMAIN args[f.param] |->
              IF (i - 1) % Len(Entry[f.kind]) = 0 THEN args[f.param][i] ELSE asset(args[f.param][i])]
      [] OTHER -> args[f.param]

Fill(type, args, fee) ==
  [type |-> type,
   values |-> [i \in DOMAIN Layout[type].fields |-> FieldValue(Layout[type].fields[i], args, fee)]]

FeeBeforeStrings(type, args) ==  \* mutant: the data fee is taken before the strings are set
  LET early == [p \in DOMAIN args |-> IF KindOf(type, p) = "string" THEN <<>> ELSE args[p]] IN
    CASE Charge[type] = "free" -> 0
      [] Charge[type] = "basic" -> fees.basic
      [] Charge[type] = "priced" -> fees.basic + DataFee(Size(Fill(type, early, fees.basic)), fees.price)
\* The fee of an operation: its size is taken while it holds the basic fee.
Fee(type, args) ==
  CASE Charge[type] = "free" -> 0
    [] Charge[type] = "basic" -> fees.basic
    [] Charge[type] = "priced" -> fees.basic + DataFee(Size(Fill(type, args, fees.basic)), fees.price)

Returned(status, ops) ==
  [status |-> status, fees |-> fees, ops |-> ops, raw |-> RawList(ops),
   sent |-> [i \in DOMAIN ops |-> Sent(ops[i])]]

With(args, p, v) == [q \in DOMAIN args \cup {p} |-> IF q = p THEN v ELSE args[q]]
Args(type) ==
  FoldSet(LAMBDA p, some : {With(args, p, v) : args \in some, v \in Values[KindOf(type, p)]},
          {<<>>}, Params(type))
TakesBadKey(args) == "new_pub_key" \in DOMAIN args /\ args["new_pub_key"] = BadKey

Nothing == [status |-> "none", fees |-> fees, ops |-> <<>>, raw |-> RawList(<<>>), sent |-> <<>>]

Idle == result = Nothing

Init ==
  /\ fees \in Fees
  /\ result = Nothing

UpdateFees(f) ==
  /\ Idle
  /\ fees' = f
  /\ result' = [result EXCEPT !.fees = f]

\* The caller takes the result: what a call returns depends on no earlier call.
TakeResult == ~Idle /\ result' = Nothing /\ UNCHANGED fees

(* The builder functions of one operation.                                 *)
Make(type, args) ==
  /\ Idle
  /\ ~TakesBadKey(args)
  /\ Fee(type, args) - fees.basic < DataFeeLimit
  /\ result' = Returned("made", <<Fill(type, args, Fee(type, args))>>)
  /\ UNCHANGED fees

\* calculate_data_fee's assertion leaves the function.
RefuseDataFee(type, args) ==
  /\ Idle
  /\ ~TakesBadKey(args)
  /\ Fee(type, args) - fees.basic >= DataFeeLimit
  /\ result' = Returned("thrown", <<>>)
  /\ UNCHANGED fees

\* makeResolvePlayerInvitationTransaction catches the exception, the others do not.
RefuseKey(type, args) ==
  /\ Idle
  /\ TakesBadKey(args)
  /\ result' = Returned(IF type = "player_invitation_resolve" THEN "empty" ELSE "thrown", <<>>)
  /\ UNCHANGED fees

(* makeWithdrawPlaychainVestingBalanceTransaction: one operation for each  *)
(* balance whose id is valid, in this order.                               *)
Balances == <<"referral", "rake", "witness">>

Withdraw(owner, ids, amounts) ==
  /\ Idle
  /\ result' = Returned("made", FlattenSeq([i \in DOMAIN Balances |->
       IF Balances[i] \in DOMAIN ids
         THEN <<Fill("vesting_balance_withdraw",
                  [vesting_balance |-> ids[Balances[i]], owner |-> owner, amount |-> amounts[Balances[i]]], fees.basic)>>
         ELSE <<>>]))
  /\ UNCHANGED fees

Next ==
  \/ \E f \in Fees : UpdateFees(f)
  \/ TakeResult
  \/ \E type \in DOMAIN Charge : \E args \in Args(type) :
       Make(type, args) \/ RefuseDataFee(type, args) \/ RefuseKey(type, args)
  \/ \E owner \in Values.id : \E valid \in SUBSET {"referral", "rake", "witness"} :
       \E ids \in [valid -> Values.id] : \E amounts \in [valid -> Values.asset] : Withdraw(owner, ids, amounts)

Spec == Init /\ [][Next]_vars
-----------------------------------------------------------------------------
(* What must hold. *)

\* Operations are told apart by their number and the members of one by their name.
\* The layouts have no parameters.
LayoutIsFaithful ==
  /\ DOMAIN Charge \cup {"vesting_balance_withdraw"} = DOMAIN Layout
  /\ \A s, t \in DOMAIN Layout : Layout[s].which = Layout[t].which => s = t
  /\ \A t \in DOMAIN Layout : \A i, j \in DOMAIN Layout[t].fields :
       Layout[t].fields[i].name = Layout[t].fields[j].name => i = j

\* What a field of a kind may hold, and that the layouts keep to it: the fee comes first,
\* and fields of one parameter are of one kind.
IsScalar(kind, v) ==
  /\ kind \in {"id", "u16", "u32"} => v \in Nat
  /\ kind = "bool" => v \in BOOLEAN
  /\ kind = "asset" => v \in [amount : Nat, asset_id : Nat]
  /\ kind \in {"string", "key", "signature"} => v \in Seq(0..255)
IsValue(kind, v) ==
  IF kind \in DOMAIN Entry
    THEN /\ Len(v) \in Nat /\ v = [i \in 1..Len(v) |-> v[i]]
         /\ \A i \in 1..Len(v) : IsScalar(Entry[kind][1 + ((i - 1) % Len(Entry[kind]))], v[i])
    ELSE IsScalar(kind, v)
\* And that what it holds has the width it is packed with.
FitsScalar(kind, v) ==
  /\ kind = "u16" => Fits(2, v)
  /\ kind = "u32" => Fits(4, v)
  /\ kind = "asset" => Fits(8, v.amount)
  /\ kind = "key" => Len(v) = 33
  /\ kind = "signature" => Len(v) = 65
FitsValue(kind, v) ==
  IF kind \in DOMAIN Entry
    THEN /\ Len(v) % Len(Entry[kind]) = 0
         /\ \A i \in 1..Len(v) : FitsScalar(Entry[kind][1 + ((i - 1) % Len(Entry[kind]))], v[i])
    ELSE FitsScalar(kind, v)
Typed(t, fields) ==
  /\ Len(fields) \in Nat \ {0} /\ DOMAIN fields = 1..Len(fields)
  /\ fields[1].param = "fee" /\ fields[1].kind = "asset"
  /\ \A i \in DOMAIN fields :
       /\ fields[i].kind \in Kinds
       /\ fields[i].param = "fee" => i = 1
       /\ fields[i].param = "" => IsValue(fields[i].kind, fields[i].value) /\ FitsValue(fields[i].kind, fields[i].value)
       /\ fields[i].kind = "key" => fields[i].param = "new_pub_key"
       /\ fields[i].param \notin {"", "fee"} => KindOf(t, fields[i].param) = fields[i].kind
LayoutIsTyped ==
  /\ "vesting_balance_withdraw" \notin DOMAIN Charge
  /\ \A t \in DOMAIN Charge : Charge[t] \in {"free", "basic", "priced"}
  /\ \A t \in DOMAIN Layout : Typed(t, Layout[t].fields) /\ Layout[t].which \in Nat
  /\ \A p \in Params("vesting_balance_withdraw") :
       \/ p \in {"vesting_balance", "owner"} /\ KindOf("vesting_balance_withdraw", p) = "id"
       \/ p = "amount" /\ KindOf("vesting_balance_withdraw", p) = "asset"

(* The node that reads the JSON hashes the bytes that were signed: no      *)
(* member was forgotten or moved in one of the lists, and the members that *)
(* are not sent hold what the node assumes of them (pack_object, twice).   *)
NodeHashesWhatWasSigned == result.raw = NodeList([i \in DOMAIN result.sent |-> NodeReads(result.sent[i])])

(* The bytes that are signed have one reading: operations that differ in   *)
(* any field never share a digest (pack_to_raw_helper.h).                  *)
OneReading ==
  result.status = "made" => Decode(result.raw) = [value |-> result.ops, rest |-> <<>>]

(* An operation with a data fee pays for the bytes that are hashed of it   *)
(* in the end, its fee included, although the fee is computed from what    *)
(* pack_size gave before; all of them pay in the asset of the settings     *)
(* (calculate_data_fee).                                                   *)
FeeCoversSize ==
  \A i \in DOMAIN result.ops :
    LET op == result.ops[i] fee == op.values[1] IN
      op.type \in DOMAIN Charge /\ Charge[op.type] = "priced" =>
        /\ fee.amount >= result.fees.basic + ((Len(Body(op)) * result.fees.price) \div 1024)
        /\ fee.asset_id = result.fees.asset
=============================================================================
