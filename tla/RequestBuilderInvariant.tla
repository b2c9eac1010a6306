---------------------- MODULE RequestBuilderInvariant -----------------------
(***************************************************************************)
(* The inductive invariant behind RequestBuilder's properties. None of     *)
(* them is inductive alone: that draws are unique needs the counter to     *)
(* bound every draw of the current chain time, and that a transaction is   *)
(* made of installed headers needs the same of every unfinished build.     *)
(***************************************************************************)
EXTENDS RequestBuilderRefinement

Versions == 1..Now

\* The context holds the latest version; one epoch is one chain time.
LogInv ==
  /\ log[Now].time = ctx.time
  /\ log[Now].num = ctx.num
  /\ log[Now].prefix = ctx.prefix
  /\ \A v \in Versions : log[v].epoch <= log[Now].epoch
  /\ \A v, w \in Versions : SamePeriod(v, w) => log[v].time = log[w].time

\* No draw of the current chain time exceeds the counter.
Counted(m, v) == v \in Versions /\ (SamePeriod(v, Now) => m <= ctx.next_id)

CounterInv ==
  /\ \A t \in Threads : Drew(t) => Counted(loc[t].seq, when[t].seq)
  /\ \A k \in DOMAIN seen : seen[k].seq # 0 => Counted(seen[k].seq, seen[k].at.seq)

\* What makeTransaction has subtracted from the expiration.
Shortening(seq, off) == IF seq = 0 THEN 0 ELSE seq % off

AfterOffset == {"hash_num", "hash_prefix", "json_num", "json_prefix"}
AfterNum == {"hash_prefix", "json_num", "json_prefix"}
AfterPrefix == {"json_num", "json_prefix"}

\* What a build has read so far was current when it was read, in this order.
BuildInv(t) ==
  /\ pc[t] = "idle" => when[t].time = 0 /\ loc[t].seq = 0
  /\ pc[t] # "idle" => when[t].time \in Versions
  /\ pc[t] = "uniq" => loc[t].seq = 0
  /\ loc[t].seq # 0 => when[t].seq \in when[t].time..Now
  /\ pc[t] \in {"uniq", "offset"} => loc[t].expiration = log[when[t].time].time + loc[t].exp
  /\ pc[t] \in AfterOffset =>
       /\ loc[t].seq # 0 => loc[t].off # 0
       /\ loc[t].expiration
            = log[when[t].time].time + loc[t].exp - Shortening(loc[t].seq, loc[t].off)
  /\ pc[t] \in AfterNum =>
       /\ when[t].num \in when[t].time..Now
       /\ loc[t].seq # 0 => when[t].seq <= when[t].num
       /\ loc[t].num = log[when[t].num].num
  /\ pc[t] \in AfterPrefix =>
       /\ when[t].prefix \in when[t].num..Now
       /\ loc[t].prefix = log[when[t].prefix].prefix
  /\ pc[t] = "json_prefix" =>
       /\ when[t].jnum \in when[t].prefix..Now
       /\ loc[t].jnum = log[when[t].jnum].num

\* The same of a transaction that was returned.
TxInv(k) ==
  LET a == seen[k].at IN
    /\ a.time \in Versions
    /\ a.num \in a.time..Now
    /\ a.prefix \in a.num..Now
    /\ a.jnum \in a.prefix..Now
    /\ a.jprefix \in a.jnum..Now
    /\ seen[k].seq # 0 => a.seq \in a.time..a.num /\ seen[k].off # 0
    /\ txs[k].digest.num = log[a.num].num
    /\ txs[k].digest.prefix = log[a.prefix].prefix
    /\ txs[k].json.num = log[a.jnum].num
    /\ txs[k].json.prefix = log[a.jprefix].prefix
    /\ txs[k].digest.expiration = txs[k].json.expiration
    /\ txs[k].json.expiration
         = log[a.time].time + seen[k].exp - Shortening(seen[k].seq, seen[k].off)

IInv ==
  /\ TypeOK
  /\ LogInv
  /\ CounterInv
  /\ DrawsUnique
  /\ \A t \in Threads : BuildInv(t)
  /\ \A k \in DOMAIN txs : TxInv(k)

\* Each member of m_settings comes from a value that was given to the builder.
Member(exp, off) == (\E s \in Settings : s.exp = exp) /\ (\E s \in Settings : s.off = off)

SettingsInv ==
  /\ Member(settings.exp, settings.off)
  /\ \A t \in Threads : pc[t] # "idle" => \E s \in Settings : s.exp = loc[t].exp
  /\ \A t \in Threads : loc[t].off # 0 => \E s \in Settings : s.off = loc[t].off
  /\ \A k \in DOMAIN seen :
       /\ \E s \in Settings : s.exp = seen[k].exp
       /\ seen[k].off # 0 => \E s \in Settings : s.off = seen[k].off

\* What Serialized adds: no header is installed while a build runs.
QuietInv ==
  /\ \A t \in Threads : pc[t] # "idle" => when[t].time = Now
  /\ \A k \in DOMAIN seen : Quiet(k)

\* What InOrder adds: times ascend, so one time is one epoch; every version but
\* the first is a header's.
OrderInv ==
  /\ \A v, w \in Versions : v <= w =>
       log[v].time <= log[w].time /\ (log[v].time = log[w].time => SamePeriod(v, w))
  /\ \A v \in Versions \ {1} : \E h \in Headers :
       log[v].time = h.time /\ log[v].num = Uint16(h.block) /\ log[v].prefix = h.prefix /\ log[v].by = h.by

\* Of the answers to one request, the reference tells the time: the head's is its own
\* time, an irreversible block's parent has no other child that is irreversible.
OneTimePerReference ==
  \A g, h \in Headers :
    g.by = h.by /\ Uint16(g.block) = Uint16(h.block) /\ g.prefix = h.prefix => g.time = h.time

\* What Serialized adds of the settings: a build runs under one value of them,
\* and a copy that is over leaves the value it was given.
WholeInv ==
  /\ incoming.left = {} => settings \in Settings
  /\ "exp" \notin incoming.left => settings.exp = incoming.to.exp
  /\ "off" \notin incoming.left => settings.off = incoming.to.off
  /\ "uniq" \notin incoming.left => settings.uniq = incoming.to.uniq
  /\ \A t \in Threads : pc[t] # "idle" =>
       /\ incoming.left = {}
       /\ loc[t].exp = settings.exp
       /\ loc[t].seq # 0 => settings.uniq
       /\ pc[t] \in AfterOffset /\ loc[t].seq # 0 => loc[t].off = settings.off
=============================================================================
