------------------------ MODULE RequestBuilderProofs ------------------------
(***************************************************************************)
(* Proofs about RequestBuilder for every set of threads, headers and       *)
(* settings and every bound.                                               *)
(***************************************************************************)
EXTENDS RequestBuilderInvariant, TLAPS

LEMMA Uint16InRange ==
  /\ \A n \in Nat : Uint16(n) \in Uint16Values
  /\ Uint16Values \subseteq Nat
  BY DEF Uint16, Uint16Values

LEMMA HeaderFields ==
  ASSUME NEW h \in Headers
  PROVE  h.time \in Nat /\ h.prefix \in Nat /\ Uint16(h.block) \in Uint16Values
  BY HeadersAssumption, Uint16InRange DEF Header

(***************************************************************************)
(* Type correctness. Now >= 1 goes with it: the context always has a       *)
(* version, the one the constructor left.                                  *)
(***************************************************************************)
Typed == TypeOK /\ Now >= 1

LEMMA TypedInit == Init => Typed
  <1> SUFFICES ASSUME Init PROVE Typed
    OBVIOUS
  <1>1. settings \in SettingsRecord /\ incoming \in [to : Settings, left : SUBSET Members]
    BY SettingsAssumption DEF Init
  <1>2. 0 \in Uint16Values
    BY DEF Uint16Values
  <1>3. /\ ctx \in Context
        /\ pc \in [Threads -> Statements]
        /\ loc \in [Threads -> Locals]
        /\ when \in [Threads -> Reads]
    BY <1>2 DEF Init, Context, Statements, NoLocals, Locals, NoReads, Reads
  <1>4. /\ log \in Seq(Version) /\ Len(log) = 1
        /\ txs \in Seq(Issued) /\ seen \in Seq(Trace) /\ Len(seen) = Len(txs)
    BY <1>2 DEF Init, Version
  <1>5. QED
    BY <1>1, <1>3, <1>4 DEF Typed, TypeOK, Now

LEMMA TypedInstall ==
  ASSUME Typed, NEW h \in Headers, SetChainInfo(h)
  PROVE  Typed'
  <1>1. ctx' \in Context
    BY HeaderFields DEF Typed, TypeOK, SetChainInfo, NextId, Context
  <1>2. log' \in Seq(Version) /\ Len(log') = Len(log) + 1
    <2>1. log[Now] \in Version
      BY DEF Typed, TypeOK, Now
    <2> DEFINE entry == [time |-> h.time, num |-> Uint16(h.block), prefix |-> h.prefix,
                         epoch |-> IF h.time # ctx.time THEN log[Now].epoch + 1
                                                        ELSE log[Now].epoch,
                         by |-> h.by]
    <2>2. entry \in Version
      BY <2>1, HeaderFields, HeadersAssumption DEF Version, Header
    <2>3. log' = Append(log, entry) /\ log \in Seq(Version)
      BY DEF Typed, TypeOK, SetChainInfo
    <2> HIDE DEF entry
    <2>4. QED
      BY <2>2, <2>3
  <1>3. QED
    BY <1>1, <1>2 DEF Typed, TypeOK, Now, SetChainInfo, NextId, settingsVars, callVars, resultVars

LEMMA TypedSettings ==
  /\ \A s \in Settings : Typed /\ BeginUpdateSettings(s) => Typed'
  /\ \A m \in Members : Typed /\ CopyMember(m) => Typed'
  <1>1. ASSUME NEW s \in Settings, Typed, BeginUpdateSettings(s) PROVE Typed'
    BY <1>1 DEF Typed, TypeOK, Now, BeginUpdateSettings, builderVars, callVars, resultVars
  <1>2. ASSUME NEW m \in Members, Typed, CopyMember(m) PROVE Typed'
    <2>1. settings' \in SettingsRecord
      BY <1>2, SettingsAssumption DEF Typed, TypeOK, CopyMember, SettingsRecord
    <2>2. incoming' \in [to : Settings, left : SUBSET Members]
      BY <1>2 DEF Typed, TypeOK, CopyMember
    <2>3. QED
      BY <1>2, <2>1, <2>2 DEF Typed, TypeOK, Now, CopyMember, builderVars, callVars, resultVars
  <1>3. QED
    BY <1>1, <1>2

LEMMA FieldTypes ==
  ASSUME Typed
  PROVE  /\ ctx.time \in Nat /\ ctx.num \in Nat /\ ctx.prefix \in Nat /\ ctx.next_id \in Nat
         /\ settings.exp \in Nat /\ settings.off \in Nat
         /\ Now \in Nat /\ Now >= 1
  <1>1. ctx.time \in Nat /\ ctx.num \in Nat /\ ctx.prefix \in Nat /\ ctx.next_id \in Nat
    BY Uint16InRange DEF Typed, TypeOK, Context
  <1>2. settings.exp \in Nat /\ settings.off \in Nat
    BY DEF Typed, TypeOK, SettingsRecord
  <1>3. Now \in Nat /\ Now >= 1
    BY DEF Typed, TypeOK, Now
  <1>4. QED
    BY <1>1, <1>2, <1>3

LEMMA TypedMakeTransaction ==
  ASSUME Typed, NEW t \in Threads, MakeTransaction(t)
  PROVE  Typed'
  <1> USE FieldTypes DEF builderVars, settingsVars, resultVars, Goto
  <1>0. pc' \in [Threads -> Statements]
    <2>1. \E s \in Statements : pc' = [pc EXCEPT ![t] = s]
      BY DEF MakeTransaction, ReadTime, SkipSequence, DrawSequence, SubtractOffset, Shortened,
             TrapOnZeroOffset, HashRefBlockNum, HashRefBlockPrefix, WriteRefBlockNum,
             WriteRefBlockPrefix, Statements
    <2>2. QED
      BY <2>1 DEF Typed, TypeOK
  <1>1. CASE ReadTime(t)
    <2>0. ctx.time + settings.exp \in Int /\ settings.exp \in Nat
      OBVIOUS
    <2>1. [NoLocals EXCEPT !.expiration = ctx.time + settings.exp, !.exp = settings.exp] \in Locals
      BY <2>0 DEF NoLocals, Locals
    <2>2. [NoReads EXCEPT !.time = Now] \in Reads
      BY DEF NoReads, Reads
    <2>3. QED
      BY <1>0, <1>1, <2>1, <2>2 DEF Typed, TypeOK, ReadTime, Now
  <1>2. CASE SkipSequence(t)
    BY <1>0, <1>2 DEF Typed, TypeOK, Now, SkipSequence
  <1>3. CASE DrawSequence(t)
    <2>0. ctx.next_id + 1 \in Nat
      OBVIOUS
    <2>1. ctx' \in Context
      BY <1>3, <2>0 DEF Typed, TypeOK, DrawSequence, Context
    <2>2. loc' \in [Threads -> Locals]
      BY <1>3, <2>0 DEF Typed, TypeOK, DrawSequence, Locals
    <2>3. when' \in [Threads -> Reads]
      BY <1>3 DEF Typed, TypeOK, DrawSequence, Reads
    <2>4. QED
      BY <1>0, <1>3, <2>1, <2>2, <2>3 DEF Typed, TypeOK, Now, DrawSequence
  <1>4. CASE SubtractOffset(t)
    <2>1. settings.off \in Nat \ {0} /\ loc[t].seq \in Nat /\ loc[t].expiration \in Int
      BY <1>4 DEF Typed, TypeOK, SubtractOffset, Shortened, Locals
    <2>2. loc[t].seq % settings.off \in Int
      BY <2>1
    <2>3. loc[t].expiration - (loc[t].seq % settings.off) \in Int
      BY <2>1, <2>2
    <2>4. loc' \in [Threads -> Locals]
      BY <1>4, <2>3 DEF Typed, TypeOK, SubtractOffset, Shortened, Locals
    <2>5. QED
      BY <1>0, <1>4, <2>4 DEF Typed, TypeOK, Now, SubtractOffset, Shortened
  <1>5. CASE TrapOnZeroOffset(t)
    BY <1>0, <1>5 DEF Typed, TypeOK, Now, TrapOnZeroOffset
  <1>6. CASE HashRefBlockNum(t)
    <2>1. loc' \in [Threads -> Locals]
      BY <1>6 DEF Typed, TypeOK, HashRefBlockNum, Locals
    <2>2. when' \in [Threads -> Reads]
      BY <1>6 DEF Typed, TypeOK, HashRefBlockNum, Reads
    <2>3. QED
      BY <1>0, <1>6, <2>1, <2>2 DEF Typed, TypeOK, Now, HashRefBlockNum
  <1>7. CASE HashRefBlockPrefix(t)
    <2>1. loc' \in [Threads -> Locals]
      BY <1>7 DEF Typed, TypeOK, HashRefBlockPrefix, Locals
    <2>2. when' \in [Threads -> Reads]
      BY <1>7 DEF Typed, TypeOK, HashRefBlockPrefix, Reads
    <2>3. QED
      BY <1>0, <1>7, <2>1, <2>2 DEF Typed, TypeOK, Now, HashRefBlockPrefix
  <1>8. CASE WriteRefBlockNum(t)
    <2>1. loc' \in [Threads -> Locals]
      BY <1>8 DEF Typed, TypeOK, WriteRefBlockNum, Locals
    <2>2. when' \in [Threads -> Reads]
      BY <1>8 DEF Typed, TypeOK, WriteRefBlockNum, Reads
    <2>3. QED
      BY <1>0, <1>8, <2>1, <2>2 DEF Typed, TypeOK, Now, WriteRefBlockNum
  <1>9. CASE WriteRefBlockPrefix(t)
    <2>1. loc[t] \in Locals /\ when[t] \in Reads
      BY DEF Typed, TypeOK
    <2>2. Transaction(loc[t], ctx.prefix) \in Issued
      BY <2>1 DEF Transaction, Locals, Issued, Refs
    <2>3. [at |-> [when[t] EXCEPT !.jprefix = Now], seq |-> loc[t].seq,
           exp |-> loc[t].exp, off |-> loc[t].off] \in Trace
      BY <2>1 DEF Locals, Reads, Trace
    <2>4. txs' \in Seq(Issued) /\ seen' \in Seq(Trace) /\ Len(seen') = Len(txs')
      BY <1>9, <2>2, <2>3 DEF Typed, TypeOK, WriteRefBlockPrefix
    <2>5. NoLocals \in Locals /\ NoReads \in Reads
      BY DEF Locals, NoLocals, Reads, NoReads
    <2>6. QED
      BY <1>0, <1>9, <2>4, <2>5 DEF Typed, TypeOK, Now, WriteRefBlockPrefix
  <1>10. QED
    BY <1>1, <1>2, <1>3, <1>4, <1>5, <1>6, <1>7, <1>8, <1>9 DEF MakeTransaction

LEMMA TypedStep == Typed /\ [Next]_vars => Typed'
  <1> SUFFICES ASSUME Typed, [Next]_vars PROVE Typed'
    OBVIOUS
  <1>1. ASSUME UNCHANGED vars PROVE Typed'
    BY <1>1 DEF vars, Typed, TypeOK, Now
  <1>2. QED
    BY <1>1, TypedInstall, TypedSettings, TypedMakeTransaction DEF Next, Rest

(* Every value the builder and its calls hold has its type. *)
THEOREM TypeCorrect == Spec => []TypeOK
  <1>1. Typed => TypeOK
    BY DEF Typed
  <1>2. QED
    BY TypedInit, TypedStep, <1>1, PTL DEF Spec

-----------------------------------------------------------------------------
(***************************************************************************)
(* The inductive invariant. The log only grows, so what a build or a       *)
(* returned transaction refers to stays where it was; each action then     *)
(* disturbs one thread's build at most.                                    *)
(***************************************************************************)

LEMMA LogEntries ==
  ASSUME Typed
  PROVE  /\ Now \in Versions
         /\ \A v \in Versions : log[v].epoch \in Nat /\ log[v].time \in Nat
  <1>1. \A v \in Versions : log[v] \in Version
    BY DEF Typed, TypeOK, Versions, Now
  <1>2. \A v \in Versions : log[v].epoch \in Nat /\ log[v].time \in Nat
    BY <1>1 DEF Version
  <1>3. QED
    BY <1>2, FieldTypes DEF Versions

LEMMA LogGrows ==
  ASSUME Typed, [Next]_vars
  PROVE  Now' \in Nat /\ Now' >= Now /\ \A v \in Versions : log'[v] = log[v]
  <1>1. CASE log' = log
    BY <1>1, FieldTypes DEF Now, Versions
  <1>2. ASSUME NEW h \in Headers, SetChainInfo(h)
        PROVE  Now' \in Nat /\ Now' >= Now /\ \A v \in Versions : log'[v] = log[v]
    BY <1>2 DEF SetChainInfo, NextId, Typed, TypeOK, Now, Versions
  <1>3. (\E h \in Headers : SetChainInfo(h)) \/ log' = log
    BY DEF Next, vars, Rest, BeginUpdateSettings, CopyMember, MakeTransaction, ReadTime,
           SkipSequence, DrawSequence, SubtractOffset, Shortened, TrapOnZeroOffset, HashRefBlockNum,
           HashRefBlockPrefix, WriteRefBlockNum, WriteRefBlockPrefix, builderVars
  <1>4. QED
    BY <1>1, <1>2, <1>3

LEMMA BuildStable ==
  ASSUME Typed, [Next]_vars, NEW t \in Threads, BuildInv(t),
         pc'[t] = pc[t], loc'[t] = loc[t], when'[t] = when[t]
  PROVE  BuildInv(t)'
  <1>1. when[t] \in Reads /\ loc[t] \in Locals
    BY DEF Typed, TypeOK
  <1>2. /\ when[t].time \in Nat /\ when[t].seq \in Nat /\ when[t].num \in Nat
        /\ when[t].prefix \in Nat /\ when[t].jnum \in Nat
    BY <1>1 DEF Reads
  <1>3. Now \in Nat /\ Now' \in Nat /\ Now' >= Now /\ \A v \in Versions : log'[v] = log[v]
    BY LogGrows, FieldTypes
  <1>4. QED
    BY <1>2, <1>3 DEF BuildInv, Versions, AfterOffset, AfterNum, AfterPrefix

LEMMA TxStable ==
  ASSUME Typed, [Next]_vars, NEW k \in DOMAIN txs, TxInv(k),
         txs'[k] = txs[k], seen'[k] = seen[k]
  PROVE  TxInv(k)'
  <1>1. seen[k] \in Trace
    BY DEF Typed, TypeOK
  <1>2. /\ seen[k].at.time \in Nat /\ seen[k].at.seq \in Nat /\ seen[k].at.num \in Nat
        /\ seen[k].at.prefix \in Nat /\ seen[k].at.jnum \in Nat /\ seen[k].at.jprefix \in Nat
    BY <1>1 DEF Trace, Reads
  <1>3. Now \in Nat /\ Now' \in Nat /\ Now' >= Now /\ \A v \in Versions : log'[v] = log[v]
    BY LogGrows, FieldTypes
  <1>4. QED
    BY <1>2, <1>3 DEF TxInv, Versions

\* Every action but setChainInfo leaves the header in the context alone.
LEMMA OnlySetChainInfo ==
  ASSUME Typed, [Next]_vars
  PROVE  \/ \E h \in Headers : SetChainInfo(h)
         \/ log' = log /\ ctx'.time = ctx.time /\ ctx'.num = ctx.num /\ ctx'.prefix = ctx.prefix
  <1>1. ASSUME NEW t \in Threads, DrawSequence(t)
        PROVE  log' = log /\ ctx'.time = ctx.time /\ ctx'.num = ctx.num /\ ctx'.prefix = ctx.prefix
    BY <1>1 DEF DrawSequence, Typed, TypeOK, Context
  <1>2. (\E h \in Headers : SetChainInfo(h))
        \/ (\E t \in Threads : DrawSequence(t)) \/ UNCHANGED <<ctx, log>>
    BY DEF Next, vars, Rest, BeginUpdateSettings, CopyMember, MakeTransaction, ReadTime,
           SkipSequence, SubtractOffset, Shortened, TrapOnZeroOffset, HashRefBlockNum,
           HashRefBlockPrefix, WriteRefBlockNum, WriteRefBlockPrefix, builderVars
  <1>3. QED
    BY <1>1, <1>2

LEMMA LogInvStep ==
  ASSUME Typed, LogInv, [Next]_vars
  PROVE  LogInv'
  <1>1. CASE log' = log /\ ctx'.time = ctx.time /\ ctx'.num = ctx.num /\ ctx'.prefix = ctx.prefix
    BY <1>1 DEF LogInv, Versions, SamePeriod, Now
  <1>2. ASSUME NEW h \in Headers, SetChainInfo(h) PROVE LogInv'
    <2> DEFINE entry == [time |-> h.time, num |-> Uint16(h.block), prefix |-> h.prefix,
                         epoch |-> IF h.time # ctx.time THEN log[Now].epoch + 1
                                                        ELSE log[Now].epoch,
                         by |-> h.by]
    <2>1. Now' = Now + 1 /\ log'[Now + 1] = entry /\ \A v \in Versions : log'[v] = log[v]
      BY <1>2 DEF SetChainInfo, NextId, Typed, TypeOK, Now, Versions
    <2>2. ctx'.time = h.time /\ ctx'.num = Uint16(h.block) /\ ctx'.prefix = h.prefix
      BY <1>2 DEF SetChainInfo, NextId
    <2>3. \A v \in Versions : log[v].epoch \in Nat
      BY LogEntries
    <2>4. Now \in Versions /\ Versions' = Versions \union {Now + 1}
      BY <2>1, FieldTypes DEF Versions
    <2>5. entry.epoch \in {log[Now].epoch, log[Now].epoch + 1}
          /\ (entry.epoch = log[Now].epoch => entry.time = ctx.time)
      BY <2>3, <2>4
    <2>6. \A v \in Versions' : log'[v].epoch <= log'[Now'].epoch
      BY <2>1, <2>3, <2>4, <2>5 DEF LogInv
    <2>7. \A v \in Versions : log[v].epoch = entry.epoch => log[v].time = entry.time
      <3> SUFFICES ASSUME NEW v \in Versions, log[v].epoch = entry.epoch
                   PROVE  log[v].time = entry.time
        OBVIOUS
      <3>1. log[v].epoch \in Nat /\ log[Now].epoch \in Nat /\ log[v].epoch <= log[Now].epoch
        BY <2>3, <2>4 DEF LogInv
      <3>2. log[v].epoch = log[Now].epoch /\ entry.time = ctx.time
        BY <2>5, <3>1
      <3>3. QED
        BY <2>4, <3>2 DEF LogInv, SamePeriod
    <2>8. \A v, w \in Versions' : SamePeriod(v, w)' => log'[v].time = log'[w].time
      BY <2>1, <2>4, <2>7 DEF LogInv, SamePeriod
    <2>9. QED
      BY <2>1, <2>2, <2>6, <2>8 DEF LogInv
  <1>3. QED
    BY <1>1, <1>2, OnlySetChainInfo

(***************************************************************************)
(* Draws: a build's draw stays with it until it is returned, and only      *)
(* DrawSequence makes one.                                                 *)
(***************************************************************************)
DrawInv == CounterInv /\ DrawsUnique

SameDraw(t) ==
  /\ Drew(t)' <=> Drew(t)
  /\ loc'[t].seq = loc[t].seq
  /\ when'[t].seq = when[t].seq

LEMMA LocalTypes ==
  ASSUME Typed, NEW t \in Threads
  PROVE  /\ loc[t].seq \in Nat /\ loc[t].off \in Nat /\ loc[t].exp \in Nat
         /\ loc[t].expiration \in Int
         /\ when[t].time \in Nat /\ when[t].seq \in Nat /\ when[t].num \in Nat
         /\ when[t].prefix \in Nat /\ when[t].jnum \in Nat
  <1>1. loc[t] \in Locals /\ when[t] \in Reads
    BY DEF Typed, TypeOK
  <1>2. QED
    BY <1>1 DEF Locals, Reads

LEMMA SeenTypes ==
  ASSUME Typed, NEW k \in DOMAIN seen
  PROVE  /\ seen[k].seq \in Nat /\ seen[k].off \in Nat /\ seen[k].exp \in Nat
         /\ seen[k].at.time \in Nat /\ seen[k].at.seq \in Nat /\ seen[k].at.num \in Nat
         /\ seen[k].at.prefix \in Nat /\ seen[k].at.jnum \in Nat /\ seen[k].at.jprefix \in Nat
  <1>1. seen[k] \in Trace
    BY DEF Typed, TypeOK
  <1>2. QED
    BY <1>1 DEF Trace, Reads

\* A step that makes, moves and forgets no draw.
LEMMA DrawInvNeutral ==
  ASSUME DrawInv, log' = log, ctx'.next_id = ctx.next_id, seen' = seen,
         \A t \in Threads : SameDraw(t) \/ ~Drew(t)'
  PROVE  DrawInv'
  <1>1. CounterInv'
    BY DEF DrawInv, CounterInv, Counted, Versions, SamePeriod, SameDraw, Now
  <1>2. DrawsUnique'
    BY DEF DrawInv, DrawsUnique, Apart, SamePeriod, SameDraw
  <1>3. QED
    BY <1>1, <1>2 DEF DrawInv

LEMMA DrawInvInstall ==
  ASSUME Typed, LogInv, DrawInv, NEW h \in Headers, SetChainInfo(h)
  PROVE  DrawInv'
  <1>1. Now' = Now + 1 /\ \A v \in Versions : log'[v] = log[v]
    BY DEF SetChainInfo, NextId, Typed, TypeOK, Now, Versions
  <1>2. log'[Now + 1].epoch = IF h.time # ctx.time THEN log[Now].epoch + 1 ELSE log[Now].epoch
    BY DEF SetChainInfo, NextId, Typed, TypeOK, Now
  <1>3. ctx'.next_id = IF h.time # ctx.time THEN 0 ELSE ctx.next_id
    BY DEF SetChainInfo, NextId
  <1>4. loc' = loc /\ when' = when /\ pc' = pc /\ seen' = seen
    BY DEF SetChainInfo, NextId, callVars, resultVars
  <1>5. ASSUME NEW m, NEW v, Counted(m, v) PROVE Counted(m, v)'
    <2>1. v \in Versions /\ v \in Versions' /\ log'[v] = log[v]
      BY <1>1, <1>5, FieldTypes DEF Counted, Versions
    <2>2. log[v].epoch \in Nat /\ log[Now].epoch \in Nat /\ log[v].epoch <= log[Now].epoch
      BY <2>1, LogEntries DEF LogInv
    <2>3. CASE h.time # ctx.time
      <3>1. ~SamePeriod(v, Now)'
        BY <1>1, <1>2, <2>1, <2>2, <2>3 DEF SamePeriod
      <3>2. QED
        BY <2>1, <3>1 DEF Counted
    <2>4. CASE h.time = ctx.time
      BY <1>1, <1>2, <1>3, <1>5, <2>1, <2>4 DEF Counted, SamePeriod
    <2>5. QED
      BY <2>3, <2>4
  <1>6. CounterInv'
    BY <1>4, <1>5 DEF DrawInv, CounterInv, Drew
  <1>7. ASSUME NEW m, NEW n, NEW v \in Versions, NEW w \in Versions, Apart(m, v, n, w)
        PROVE  Apart(m, v, n, w)'
    BY <1>1, <1>7 DEF Apart, SamePeriod
  <1>8. DrawsUnique'
    BY <1>4, <1>7 DEF DrawInv, DrawsUnique, CounterInv, Counted, Drew
  <1>9. QED
    BY <1>6, <1>8 DEF DrawInv

\* The number drawn exceeds every draw of the chain time.
LEMMA DrawInvDraw ==
  ASSUME Typed, DrawInv, NEW t \in Threads, DrawSequence(t), BuildInv(t)
  PROVE  DrawInv'
  <1>0. PICK drawn : drawn = ctx.next_id + 1
    OBVIOUS
  <1>1. /\ log' = log /\ seen' = seen /\ ctx'.next_id = drawn
        /\ loc'[t].seq = drawn /\ when'[t].seq = Now
        /\ \A u \in Threads \ {t} : SameDraw(u)
    <2>1. log' = log /\ seen' = seen /\ ctx'.next_id = drawn
      BY <1>0 DEF DrawSequence, resultVars, Typed, TypeOK, Context
    <2>2. loc'[t].seq = drawn /\ when'[t].seq = Now
      BY <1>0 DEF DrawSequence, Typed, TypeOK, Locals, Reads
    <2>3. \A u \in Threads \ {t} : loc'[u] = loc[u] /\ when'[u] = when[u] /\ pc'[u] = pc[u]
      BY DEF DrawSequence, Goto, Typed, TypeOK
    <2>4. QED
      BY <2>1, <2>2, <2>3 DEF SameDraw, Drew
  <1>2. ctx.next_id \in Nat /\ drawn \in Nat /\ drawn > ctx.next_id /\ Now \in Versions
    BY <1>0, FieldTypes, LogEntries
  <1>3. ASSUME NEW m \in Nat, NEW v, Counted(m, v)
        PROVE  Counted(m, v)' /\ Apart(drawn, Now, m, v)' /\ Apart(m, v, drawn, Now)'
    <2>1. (v \in Versions)' /\ (SamePeriod(v, Now)' <=> SamePeriod(v, Now))
          /\ (SamePeriod(Now, v)' <=> SamePeriod(v, Now))
      BY <1>1, <1>3 DEF Counted, SamePeriod, Versions, Now
    <2>2. SamePeriod(v, Now) => m < drawn
      BY <1>2, <1>3 DEF Counted
    <2>3. QED
      BY <1>1, <1>2, <2>1, <2>2 DEF Counted, Apart
  <1>4. Counted(drawn, Now)'
    BY <1>1, <1>2 DEF Counted, Versions, Now
  <1>5. \A u \in Threads \ {t} : Drew(u) => Counted(loc[u].seq, when[u].seq)
    BY DEF DrawInv, CounterInv
  <1>6. \A k \in DOMAIN seen : seen[k].seq # 0 => Counted(seen[k].seq, seen[k].at.seq)
    BY DEF DrawInv, CounterInv
  <1>7. CounterInv'
    <2>1. ASSUME NEW u \in Threads, Drew(u)' PROVE Counted(loc[u].seq, when[u].seq)'
      <3>1. CASE u = t
        BY <1>1, <1>4, <3>1 DEF Counted, SamePeriod, Versions, Now
      <3>2. CASE u # t
        BY <1>1, <1>3, <1>5, <2>1, <3>2, LocalTypes DEF SameDraw, Counted, SamePeriod, Versions, Now
      <3>3. QED
        BY <3>1, <3>2
    <2>2. ASSUME NEW k \in (DOMAIN seen)', (seen[k].seq # 0)'
          PROVE  Counted(seen[k].seq, seen[k].at.seq)'
      BY <1>1, <1>3, <1>6, <2>2, SeenTypes DEF Counted, SamePeriod, Versions, Now
    <2>3. QED
      BY <2>1, <2>2 DEF CounterInv
  <1>8. DrawsUnique'
    <2>1. ASSUME NEW u \in Threads, u # t, Drew(u)'
          PROVE  Apart(loc[t].seq, when[t].seq, loc[u].seq, when[u].seq)'
                 /\ Apart(loc[u].seq, when[u].seq, loc[t].seq, when[t].seq)'
      BY <1>1, <1>3, <1>5, <2>1, LocalTypes DEF SameDraw, Apart, SamePeriod, Now
    <2>2. ASSUME NEW u \in Threads, NEW w \in Threads, u # w, Drew(u)', Drew(w)', u # t, w # t
          PROVE  Apart(loc[u].seq, when[u].seq, loc[w].seq, when[w].seq)'
      BY <1>1, <2>2 DEF DrawInv, DrawsUnique, SameDraw, Apart, SamePeriod
    <2>3. ASSUME NEW k \in DOMAIN seen, seen[k].seq # 0
          PROVE  Apart(loc[t].seq, when[t].seq, seen[k].seq, seen[k].at.seq)'
      BY <1>1, <1>3, <1>6, <2>3, SeenTypes DEF Apart, SamePeriod, Now
    <2>4. ASSUME NEW u \in Threads, u # t, Drew(u)', NEW k \in DOMAIN seen, seen[k].seq # 0
          PROVE  Apart(loc[u].seq, when[u].seq, seen[k].seq, seen[k].at.seq)'
      BY <1>1, <2>4 DEF DrawInv, DrawsUnique, SameDraw, Apart, SamePeriod
    <2>5. ASSUME NEW j \in DOMAIN seen, NEW k \in DOMAIN seen, j # k,
                 seen[j].seq # 0, seen[k].seq # 0
          PROVE  Apart(seen[j].seq, seen[j].at.seq, seen[k].seq, seen[k].at.seq)'
      BY <1>1, <2>5 DEF DrawInv, DrawsUnique, Apart, SamePeriod
    <2>6. QED
      BY <1>1, <2>1, <2>2, <2>3, <2>4, <2>5 DEF DrawsUnique
  <1>9. QED
    BY <1>7, <1>8 DEF DrawInv

\* Returning a transaction hands its draw over to the history.
LEMMA DrawInvReturn ==
  ASSUME Typed, DrawInv, NEW t \in Threads, WriteRefBlockPrefix(t)
  PROVE  DrawInv'
  <1> DEFINE n == Len(seen) + 1
  <1>1. /\ log' = log /\ ctx' = ctx
        /\ ~Drew(t)' /\ (Drew(t) <=> loc[t].seq # 0)
        /\ \A u \in Threads \ {t} : SameDraw(u)
    BY DEF WriteRefBlockPrefix, Goto, builderVars, Typed, TypeOK, SameDraw, Drew
  <1>2. /\ DOMAIN seen' = DOMAIN seen \union {n} /\ n \notin DOMAIN seen
        /\ \A k \in DOMAIN seen : seen'[k] = seen[k]
        /\ seen'[n] = [at |-> [when[t] EXCEPT !.jprefix = Now], seq |-> loc[t].seq,
                       exp |-> loc[t].exp, off |-> loc[t].off]
    BY DEF WriteRefBlockPrefix, Typed, TypeOK
  <1>3. seen'[n].seq = loc[t].seq /\ seen'[n].at.seq = when[t].seq
    <2>1. when[t] \in Reads
      BY DEF Typed, TypeOK
    <2>2. QED
      BY <1>2, <2>1 DEF Reads
  <1>4. CounterInv'
    BY <1>1, <1>2, <1>3 DEF DrawInv, CounterInv, Counted, Versions, SamePeriod, SameDraw, Now
  <1>5. DrawsUnique'
    <2>1. ASSUME NEW u \in Threads, NEW w \in Threads, u # w, Drew(u)', Drew(w)'
          PROVE  Apart(loc[u].seq, when[u].seq, loc[w].seq, when[w].seq)'
      BY <1>1, <2>1 DEF DrawInv, DrawsUnique, SameDraw, Apart, SamePeriod
    <2>2. ASSUME NEW u \in Threads, Drew(u)', NEW k \in (DOMAIN seen)', (seen[k].seq # 0)'
          PROVE  Apart(loc[u].seq, when[u].seq, seen[k].seq, seen[k].at.seq)'
      BY <1>1, <1>2, <1>3, <2>2 DEF DrawInv, DrawsUnique, SameDraw, Apart, SamePeriod
    <2>3. ASSUME NEW j \in (DOMAIN seen)', NEW k \in (DOMAIN seen)', j # k,
                 (seen[j].seq # 0)', (seen[k].seq # 0)'
          PROVE  Apart(seen[j].seq, seen[j].at.seq, seen[k].seq, seen[k].at.seq)'
      BY <1>1, <1>2, <1>3, <2>3 DEF DrawInv, DrawsUnique, Apart, SamePeriod
    <2>4. QED
      BY <2>1, <2>2, <2>3 DEF DrawsUnique
  <1>6. QED
    BY <1>4, <1>5 DEF DrawInv

\* A step of makeTransaction touches its own thread only.
LEMMA OneThread ==
  ASSUME Typed, NEW t \in Threads, MakeTransaction(t)
  PROVE  \A u \in Threads \ {t} : pc'[u] = pc[u] /\ loc'[u] = loc[u] /\ when'[u] = when[u]
  <1> USE DEF Typed, TypeOK, Goto
  <1>1. CASE ReadTime(t)
    BY <1>1 DEF ReadTime
  <1>2. CASE SkipSequence(t)
    BY <1>2 DEF SkipSequence
  <1>3. CASE DrawSequence(t)
    BY <1>3 DEF DrawSequence
  <1>4. CASE SubtractOffset(t)
    BY <1>4 DEF SubtractOffset, Shortened
  <1>5. CASE TrapOnZeroOffset(t)
    BY <1>5 DEF TrapOnZeroOffset
  <1>6. CASE HashRefBlockNum(t)
    BY <1>6 DEF HashRefBlockNum
  <1>7. CASE HashRefBlockPrefix(t)
    BY <1>7 DEF HashRefBlockPrefix
  <1>8. CASE WriteRefBlockNum(t)
    BY <1>8 DEF WriteRefBlockNum
  <1>9. CASE WriteRefBlockPrefix(t)
    BY <1>9 DEF WriteRefBlockPrefix
  <1>10. QED
    BY <1>1, <1>2, <1>3, <1>4, <1>5, <1>6, <1>7, <1>8, <1>9 DEF MakeTransaction

LEMMA DrawInvStep ==
  ASSUME Typed, LogInv, DrawInv, \A t \in Threads : BuildInv(t), [Next]_vars
  PROVE  DrawInv'
  <1>1. ASSUME NEW t \in Threads, MakeTransaction(t) PROVE DrawInv'
    <2> USE DEF builderVars, settingsVars, resultVars, Goto
    <2>1. \A u \in Threads \ {t} : SameDraw(u)
      BY <1>1, OneThread DEF SameDraw, Drew
    <2>2. CASE ReadTime(t)
      <3>1. ~Drew(t)'
        BY <2>2 DEF ReadTime, NoLocals, Drew, Typed, TypeOK
      <3>2. QED
        BY <2>1, <2>2, <3>1, DrawInvNeutral DEF ReadTime
    <2>3. CASE DrawSequence(t)
      BY <2>3, DrawInvDraw
    <2>4. CASE WriteRefBlockPrefix(t)
      BY <2>4, DrawInvReturn
    <2>5. ASSUME log' = log, ctx' = ctx, seen' = seen, SameDraw(t) PROVE DrawInv'
      BY <2>1, <2>5, DrawInvNeutral
    <2>6. CASE SkipSequence(t) \/ TrapOnZeroOffset(t)
      BY <2>5, <2>6 DEF SkipSequence, TrapOnZeroOffset, SameDraw, Drew, Typed, TypeOK
    <2>7. CASE SubtractOffset(t)
      <3>1. SameDraw(t)
        BY <2>7 DEF SubtractOffset, Shortened, SameDraw, Drew, Typed, TypeOK, Locals
      <3>2. QED
        BY <2>5, <2>7, <3>1 DEF SubtractOffset, Shortened
    <2>8. CASE HashRefBlockNum(t)
      <3>1. SameDraw(t)
        BY <2>8 DEF HashRefBlockNum, SameDraw, Drew, Typed, TypeOK, Locals, Reads
      <3>2. QED
        BY <2>5, <2>8, <3>1 DEF HashRefBlockNum
    <2>9. CASE HashRefBlockPrefix(t)
      <3>1. SameDraw(t)
        BY <2>9 DEF HashRefBlockPrefix, SameDraw, Drew, Typed, TypeOK, Locals, Reads
      <3>2. QED
        BY <2>5, <2>9, <3>1 DEF HashRefBlockPrefix
    <2>10. CASE WriteRefBlockNum(t)
      <3>1. SameDraw(t)
        BY <2>10 DEF WriteRefBlockNum, SameDraw, Drew, Typed, TypeOK, Locals, Reads
      <3>2. QED
        BY <2>5, <2>10, <3>1 DEF WriteRefBlockNum
    <2>11. QED
      BY <1>1, <2>2, <2>3, <2>4, <2>6, <2>7, <2>8, <2>9, <2>10 DEF MakeTransaction
  <1>2. ASSUME UNCHANGED <<ctx, log, seen, pc, loc, when>> PROVE DrawInv'
    BY <1>2, DrawInvNeutral DEF SameDraw, Drew
  <1>3. QED
    BY <1>1, <1>2, DrawInvInstall
       DEF Next, vars, Rest, BeginUpdateSettings, CopyMember, builderVars, callVars, resultVars

(***************************************************************************)
(* Builds: a read takes the value of the latest version, which is not      *)
(* older than what the build has read before.                              *)
(***************************************************************************)
LEMMA BuildInvOwnStep ==
  ASSUME Typed, LogInv, NEW t \in Threads, BuildInv(t), MakeTransaction(t)
  PROVE  BuildInv(t)'
  <1> USE DEF builderVars, settingsVars, resultVars, Goto, AfterOffset, AfterNum, AfterPrefix
  <1>1. Now \in Versions /\ Now \in Nat /\ log[Now].time \in Nat
    BY LogEntries, FieldTypes
  <1>2. /\ loc \in [Threads -> Locals] /\ when \in [Threads -> Reads]
        /\ pc \in [Threads -> Statements]
    BY DEF Typed, TypeOK
  <1>3. CASE ReadTime(t)
    <2>1. log' = log /\ pc'[t] = "uniq"
      BY <1>2, <1>3 DEF ReadTime
    <2>2. loc'[t].seq = 0 /\ loc'[t].expiration = ctx.time + settings.exp
          /\ loc'[t].exp = settings.exp
      BY <1>2, <1>3 DEF ReadTime, NoLocals
    <2>3. when'[t].time = Now
      BY <1>2, <1>3 DEF ReadTime, NoReads
    <2>4. QED
      BY <1>1, <2>1, <2>2, <2>3 DEF BuildInv, LogInv, Versions, Now
  <1>4. CASE SkipSequence(t)
    <2>1. log' = log /\ loc' = loc /\ when' = when /\ pc[t] = "uniq" /\ pc'[t] = "hash_num"
      BY <1>2, <1>4 DEF SkipSequence
    <2>2. log[when[t].time].time + loc[t].exp - 0 = log[when[t].time].time + loc[t].exp
      BY <2>1, LogEntries, LocalTypes DEF BuildInv
    <2>3. QED
      BY <2>1, <2>2 DEF BuildInv, Versions, Shortening, Now
  <1>5. CASE DrawSequence(t)
    <2>1. log' = log /\ pc[t] = "uniq" /\ pc'[t] = "offset"
      BY <1>2, <1>5 DEF DrawSequence
    <2>2. /\ loc'[t].seq = ctx.next_id + 1 /\ loc'[t].seq # 0
          /\ loc'[t].expiration = loc[t].expiration /\ loc'[t].exp = loc[t].exp
      BY <1>2, <1>5, FieldTypes DEF DrawSequence, Locals
    <2>3. when'[t].seq = Now /\ when'[t].time = when[t].time
      BY <1>2, <1>5 DEF DrawSequence, Reads
    <2>4. QED
      BY <1>1, <2>1, <2>2, <2>3 DEF BuildInv, Versions, Now
  <1>6. CASE SubtractOffset(t)
    <2>1. log' = log /\ when' = when /\ pc[t] = "offset" /\ pc'[t] = "hash_num"
          /\ settings.off # 0
      BY <1>2, <1>6 DEF SubtractOffset, Shortened
    <2>2. /\ loc'[t].off = settings.off
          /\ loc'[t].seq = loc[t].seq /\ loc'[t].exp = loc[t].exp
          /\ loc'[t].expiration = loc[t].expiration - (loc[t].seq % settings.off)
      BY <1>2, <1>6 DEF SubtractOffset, Shortened, Locals
    <2>3. QED
      <3>1. loc'[t].expiration
              = log[when[t].time].time + loc[t].exp - (loc[t].seq % settings.off)
        <4>1. when[t].time \in Versions /\ loc[t].expiration = log[when[t].time].time + loc[t].exp
          BY <2>1 DEF BuildInv
        <4>2. log[when[t].time].time \in Nat /\ loc[t].exp \in Nat
              /\ loc[t].seq % settings.off \in Int
          BY <2>1, <4>1, LogEntries, LocalTypes, FieldTypes
        <4>3. QED
          BY <2>2, <4>1, <4>2
      <3>2. loc[t].seq = 0 => loc[t].seq % settings.off = 0
        BY <2>1, FieldTypes
      <3>3. Shortening(loc[t].seq, loc[t].off)' = loc[t].seq % settings.off
        <4>1. Shortening(loc[t].seq, loc[t].off)' = Shortening(loc[t].seq, settings.off)
          BY <2>2, Zenon DEF Shortening
        <4>2. QED
          BY <3>2, <4>1 DEF Shortening
      <3>4. QED
        BY <2>1, <2>2, <3>1, <3>3 DEF BuildInv, Versions, Now
  <1>7. CASE TrapOnZeroOffset(t)
    BY <1>2, <1>7 DEF TrapOnZeroOffset, BuildInv, Versions, Now
  <1>8. CASE HashRefBlockNum(t)
    <2>1. log' = log /\ pc[t] = "hash_num" /\ pc'[t] = "hash_prefix"
      BY <1>2, <1>8 DEF HashRefBlockNum
    <2>2. /\ loc'[t].num = ctx.num
          /\ loc'[t].expiration = loc[t].expiration /\ loc'[t].exp = loc[t].exp
          /\ loc'[t].seq = loc[t].seq /\ loc'[t].off = loc[t].off
      BY <1>2, <1>8 DEF HashRefBlockNum, Locals
    <2>3. when'[t].num = Now /\ when'[t].time = when[t].time /\ when'[t].seq = when[t].seq
      BY <1>2, <1>8 DEF HashRefBlockNum, Reads
    <2>4. QED
      BY <1>1, <2>1, <2>2, <2>3, LocalTypes DEF BuildInv, LogInv, Versions, Now
  <1>9. CASE HashRefBlockPrefix(t)
    <2>1. log' = log /\ pc[t] = "hash_prefix" /\ pc'[t] = "json_num"
      BY <1>2, <1>9 DEF HashRefBlockPrefix
    <2>2. /\ loc'[t].prefix = ctx.prefix /\ loc'[t].num = loc[t].num
          /\ loc'[t].expiration = loc[t].expiration /\ loc'[t].exp = loc[t].exp
          /\ loc'[t].seq = loc[t].seq /\ loc'[t].off = loc[t].off
      BY <1>2, <1>9 DEF HashRefBlockPrefix, Locals
    <2>3. /\ when'[t].prefix = Now /\ when'[t].num = when[t].num
          /\ when'[t].time = when[t].time /\ when'[t].seq = when[t].seq
      BY <1>2, <1>9 DEF HashRefBlockPrefix, Reads
    <2>4. QED
      BY <1>1, <2>1, <2>2, <2>3, LocalTypes DEF BuildInv, LogInv, Versions, Now
  <1>10. CASE WriteRefBlockNum(t)
    <2>1. log' = log /\ pc[t] = "json_num" /\ pc'[t] = "json_prefix"
      BY <1>2, <1>10 DEF WriteRefBlockNum
    <2>2. /\ loc'[t].jnum = ctx.num /\ loc'[t].prefix = loc[t].prefix /\ loc'[t].num = loc[t].num
          /\ loc'[t].expiration = loc[t].expiration /\ loc'[t].exp = loc[t].exp
          /\ loc'[t].seq = loc[t].seq /\ loc'[t].off = loc[t].off
      BY <1>2, <1>10 DEF WriteRefBlockNum, Locals
    <2>3. /\ when'[t].jnum = Now /\ when'[t].prefix = when[t].prefix /\ when'[t].num = when[t].num
          /\ when'[t].time = when[t].time /\ when'[t].seq = when[t].seq
      BY <1>2, <1>10 DEF WriteRefBlockNum, Reads
    <2>4. QED
      BY <1>1, <2>1, <2>2, <2>3, LocalTypes DEF BuildInv, LogInv, Versions, Now
  <1>11. CASE WriteRefBlockPrefix(t)
    BY <1>2, <1>11 DEF WriteRefBlockPrefix, NoLocals, NoReads, BuildInv
  <1>12. QED
    BY <1>3, <1>4, <1>5, <1>6, <1>7, <1>8, <1>9, <1>10, <1>11 DEF MakeTransaction

LEMMA BuildInvStep ==
  ASSUME Typed, LogInv, \A t \in Threads : BuildInv(t), [Next]_vars
  PROVE  \A t \in Threads : BuildInv(t)'
  <1> SUFFICES ASSUME NEW t \in Threads PROVE BuildInv(t)'
    OBVIOUS
  <1>1. CASE MakeTransaction(t)
    BY <1>1, BuildInvOwnStep
  <1>2. ASSUME NEW u \in Threads, MakeTransaction(u), u # t PROVE BuildInv(t)'
    BY <1>2, OneThread, BuildStable
  <1>3. ASSUME UNCHANGED callVars PROVE BuildInv(t)'
    BY <1>3, BuildStable DEF callVars
  <1>4. QED
    BY <1>1, <1>2, <1>3
       DEF Next, vars, callVars, Rest, SetChainInfo, NextId, BeginUpdateSettings, CopyMember

(***************************************************************************)
(* Transactions: the only new one is the build that ends.                  *)
(***************************************************************************)
LEMMA TxInvReturn ==
  ASSUME Typed, LogInv, NEW t \in Threads, BuildInv(t), WriteRefBlockPrefix(t),
         \A k \in DOMAIN txs : TxInv(k), [Next]_vars
  PROVE  \A k \in (DOMAIN txs)' : TxInv(k)'
  <1>0. PICK n : n = Len(txs) + 1
    OBVIOUS
  <1>1. /\ (DOMAIN txs)' = DOMAIN txs \union {n} /\ DOMAIN seen = DOMAIN txs
        /\ \A k \in DOMAIN txs : txs'[k] = txs[k] /\ seen'[k] = seen[k]
        /\ txs'[n] = Transaction(loc[t], ctx.prefix)
        /\ seen'[n] = [at |-> [when[t] EXCEPT !.jprefix = Now], seq |-> loc[t].seq,
                       exp |-> loc[t].exp, off |-> loc[t].off]
    BY <1>0 DEF WriteRefBlockPrefix, Typed, TypeOK
  <1>2. \A k \in DOMAIN txs : TxInv(k)'
    BY <1>1, TxStable
  <1>3. pc[t] = "json_prefix" /\ log' = log
    BY DEF WriteRefBlockPrefix, Goto, builderVars
  <1>4. /\ txs'[n].digest.num = loc[t].num /\ txs'[n].digest.prefix = loc[t].prefix
        /\ txs'[n].digest.expiration = loc[t].expiration
        /\ txs'[n].json.num = loc[t].jnum /\ txs'[n].json.prefix = ctx.prefix
        /\ txs'[n].json.expiration = loc[t].expiration
    BY <1>1 DEF Transaction
  <1>5. /\ seen'[n].seq = loc[t].seq /\ seen'[n].exp = loc[t].exp /\ seen'[n].off = loc[t].off
        /\ seen'[n].at.time = when[t].time /\ seen'[n].at.seq = when[t].seq
        /\ seen'[n].at.num = when[t].num /\ seen'[n].at.prefix = when[t].prefix
        /\ seen'[n].at.jnum = when[t].jnum /\ seen'[n].at.jprefix = Now
    <2>1. when[t] \in Reads
      BY DEF Typed, TypeOK
    <2>2. QED
      BY <1>1, <2>1 DEF Reads
  <1>6. TxInv(n)'
    BY <1>3, <1>4, <1>5, LocalTypes, FieldTypes
       DEF TxInv, BuildInv, LogInv, Versions, Now, AfterOffset, AfterNum, AfterPrefix
  <1>7. QED
    BY <1>1, <1>2, <1>6

LEMMA TxInvStep ==
  ASSUME Typed, LogInv, \A t \in Threads : BuildInv(t), \A k \in DOMAIN txs : TxInv(k), [Next]_vars
  PROVE  \A k \in (DOMAIN txs)' : TxInv(k)'
  <1>1. ASSUME NEW t \in Threads, WriteRefBlockPrefix(t)
        PROVE  \A k \in (DOMAIN txs)' : TxInv(k)'
    BY <1>1, TxInvReturn
  <1>2. ASSUME UNCHANGED resultVars PROVE \A k \in (DOMAIN txs)' : TxInv(k)'
    BY <1>2, TxStable DEF resultVars
  <1>3. (\E t \in Threads : WriteRefBlockPrefix(t)) \/ UNCHANGED resultVars
    BY DEF Next, vars, Rest, SetChainInfo, NextId, BeginUpdateSettings, CopyMember, MakeTransaction,
           ReadTime, SkipSequence, DrawSequence, SubtractOffset, Shortened, TrapOnZeroOffset,
           HashRefBlockNum, HashRefBlockPrefix, WriteRefBlockNum, resultVars
  <1>4. QED
    BY <1>1, <1>2, <1>3

LEMMA IInvInit == Init => IInv /\ Typed
  <1> SUFFICES ASSUME Init PROVE IInv /\ Typed
    OBVIOUS
  <1>1. Typed
    BY TypedInit
  <1>2. Now = 1 /\ txs = <<>> /\ seen = <<>>
    BY DEF Init, Now
  <1>3. LogInv
    <2>1. log[1] = [time |-> 0, num |-> 0, prefix |-> 0, epoch |-> 0, by |-> "none"] /\ Versions = {1}
      BY <1>2 DEF Init, Versions
    <2>2. QED
      BY <1>2, <2>1 DEF Init, LogInv, SamePeriod
  <1>4. \A t \in Threads : pc[t] = "idle" /\ loc[t].seq = 0 /\ when[t].time = 0
    BY DEF Init, NoLocals, NoReads
  <1>5. CounterInv /\ DrawsUnique
    BY <1>2, <1>4 DEF CounterInv, DrawsUnique, Drew
  <1>6. \A t \in Threads : BuildInv(t)
    BY <1>4 DEF BuildInv, AfterOffset, AfterNum, AfterPrefix
  <1>7. \A k \in DOMAIN txs : TxInv(k)
    BY <1>2
  <1>8. QED
    BY <1>1, <1>3, <1>5, <1>6, <1>7 DEF IInv, Typed

LEMMA IInvStep == IInv /\ Typed /\ [Next]_vars => IInv' /\ Typed'
  <1> SUFFICES ASSUME IInv, Typed, [Next]_vars PROVE IInv' /\ Typed'
    OBVIOUS
  <1>1. Typed'
    BY TypedStep
  <1>2. LogInv'
    BY LogInvStep DEF IInv
  <1>3. CounterInv' /\ DrawsUnique'
    BY DrawInvStep DEF IInv, DrawInv
  <1>4. \A t \in Threads : BuildInv(t)'
    BY BuildInvStep DEF IInv
  <1>5. \A k \in (DOMAIN txs)' : TxInv(k)'
    BY TxInvStep DEF IInv
  <1>6. QED
    BY <1>1, <1>2, <1>3, <1>4, <1>5 DEF IInv, Typed

(* The invariant the properties below follow from. *)
THEOREM InductiveInvariant == Spec => [](IInv /\ Typed)
  BY IInvInit, IInvStep, PTL DEF Spec

(* However threads and updates interleave, no two builds draw the same     *)
(* number in one chain time (get_next_sequence_id, update).                *)
THEOREM DrawsAreUnique == Spec => []DrawsUnique
  <1>1. IInv => DrawsUnique
    BY DEF IInv
  <1>2. QED
    BY <1>1, InductiveInvariant, PTL

(* A transaction whose build no setChainInfo overlapped is made of one     *)
(* installed header, in the digest as in the JSON.                         *)
THEOREM QuietBuildsAreSnapshots == Spec => []QuietIsSnapshot
  <1>1. IInv /\ Typed => QuietIsSnapshot
    <2> SUFFICES ASSUME IInv, Typed, NEW k \in DOMAIN txs, Quiet(k)
                 PROVE  LET installed == log[seen[k].at.time] IN
                          /\ txs[k].digest.num = installed.num
                          /\ txs[k].digest.prefix = installed.prefix
                          /\ txs[k].json = txs[k].digest
                          /\ txs[k].json.expiration <= installed.time + seen[k].exp
      BY DEF QuietIsSnapshot
    <2>1. TxInv(k) /\ DOMAIN seen = DOMAIN txs
      BY DEF IInv, Typed, TypeOK
    <2>2. /\ seen[k].at.num = seen[k].at.time /\ seen[k].at.prefix = seen[k].at.time
          /\ seen[k].at.jnum = seen[k].at.time /\ seen[k].at.jprefix = seen[k].at.time
          /\ seen[k].at.time \in Versions
      BY <2>1, SeenTypes DEF TxInv, Quiet
    <2>3. txs[k].json \in Refs /\ txs[k].digest \in Refs
      <3>1. txs[k] \in Issued
        BY DEF Typed, TypeOK
      <3>2. QED
        BY <3>1 DEF Issued
    <2>4. txs[k].json = txs[k].digest
      <3>1. /\ txs[k].json.num = txs[k].digest.num
            /\ txs[k].json.prefix = txs[k].digest.prefix
            /\ txs[k].json.expiration = txs[k].digest.expiration
        BY <2>1, <2>2 DEF TxInv
      <3>2. QED
        BY <2>3, <3>1 DEF Refs
    <2>5. Shortening(seen[k].seq, seen[k].off) \in Nat
      BY <2>1, SeenTypes DEF TxInv, Shortening
    <2>6. txs[k].json.expiration <= log[seen[k].at.time].time + seen[k].exp
      BY <2>1, <2>2, <2>5, SeenTypes, LogEntries DEF TxInv
    <2>7. QED
      BY <2>1, <2>2, <2>4, <2>6 DEF TxInv
  <1>2. QED
    BY <1>1, InductiveInvariant, PTL

(***************************************************************************)
(* Uniqueness. Two different draws that are less than the offset apart     *)
(* leave different remainders.                                             *)
(***************************************************************************)
LEMMA DivMod ==
  ASSUME NEW m \in Nat, NEW d \in Nat \ {0}
  PROVE  m \div d \in Nat /\ m % d \in Nat /\ m = d * (m \div d) + (m % d)
  OBVIOUS

LEMMA MultiplesApart ==
  ASSUME NEW a \in Nat, NEW b \in Nat, NEW d \in Nat \ {0}, a < b
  PROVE  d * b - d * a >= d
  <1>1. d * (b - a) >= d
    OBVIOUS
  <1>2. QED
    BY <1>1

LEMMA RemaindersDiffer ==
  ASSUME NEW m \in Nat, NEW n \in Nat, NEW d \in Nat \ {0}, m # n, Distance(m, n) < d
  PROVE  m % d # n % d
  <1> SUFFICES ASSUME m % d = n % d PROVE FALSE
    OBVIOUS
  <1>1. PICK a \in Nat, b \in Nat, r \in Nat : m = d * a + r /\ n = d * b + r
    <2>1. m \div d \in Nat /\ m % d \in Nat /\ m = d * (m \div d) + (m % d)
      BY DivMod
    <2>2. n \div d \in Nat /\ n = d * (n \div d) + (m % d)
      BY DivMod
    <2>3. QED
      BY <2>1, <2>2, Zenon
  <1>2. d * a \in Nat /\ d * b \in Nat
    OBVIOUS
  <1>3. a # b
    BY <1>1
  <1>4. CASE a < b
    <2>1. d * b - d * a >= d
      BY <1>4, MultiplesApart
    <2>2. QED
      BY <1>1, <1>2, <2>1 DEF Distance
  <1>5. CASE b < a
    <2>1. d * a - d * b >= d
      BY <1>5, MultiplesApart
    <2>2. QED
      BY <1>1, <1>2, <2>1 DEF Distance
  <1>6. QED
    BY <1>3, <1>4, <1>5

(* Two builds of one chain time that no update overlapped, with the same   *)
(* settings and draws less than the offset apart, have different digests.  *)
THEOREM SameDataHasDifferentDigests == Spec => []SameDataDiffers
  <1>1. IInv /\ Typed => SameDataDiffers
    <2> SUFFICES ASSUME IInv, Typed, NEW j \in DOMAIN txs, NEW k \in DOMAIN txs,
                        j # k, SameSettings(j, k), QuietInOnePeriod(j, k),
                        Distance(seen[j].seq, seen[k].seq) < seen[j].off
                 PROVE  txs[j].digest # txs[k].digest
      BY DEF SameDataDiffers
    <2> DEFINE off == seen[j].off
               vj == seen[j].at.time
               vk == seen[k].at.time
    <2>1. TxInv(j) /\ TxInv(k) /\ DOMAIN seen = DOMAIN txs
      BY DEF IInv, Typed, TypeOK
    <2>2. /\ seen[j].seq \in Nat \ {0} /\ seen[k].seq \in Nat \ {0}
          /\ off \in Nat \ {0} /\ seen[k].off = off
          /\ seen[j].exp \in Nat /\ seen[k].exp = seen[j].exp
      BY <2>1, SeenTypes DEF SameSettings, TxInv
    <2>3. vj \in Versions /\ vk \in Versions /\ seen[j].at.seq = vj /\ seen[k].at.seq = vk
      BY <2>1, <2>2, SeenTypes DEF TxInv, QuietInOnePeriod, Quiet
    <2>4. SamePeriod(vj, vk) /\ log[vj].time = log[vk].time /\ log[vj].time \in Nat
      BY <2>3, LogEntries DEF QuietInOnePeriod, IInv, LogInv
    <2>5. seen[j].seq # seen[k].seq
      BY <2>1, <2>2, <2>3, <2>4 DEF IInv, DrawsUnique, Apart
    <2>6. seen[j].seq % off # seen[k].seq % off
      BY <2>2, <2>5, RemaindersDiffer
    <2>7. seen[j].seq % off \in Nat /\ seen[k].seq % off \in Nat
      BY <2>2, DivMod
    <2>8. txs[j].digest.expiration = log[vj].time + seen[j].exp - (seen[j].seq % off)
      BY <2>1, <2>2 DEF TxInv, Shortening
    <2>9. txs[k].digest.expiration = log[vj].time + seen[j].exp - (seen[k].seq % off)
      BY <2>1, <2>2, <2>4 DEF TxInv, Shortening
    <2>10. txs[j].digest.expiration # txs[k].digest.expiration
      BY <2>2, <2>4, <2>6, <2>7, <2>8, <2>9
    <2>11. QED
      BY <2>10
  <1>2. QED
    BY <1>1, InductiveInvariant, PTL
=============================================================================
