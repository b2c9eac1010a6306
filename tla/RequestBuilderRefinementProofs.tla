------------------- MODULE RequestBuilderRefinementProofs -------------------
(***************************************************************************)
(* RequestBuilder implements TxIssue, for every value of the constants;    *)
(* and what it gives callers who keep a discipline: no update during a     *)
(* build, no older header, headers of one request.                         *)
(***************************************************************************)
EXTENDS RequestBuilderProofs

LEMMA SettingsInvInit == Init => SettingsInv
  <1> SUFFICES ASSUME Init PROVE SettingsInv
    OBVIOUS
  <1>1. Member(settings.exp, settings.off)
    BY SettingsAssumption DEF Init, Member
  <1>2. (\A t \in Threads : pc[t] = "idle" /\ loc[t].off = 0) /\ DOMAIN seen = {}
    BY DEF Init, NoLocals
  <1>3. QED
    BY <1>1, <1>2 DEF SettingsInv

\* A transaction is recorded with the settings its build has read.
LEMMA RecordedSettings ==
  ASSUME SettingsInv, Typed, NEW t \in Threads, WriteRefBlockPrefix(t)
  PROVE  \A k \in (DOMAIN seen)' :
           /\ \E s \in Settings : s.exp = seen'[k].exp
           /\ seen'[k].off # 0 => \E s \in Settings : s.off = seen'[k].off
  <1>1. PICK n : n = Len(seen) + 1
    OBVIOUS
  <1>2. /\ (DOMAIN seen)' = DOMAIN seen \union {n}
        /\ \A k \in DOMAIN seen : seen'[k] = seen[k]
        /\ seen'[n].exp = loc[t].exp /\ seen'[n].off = loc[t].off
    BY <1>1 DEF WriteRefBlockPrefix, Typed, TypeOK
  <1>3. pc[t] # "idle"
    BY DEF WriteRefBlockPrefix, Goto
  <1>4. QED
    BY <1>2, <1>3 DEF SettingsInv

\* A copy takes a member from a value given to the builder, a read from m_settings.
LEMMA SettingsInvStep == SettingsInv /\ Typed /\ [Next]_vars => SettingsInv'
  <1> SUFFICES ASSUME SettingsInv, Typed, [Next]_vars PROVE SettingsInv'
    OBVIOUS
  <1>1. ASSUME UNCHANGED <<settings, pc, loc, seen>> PROVE SettingsInv'
    BY <1>1 DEF SettingsInv
  <1>2. ASSUME NEW m \in Members, CopyMember(m) PROVE SettingsInv'
    <2>1. incoming.to \in Settings
      BY DEF Typed, TypeOK
    <2>2. Member(settings.exp, settings.off)'
      BY <1>2, <2>1 DEF CopyMember, SettingsInv, Member
    <2>3. QED
      BY <1>2, <2>2 DEF CopyMember, callVars, resultVars, SettingsInv
  <1>3. ASSUME NEW t \in Threads, MakeTransaction(t) PROVE SettingsInv'
    <2> SUFFICES ASSUME settings' = settings,
                        \A k \in (DOMAIN seen)' :
                          /\ \E s \in Settings : s.exp = seen'[k].exp
                          /\ seen'[k].off # 0 => \E s \in Settings : s.off = seen'[k].off
                 PROVE  /\ pc'[t] # "idle" => \E s \in Settings : s.exp = loc'[t].exp
                        /\ loc'[t].off # 0 => \E s \in Settings : s.off = loc'[t].off
      <3>1. settings' = settings
        BY <1>3 DEF MakeTransaction, ReadTime, SkipSequence, DrawSequence, SubtractOffset, Shortened,
                    TrapOnZeroOffset, HashRefBlockNum, HashRefBlockPrefix, WriteRefBlockNum,
                    WriteRefBlockPrefix, settingsVars
      <3>2. \A k \in (DOMAIN seen)' :
              /\ \E s \in Settings : s.exp = seen'[k].exp
              /\ seen'[k].off # 0 => \E s \in Settings : s.off = seen'[k].off
        <4>1. CASE WriteRefBlockPrefix(t)
          BY <4>1, RecordedSettings
        <4>2. CASE ~WriteRefBlockPrefix(t)
          <5>1. seen' = seen
            BY <1>3, <4>2 DEF MakeTransaction, ReadTime, SkipSequence, DrawSequence, SubtractOffset, Shortened,
                 TrapOnZeroOffset, HashRefBlockNum, HashRefBlockPrefix, WriteRefBlockNum, resultVars
          <5>2. QED
            BY <5>1 DEF SettingsInv
        <4>3. QED
          BY <4>1, <4>2
      <3>3. QED
        BY <1>3, <3>1, <3>2, OneThread DEF SettingsInv
    <2> USE DEF Goto
    <2>1. loc \in [Threads -> Locals] /\ pc \in [Threads -> Statements]
      BY DEF Typed, TypeOK
    <2>2. CASE ReadTime(t)
      <3>1. loc'[t].exp = settings.exp /\ loc'[t].off = 0
        BY <2>1, <2>2 DEF ReadTime, NoLocals
      <3>2. QED
        BY <3>1 DEF SettingsInv, Member
    <2>3. CASE SubtractOffset(t)
      <3>1. loc'[t].exp = loc[t].exp /\ loc'[t].off = settings.off /\ pc[t] # "idle"
        BY <2>1, <2>3 DEF SubtractOffset, Shortened, Locals
      <3>2. QED
        BY <3>1 DEF SettingsInv, Member
    <2>4. CASE WriteRefBlockPrefix(t)
      <3>1. loc'[t].off = 0 /\ pc'[t] = "idle"
        BY <2>1, <2>4 DEF WriteRefBlockPrefix, NoLocals
      <3>2. QED
        BY <3>1
    <2>5. ASSUME loc'[t].exp = loc[t].exp, loc'[t].off = loc[t].off, pc[t] # "idle"
          PROVE  /\ \E s \in Settings : s.exp = loc'[t].exp
                 /\ loc'[t].off # 0 => \E s \in Settings : s.off = loc'[t].off
      BY <2>5 DEF SettingsInv
    <2>6. CASE SkipSequence(t) \/ TrapOnZeroOffset(t)
      BY <2>5, <2>6 DEF SkipSequence, TrapOnZeroOffset
    <2>7. CASE DrawSequence(t)
      <3>1. loc'[t].exp = loc[t].exp /\ loc'[t].off = loc[t].off /\ pc[t] # "idle"
        BY <2>1, <2>7 DEF DrawSequence, Locals
      <3>2. QED
        BY <2>5, <3>1
    <2>8. CASE HashRefBlockNum(t) \/ HashRefBlockPrefix(t) \/ WriteRefBlockNum(t)
      <3>1. loc'[t].exp = loc[t].exp /\ loc'[t].off = loc[t].off /\ pc[t] # "idle"
        BY <2>1, <2>8 DEF HashRefBlockNum, HashRefBlockPrefix, WriteRefBlockNum, Locals
      <3>2. QED
        BY <2>5, <3>1
    <2>9. QED
      BY <1>3, <2>2, <2>3, <2>4, <2>6, <2>7, <2>8 DEF MakeTransaction
  <1>4. QED
    BY <1>1, <1>2, <1>3
       DEF Next, vars, Rest, SetChainInfo, NextId, BeginUpdateSettings, settingsVars, callVars, resultVars

-----------------------------------------------------------------------------
LEMMA InitRefines == Init => Issue!Init
  BY DEF Init, Issue!Init, NoReads

LEMMA InstallRefines ==
  ASSUME IInv, Typed, NEW h \in Headers, SetChainInfo(h)
  PROVE  Issue!Install
  <1>1. ctx.time = log[Len(log)].time
    BY DEF IInv, LogInv, Now
  <1>2. log[Now].epoch \in Nat
    BY LogEntries
  <1>3. (IF h.time # ctx.time THEN log[Now].epoch + 1 ELSE log[Now].epoch)
          = log[Len(log)].epoch + (IF h.time = log[Len(log)].time THEN 0 ELSE 1)
    BY <1>1, <1>2 DEF Now
  <1>4. when' = when /\ txs' = txs
    BY DEF SetChainInfo, NextId, callVars, resultVars
  <1>5. QED
    BY <1>3, <1>4 DEF SetChainInfo, NextId, Issue!Install, Uint16

LEMMA BeginRefines ==
  ASSUME IInv, Typed, NEW t \in Threads, ReadTime(t)
  PROVE  Issue!Begin(t)
  <1>1. when[t].time = 0
    BY DEF IInv, BuildInv, ReadTime, Goto
  <1>2. when' = [when EXCEPT ![t] = [NoReads EXCEPT !.time = Now]] /\ log' = log /\ txs' = txs
    BY DEF ReadTime, builderVars, resultVars
  <1>3. [NoReads EXCEPT !.time = Now].time = Now
    BY DEF NoReads
  <1>4. [u \in Threads |-> when'[u].time]
          = [[u \in Threads |-> when[u].time] EXCEPT ![t] = Len(log)]
    BY <1>2, <1>3 DEF Typed, TypeOK, Now
  <1>5. QED
    BY <1>1, <1>2, <1>4 DEF Issue!Begin

LEMMA IssueRefines ==
  ASSUME IInv, Typed, SettingsInv, NEW t \in Threads, WriteRefBlockPrefix(t)
  PROVE  Issue!IssueInOrder(t)
  <1>1. pc[t] = "json_prefix" /\ BuildInv(t)
    BY DEF IInv, WriteRefBlockPrefix, Goto
  <1>2. PICK s \in Settings : s.exp = loc[t].exp
    BY <1>1 DEF SettingsInv
  <1>3. PICK u \in Settings : Shortening(loc[t].seq, loc[t].off) \in 0..u.off
    <2>1. CASE loc[t].seq = 0
      <3>1. s.off \in Nat
        BY SettingsAssumption DEF SettingsRecord
      <3>2. QED
        BY <2>1, <3>1 DEF Shortening
    <2>2. CASE loc[t].seq # 0
      <3>1. loc[t].off # 0
        BY <1>1, <2>2 DEF BuildInv, AfterOffset
      <3>2. PICK u \in Settings : u.off = loc[t].off
        BY <3>1 DEF SettingsInv
      <3>3. loc[t].seq % loc[t].off \in 0..loc[t].off
        BY <3>1, LocalTypes
      <3>4. QED
        BY <2>2, <3>2, <3>3 DEF Shortening
    <2>3. QED
      BY <2>1, <2>2
  <1> DEFINE r == Shortening(loc[t].seq, loc[t].off)
             w == when[t]
  <1>4. /\ w.time \in Versions
        /\ w.num \in w.time..Now /\ loc[t].num = log[w.num].num
        /\ w.prefix \in w.num..Now /\ loc[t].prefix = log[w.prefix].prefix
        /\ w.jnum \in w.prefix..Now /\ loc[t].jnum = log[w.jnum].num
        /\ Now \in w.jnum..Now /\ ctx.prefix = log[Now].prefix
        /\ loc[t].expiration = log[w.time].time + s.exp - r
    BY <1>1, <1>2, LocalTypes, FieldTypes
       DEF IInv, BuildInv, LogInv, AfterOffset, AfterNum, AfterPrefix, Versions
  <1>5. txs' = Append(txs, Transaction(loc[t], ctx.prefix)) /\ log' = log
        /\ when' = [when EXCEPT ![t] = NoReads]
    BY DEF WriteRefBlockPrefix, builderVars
  <1>6. Transaction(loc[t], ctx.prefix)
          = Issue!Tx(log[w.num].num, log[w.prefix].prefix, log[w.jnum].num, log[Now].prefix,
                     log[w.time].time + s.exp - r)
    BY <1>4 DEF Transaction, Issue!Tx
  <1>7. [v \in Threads |-> when'[v].time] = [[v \in Threads |-> when[v].time] EXCEPT ![t] = 0]
    BY <1>5 DEF Typed, TypeOK, NoReads
  <1> DEFINE tx == Issue!Tx(log[w.num].num, log[w.prefix].prefix, log[w.jnum].num,
                            log[Len(log)].prefix, log[w.time].time + s.exp - r)
  <1>8. txs' = Append(txs, tx) /\ txs'[Len(txs) + 1] = tx
    BY <1>5, <1>6 DEF Now, Typed, TypeOK
  <1>9. Issue!Return(t)
    BY <1>4, <1>5, <1>7, FieldTypes DEF Issue!Return, Versions
  <1>10. Issue!MadeInOrder(w.time, tx)
    <2>1. /\ w.num \in w.time..Len(log) /\ w.prefix \in w.num..Len(log)
          /\ w.jnum \in w.prefix..Len(log) /\ Len(log) \in w.jnum..Len(log)
      BY <1>4 DEF Now
    <2>2. \E i \in w.time..Len(log) : \E j \in i..Len(log) :
            \E k \in j..Len(log) : \E l \in k..Len(log) :
              tx = Issue!Tx(log[i].num, log[j].prefix, log[k].num, log[l].prefix,
                            log[w.time].time + s.exp - r)
      BY <2>1, Zenon
    <2>3. r \in 0..u.off
      BY <1>3
    <2> HIDE DEF r, tx
    <2>4. QED
      BY <2>2, <2>3, Zenon DEF Issue!MadeInOrder
  <1>11. QED
    <2>1. [v \in Threads |-> when[v].time][t] = w.time
      OBVIOUS
    <2>2. txs' = Append(txs, txs'[Len(txs) + 1])
      BY <1>8
    <2> HIDE DEF tx
    <2>3. Issue!MadeInOrder([v \in Threads |-> when[v].time][t], txs'[Len(txs) + 1])
      BY <1>8, <1>10, <2>1
    <2>4. QED
      BY <1>9, <2>2, <2>3 DEF Issue!IssueInOrder

LEMMA OtherStepsStutter ==
  ASSUME Typed, [Next]_vars, \A h \in Headers : ~SetChainInfo(h),
         \A t \in Threads : ~(ReadTime(t) \/ WriteRefBlockPrefix(t))
  PROVE  UNCHANGED Issue!vars
  <1>1. ASSUME log' = log, txs' = txs, \A t \in Threads : when'[t].time = when[t].time
        PROVE  UNCHANGED Issue!vars
    BY <1>1 DEF Issue!vars
  <1>2. ASSUME NEW t \in Threads, MakeTransaction(t)
        PROVE  UNCHANGED Issue!vars
    <2>1. log' = log /\ txs' = txs
      BY <1>2 DEF MakeTransaction, SkipSequence, DrawSequence, SubtractOffset, Shortened, TrapOnZeroOffset,
                  HashRefBlockNum, HashRefBlockPrefix, WriteRefBlockNum, builderVars, resultVars
    <2>2. when'[t].time = when[t].time
      BY <1>2 DEF MakeTransaction, SkipSequence, DrawSequence, SubtractOffset, Shortened, TrapOnZeroOffset,
                  HashRefBlockNum, HashRefBlockPrefix, WriteRefBlockNum, Typed, TypeOK, Reads
    <2>3. QED
      BY <1>1, <1>2, <2>1, <2>2, OneThread
  <1>3. ASSUME UNCHANGED <<log, txs, when>> PROVE UNCHANGED Issue!vars
    BY <1>1, <1>3
  <1>4. QED
    BY <1>2, <1>3
       DEF Next, vars, Rest, BeginUpdateSettings, CopyMember, builderVars, callVars, resultVars

LEMMA StepRefines ==
  ASSUME IInv, Typed, SettingsInv, [Next]_vars
  PROVE  [Issue!Next]_(Issue!vars)
  <1>1. ASSUME NEW h \in Headers, SetChainInfo(h) PROVE Issue!Next
    BY <1>1, InstallRefines DEF Issue!Next
  <1>2. ASSUME NEW t \in Threads, ReadTime(t) \/ WriteRefBlockPrefix(t) PROVE Issue!Next
    BY <1>2, BeginRefines, IssueRefines DEF Issue!Next
  <1>3. ASSUME \A h \in Headers : ~SetChainInfo(h),
               \A t \in Threads : ~(ReadTime(t) \/ WriteRefBlockPrefix(t))
        PROVE  UNCHANGED Issue!vars
    BY <1>3, OtherStepsStutter
  <1>4. QED
    BY <1>1, <1>2, <1>3

(* Every behaviour of the builder is one of TxIssue: each transaction is   *)
(* made of headers current during its build, in the order they were read.  *)
THEOREM ImplementsIssueInOrder == Spec => IssuesInOrder
  <1>1. Spec => [](IInv /\ Typed /\ SettingsInv)
    BY IInvInit, IInvStep, SettingsInvInit, SettingsInvStep, PTL DEF Spec
  <1>2. IInv /\ Typed /\ SettingsInv /\ [Next]_vars => [Issue!Next]_(Issue!vars)
    BY StepRefines
  <1>3. QED
    BY <1>1, <1>2, InitRefines, PTL DEF Spec, IssuesInOrder, Issue!Spec
-----------------------------------------------------------------------------
(* Expirations.                                                            *)

(* A transaction whose build read the period and the offset of one settings*)
(* value that meets the requirement outlives half the period, counted from *)
(* the header it was built on, whatever threads, updates and assignments   *)
(* interleave.                                                             *)
THEOREM TransactionsOutliveHalfPeriod == Spec => []AliveForHalfPeriod
  <1>1. IInv /\ Typed => AliveForHalfPeriod
    <2> SUFFICES ASSUME IInv, Typed, NEW k \in DOMAIN txs, ReadOneValue(k), seen[k].exp > 0
                 PROVE  2 * (txs[k].json.expiration - log[seen[k].at.time].time) > seen[k].exp
      BY DEF AliveForHalfPeriod
    <2>1. TxInv(k) /\ k \in DOMAIN seen
      BY DEF IInv, Typed, TypeOK
    <2>2. PICK time \in Nat, exp \in Nat, seq \in Nat, off \in Nat :
            time = log[seen[k].at.time].time /\ exp = seen[k].exp /\ seq = seen[k].seq /\ off = seen[k].off
      BY <2>1, SeenTypes, LogEntries DEF TxInv
    <2>3. txs[k].json.expiration = time + (exp - Shortening(seq, off)) /\ (seq # 0 => off # 0)
      BY <2>1, <2>2 DEF TxInv
    <2>4. PICK s \in Settings : s.off <= s.exp \div 3 /\ exp = s.exp /\ off \in {0, s.off}
      BY <2>2 DEF ReadOneValue, Required
    <2>5. 2 * Shortening(seq, off) < exp /\ Shortening(seq, off) \in Nat
      <3>1. CASE seq = 0
        BY <2>2, <3>1 DEF Shortening
      <3>2. CASE seq # 0
        <4>1. off <= exp \div 3
          BY <2>3, <2>4, <3>2
        <4>2. seq % off \in Nat /\ seq % off < off
          BY <2>3, <3>2
        <4>3. QED
          BY <3>2, <4>1, <4>2 DEF Shortening
      <3>3. QED
        BY <3>1, <3>2
    <2>6. QED
      BY <2>2, <2>3, <2>5
  <1>2. QED
    BY <1>1, InductiveInvariant, PTL

-----------------------------------------------------------------------------
(* Callers with a discipline.                                              *)

LEMMA QuietInvInit == Init => QuietInv
  BY DEF Init, QuietInv

LEMMA QuietInvStep ==
  ASSUME Serialized, QuietInv, Typed, [Next]_vars
  PROVE  QuietInv'
  <1>1. ASSUME UNCHANGED <<pc, when, log, seen>> PROVE QuietInv'
    BY <1>1 DEF QuietInv, Quiet, Now
  <1>2. ASSUME NEW h \in Headers, SetChainInfo(h) PROVE QuietInv'
    <2>1. \A t \in Threads : pc'[t] = "idle"
      BY <1>2 DEF SetChainInfo, MayUpdate, NoBuild, callVars
    <2>2. seen' = seen
      BY <1>2 DEF SetChainInfo, resultVars
    <2>3. QED
      BY <2>1, <2>2 DEF QuietInv, Quiet
  <1>3. ASSUME NEW t \in Threads, MakeTransaction(t) PROVE QuietInv'
    <2> USE DEF Goto
    <2>1. when \in [Threads -> Reads] /\ pc \in [Threads -> Statements]
      BY DEF Typed, TypeOK
    <2>2. log' = log /\ Now' = Now
      BY <1>3 DEF MakeTransaction, ReadTime, SkipSequence, DrawSequence, SubtractOffset, Shortened,
           TrapOnZeroOffset, HashRefBlockNum, HashRefBlockPrefix, WriteRefBlockNum, WriteRefBlockPrefix,
           builderVars, Now
    <2>3. CASE ReadTime(t)
      <3>1. when'[t].time = Now /\ seen' = seen
        BY <2>1, <2>3 DEF ReadTime, NoReads, resultVars
      <3>2. QED
        BY <1>3, <2>2, <3>1, OneThread DEF QuietInv, Quiet
    <2>4. CASE WriteRefBlockPrefix(t)
      <3>1. PICK n : n = Len(seen) + 1
        OBVIOUS
      <3>2. /\ (DOMAIN seen)' = DOMAIN seen \union {n}
            /\ \A k \in DOMAIN seen : seen'[k] = seen[k]
            /\ seen'[n].at = [when[t] EXCEPT !.jprefix = Now]
        BY <2>4, <3>1 DEF WriteRefBlockPrefix, Typed, TypeOK
      <3>3. when[t].time = Now /\ when[t] \in Reads /\ pc'[t] = "idle"
        BY <2>1, <2>4 DEF WriteRefBlockPrefix, QuietInv
      <3>4. seen'[n].at.time = Now /\ seen'[n].at.jprefix = Now
        BY <3>2, <3>3 DEF Reads
      <3>5. QED
        BY <1>3, <2>2, <3>2, <3>3, <3>4, OneThread DEF QuietInv, Quiet
    <2>5. CASE ~ReadTime(t) /\ ~WriteRefBlockPrefix(t)
      <3>1. when'[t].time = when[t].time /\ seen' = seen /\ pc[t] # "idle"
        BY <1>3, <2>1, <2>5 DEF MakeTransaction, SkipSequence, DrawSequence, SubtractOffset, Shortened,
           TrapOnZeroOffset, HashRefBlockNum, HashRefBlockPrefix, WriteRefBlockNum, Reads, resultVars
      <3>2. QED
        BY <1>3, <2>2, <3>1, OneThread DEF QuietInv, Quiet
    <2>6. QED
      BY <2>3, <2>4, <2>5
  <1>4. QED
    BY <1>1, <1>2, <1>3
       DEF Next, vars, Rest, BeginUpdateSettings, CopyMember, builderVars, callVars, resultVars

(* If callers run no update during a build, no transaction has parts of    *)
(* two headers, and what is sent is what was signed.                       *)
THEOREM SerializedBuildsAreWhole ==
  ASSUME Serialized
  PROVE  Spec => []NoTornReference
  <1>1. QuietInv /\ Typed /\ [Next]_vars => QuietInv'
    BY QuietInvStep
  <1>2. Spec => []QuietInv
    BY <1>1, QuietInvInit, InductiveInvariant, PTL DEF Spec
  <1>3. QuietInv /\ Typed /\ QuietIsSnapshot => NoTornReference
    BY DEF QuietInv, Typed, TypeOK, QuietIsSnapshot, NoTornReference
  <1>4. QED
    BY <1>2, <1>3, InductiveInvariant, QuietBuildsAreSnapshots, PTL

-----------------------------------------------------------------------------
LEMMA OrderInvStep ==
  ASSUME InOrder, OrderInv, LogInv, Typed, [Next]_vars
  PROVE  OrderInv'
  <1>1. ASSUME log' = log PROVE OrderInv'
    BY <1>1 DEF OrderInv, Versions, Now, SamePeriod
  <1>2. ASSUME NEW h \in Headers, SetChainInfo(h) PROVE OrderInv'
    <2>1. PICK n : n = Now + 1
      OBVIOUS
    <2>2. h.time \in Nat /\ h.time >= log[Now].time /\ Now \in Nat \ {0}
      BY <1>2, HeaderFields, LogEntries DEF SetChainInfo, LogInv, Versions
    <2>3. /\ Versions' = Versions \union {n}
          /\ \A v \in Versions : log'[v] = log[v] /\ log[v].time \in Nat /\ log[v].epoch \in Nat
          /\ log'[n].time = h.time
          /\ log'[n].num = Uint16(h.block) /\ log'[n].prefix = h.prefix /\ log'[n].by = h.by
          /\ h.time = log[Now].time => log'[n].epoch = log[Now].epoch
      <3>1. Now' = n /\ log'[n].time = h.time
            /\ log'[n].num = Uint16(h.block) /\ log'[n].prefix = h.prefix /\ log'[n].by = h.by
            /\ log'[n].epoch = IF h.time # ctx.time THEN log[Now].epoch + 1 ELSE log[Now].epoch
        BY <1>2, <2>1 DEF SetChainInfo, NextId, Now, Typed, TypeOK
      <3>2. Versions' = Versions \union {n} /\ \A v \in Versions : log'[v] = log[v]
        BY <2>1, <2>2, <3>1, LogGrows DEF Versions
      <3>3. QED
        BY <3>1, <3>2, LogEntries DEF LogInv
    <2>4. \A v \in Versions : v <= Now /\ Now \in Versions /\ v # n
      BY <2>1, <2>2 DEF Versions
    <2>5. ASSUME NEW v \in Versions
          PROVE  log[v].time <= h.time /\ (log[v].time = h.time => log[v].epoch = log'[n].epoch)
      BY <2>2, <2>3, <2>4 DEF OrderInv, SamePeriod
    <2>6. QED
      BY <2>1, <2>2, <2>3, <2>4, <2>5 DEF OrderInv, SamePeriod, Versions
  <1>3. log' = log \/ \E h \in Headers : SetChainInfo(h)
    BY OnlySetChainInfo
  <1>4. QED
    BY <1>1, <1>2, <1>3

(* If callers run no update during a build and install no older header,    *)
(* transactions of the same data on headers of one request differ while    *)
(* the draws of one chain time stay below the offset: what                 *)
(* make_same_transactions_uniq is said to do.                              *)
THEOREM DisciplinedBuildsAreUniq ==
  ASSUME Serialized, InOrder, OneTimePerReference
  PROVE  Spec => []UniqForSameData
  <1>1. Init => OrderInv
    <2> SUFFICES ASSUME Init PROVE OrderInv
      OBVIOUS
    <2>1. Versions = {1} /\ log[1].time \in Nat
      BY DEF Init, Versions, Now
    <2>2. QED
      BY <2>1 DEF OrderInv, SamePeriod
  <1>2. IInv /\ Typed /\ OrderInv /\ [Next]_vars => OrderInv'
    BY OrderInvStep DEF IInv
  <1>3. Spec => [](IInv /\ Typed /\ OrderInv)
    BY <1>1, <1>2, InductiveInvariant, PTL DEF Spec
  <1>4. IInv /\ Typed /\ OrderInv /\ QuietInv /\ SameDataDiffers => UniqForSameData
    <2> SUFFICES ASSUME IInv, Typed, OrderInv, QuietInv, SameDataDiffers,
                        NEW j \in DOMAIN txs, NEW k \in DOMAIN txs, j # k,
                        AfterChainInfo(j), AfterChainInfo(k), OneRequest(j, k), SameSettings(j, k),
                        seen[j].seq < seen[j].off, seen[k].seq < seen[k].off
                 PROVE  txs[j].digest # txs[k].digest
      BY DEF UniqForSameData
    <2>1. TxInv(j) /\ TxInv(k) /\ j \in DOMAIN seen /\ k \in DOMAIN seen
      BY DEF IInv, Typed, TypeOK
    <2>2. Quiet(j) /\ Quiet(k)
      BY <2>1 DEF QuietInv
    <2>3. PICK v, w : v = seen[j].at.time /\ w = seen[k].at.time
      OBVIOUS
    <2>4. CASE SamePeriod(v, w)
      <3>1. Distance(seen[j].seq, seen[k].seq) < seen[j].off
        BY <2>1, SeenTypes DEF Distance, SameSettings
      <3>2. QED
        BY <2>2, <2>3, <2>4, <3>1 DEF SameDataDiffers, QuietInOnePeriod
    <2>5. CASE ~SamePeriod(v, w)
      <3>1. v \in Versions \ {1} /\ w \in Versions \ {1}
        BY <2>1, <2>3 DEF TxInv, AfterChainInfo
      <3>2. log[v].time # log[w].time
        BY <2>5, <3>1 DEF OrderInv, SamePeriod, Versions
      <3>3. /\ txs[j].digest.num = log[v].num /\ txs[j].digest.prefix = log[v].prefix
            /\ txs[k].digest.num = log[w].num /\ txs[k].digest.prefix = log[w].prefix
        BY <2>1, <2>2, <2>3, SeenTypes DEF TxInv, Quiet, Versions
      <3>4. log[v].by = log[w].by
        BY <2>3 DEF OneRequest
      <3>5. QED
        BY <3>1, <3>2, <3>3, <3>4 DEF OrderInv, OneTimePerReference
    <2>6. QED
      BY <2>4, <2>5
  <1>5. QuietInv /\ Typed /\ [Next]_vars => QuietInv'
    BY QuietInvStep
  <1>6. Spec => []QuietInv
    BY <1>5, QuietInvInit, InductiveInvariant, PTL DEF Spec
  <1>7. QED
    BY <1>3, <1>4, <1>6, SameDataHasDifferentDigests, PTL

-----------------------------------------------------------------------------
LEMMA WholeInvInit == Init => WholeInv
  BY SettingsAssumption DEF Init, WholeInv

LEMMA WholeInvStep ==
  ASSUME Serialized, WholeInv, Typed, \A t \in Threads : BuildInv(t), [Next]_vars
  PROVE  WholeInv'
  <1>1. ASSUME UNCHANGED <<settings, incoming, pc, loc>> PROVE WholeInv'
    BY <1>1 DEF WholeInv
  <1>2. ASSUME NEW s \in Settings, BeginUpdateSettings(s) PROVE WholeInv'
    <2>1. \A t \in Threads : pc'[t] = "idle"
      BY <1>2 DEF BeginUpdateSettings, MayUpdate, NoBuild, callVars
    <2>2. incoming'.left = Members
      BY <1>2 DEF BeginUpdateSettings
    <2>3. QED
      BY <2>1, <2>2 DEF WholeInv, Members
  <1>3. ASSUME NEW m \in Members, CopyMember(m) PROVE WholeInv'
    <2>1. pc' = pc /\ \A t \in Threads : pc'[t] = "idle"
      BY <1>3 DEF CopyMember, callVars, WholeInv
    <2>2. incoming'.to = incoming.to /\ incoming'.left = incoming.left \ {m} /\ incoming.to \in Settings
      BY <1>3 DEF CopyMember, Typed, TypeOK
    <2>3. /\ settings'.exp = IF m = "exp" THEN incoming.to.exp ELSE settings.exp
          /\ settings'.off = IF m = "off" THEN incoming.to.off ELSE settings.off
          /\ settings'.uniq = IF m = "uniq" THEN incoming.to.uniq ELSE settings.uniq
      BY <1>3 DEF CopyMember
    <2>4. /\ "exp" \notin incoming'.left => settings'.exp = incoming'.to.exp
          /\ "off" \notin incoming'.left => settings'.off = incoming'.to.off
          /\ "uniq" \notin incoming'.left => settings'.uniq = incoming'.to.uniq
      BY <2>2, <2>3 DEF WholeInv
    <2>5. incoming'.left = {} => settings' \in Settings
      <3>1. settings' \in SettingsRecord /\ incoming.to \in SettingsRecord
        BY <2>2, TypedStep, SettingsAssumption DEF Typed, TypeOK
      <3>2. incoming'.left = {} => settings' = incoming.to
        BY <2>2, <2>4, <3>1 DEF SettingsRecord
      <3>3. QED
        BY <2>2, <3>2
    <2>6. QED
      BY <2>1, <2>4, <2>5 DEF WholeInv
  <1>4. ASSUME NEW t \in Threads, MakeTransaction(t) PROVE WholeInv'
    <2> USE DEF Goto
    <2>1. settings' = settings /\ incoming' = incoming
      BY <1>4 DEF MakeTransaction, ReadTime, SkipSequence, DrawSequence, SubtractOffset, Shortened,
           TrapOnZeroOffset, HashRefBlockNum, HashRefBlockPrefix, WriteRefBlockNum, WriteRefBlockPrefix,
           settingsVars
    <2> SUFFICES ASSUME pc'[t] # "idle"
                 PROVE  /\ incoming.left = {}
                        /\ loc'[t].exp = settings.exp
                        /\ loc'[t].seq # 0 => settings.uniq
                        /\ pc'[t] \in AfterOffset /\ loc'[t].seq # 0 => loc'[t].off = settings.off
      BY <1>4, <2>1, OneThread DEF WholeInv
    <2>2. loc \in [Threads -> Locals] /\ pc \in [Threads -> Statements] /\ loc[t] \in Locals
      BY DEF Typed, TypeOK
    <2>3. CASE ReadTime(t)
      <3>1. loc'[t].exp = settings.exp /\ loc'[t].seq = 0 /\ incoming.left = {}
        BY <2>2, <2>3 DEF ReadTime, NoLocals, MayBuild
      <3>2. QED
        BY <3>1
    <2>4. CASE SkipSequence(t)
      BY <2>2, <2>4 DEF SkipSequence, WholeInv, BuildInv
    <2>5. CASE DrawSequence(t)
      <3>1. loc'[t].exp = loc[t].exp /\ pc'[t] = "offset" /\ settings.uniq /\ pc[t] # "idle"
        BY <2>2, <2>5 DEF DrawSequence, Locals
      <3>2. QED
        BY <3>1 DEF WholeInv, AfterOffset
    <2>6. CASE SubtractOffset(t)
      <3>1. loc'[t].exp = loc[t].exp /\ loc'[t].seq = loc[t].seq /\ loc'[t].off = settings.off
            /\ pc[t] # "idle"
        BY <2>2, <2>6 DEF SubtractOffset, Shortened, Locals
      <3>2. QED
        BY <3>1 DEF WholeInv
    <2>7. CASE TrapOnZeroOffset(t)
      BY <2>2, <2>7 DEF TrapOnZeroOffset, WholeInv, AfterOffset
    <2>8. CASE HashRefBlockNum(t) \/ HashRefBlockPrefix(t) \/ WriteRefBlockNum(t)
      <3>1. loc'[t].exp = loc[t].exp /\ loc'[t].seq = loc[t].seq /\ loc'[t].off = loc[t].off
            /\ pc[t] \in AfterOffset /\ pc[t] # "idle"
        BY <2>2, <2>8 DEF HashRefBlockNum, HashRefBlockPrefix, WriteRefBlockNum, Locals, AfterOffset
      <3>2. QED
        BY <3>1 DEF WholeInv
    <2>9. CASE WriteRefBlockPrefix(t)
      BY <2>2, <2>9 DEF WriteRefBlockPrefix
    <2>10. QED
      BY <1>4, <2>3, <2>4, <2>5, <2>6, <2>7, <2>8, <2>9 DEF MakeTransaction
  <1>5. QED
    BY <1>1, <1>2, <1>3, <1>4 DEF Next, vars, Rest, SetChainInfo, NextId, settingsVars, callVars

LEMMA SnapshotInstall ==
  ASSUME Serialized, IInv, Typed, NEW h \in Headers, SetChainInfo(h)
  PROVE  Issue!SnapshotNext
  <1>1. \A t \in Threads : [u \in Threads |-> when[u].time][t] = 0
    BY DEF SetChainInfo, MayUpdate, NoBuild, IInv, BuildInv
  <1>2. QED
    BY <1>1, InstallRefines DEF Issue!SnapshotNext

LEMMA SnapshotIssue ==
  ASSUME IInv, Typed, QuietInv, WholeInv, NEW t \in Threads, WriteRefBlockPrefix(t)
  PROVE  Issue!IssueSnapshot(t)
  <1>1. pc[t] = "json_prefix" /\ BuildInv(t)
    BY DEF IInv, WriteRefBlockPrefix, Goto
  <1>2. PICK s \in Settings : s = settings
    BY <1>1 DEF WholeInv
  <1>3. PICK r : r = Shortening(loc[t].seq, loc[t].off)
    OBVIOUS
  <1>4. r \in Issue!Offsets(s)
    <2>1. s.off \in Nat /\ s.uniq \in BOOLEAN
      BY SettingsAssumption DEF SettingsRecord
    <2>2. CASE loc[t].seq = 0
      BY <1>3, <2>1, <2>2 DEF Shortening, Issue!Offsets
    <2>3. CASE loc[t].seq # 0
      <3>1. s.uniq /\ loc[t].off = s.off /\ s.off # 0
        BY <1>1, <1>2, <2>3 DEF WholeInv, BuildInv, AfterOffset
      <3>2. loc[t].seq % s.off \in 0..(s.off - 1)
        BY <2>1, <3>1, LocalTypes
      <3>3. QED
        BY <1>3, <2>1, <2>3, <3>1, <3>2 DEF Shortening, Issue!Offsets
    <2>4. QED
      BY <2>2, <2>3
  <1>5. when[t].time = Now /\ Now \in Versions
    BY <1>1, LogEntries DEF QuietInv
  <1>6. /\ loc[t].num = log[Now].num /\ loc[t].prefix = log[Now].prefix
        /\ loc[t].jnum = log[Now].num /\ ctx.prefix = log[Now].prefix
        /\ loc[t].expiration = log[Now].time + s.exp - r
    <2>1. when[t].num = Now /\ when[t].prefix = Now /\ when[t].jnum = Now
      BY <1>1, <1>5, FieldTypes DEF BuildInv, AfterNum, AfterPrefix
    <2>2. loc[t].exp = s.exp
      BY <1>1, <1>2 DEF WholeInv
    <2>3. QED
      BY <1>1, <1>3, <1>5, <2>1, <2>2 DEF BuildInv, AfterOffset, AfterNum, AfterPrefix, IInv, LogInv
  <1>7. txs' = Append(txs, Transaction(loc[t], ctx.prefix)) /\ log' = log
        /\ when' = [when EXCEPT ![t] = NoReads]
    BY DEF WriteRefBlockPrefix, builderVars
  <1>8. Transaction(loc[t], ctx.prefix)
          = Issue!Tx(log[Now].num, log[Now].prefix, log[Now].num, log[Now].prefix, log[Now].time + s.exp - r)
    BY <1>6 DEF Transaction, Issue!Tx
  <1>9. [v \in Threads |-> when'[v].time] = [[v \in Threads |-> when[v].time] EXCEPT ![t] = 0]
    BY <1>7 DEF Typed, TypeOK, NoReads
  <1>10. [v \in Threads |-> when[v].time][t] = Now
    BY <1>5
  <1>11. Issue!Return(t)
    BY <1>5, <1>7, <1>9, <1>10, FieldTypes DEF Issue!Return, Versions
  <1>12. QED
    BY <1>4, <1>7, <1>8, <1>10, <1>11 DEF Issue!IssueSnapshot

(* If callers run no update during a build, makeTransaction is atomic to   *)
(* them: each transaction is made of one header and one settings value.    *)
THEOREM SerializedImplementsSnapshots ==
  ASSUME Serialized
  PROVE  Spec => IssuesSnapshots
  <1>1. IInv /\ Typed /\ QuietInv /\ WholeInv /\ [Next]_vars => QuietInv' /\ WholeInv'
    BY QuietInvStep, WholeInvStep DEF IInv
  <1>2. Spec => [](IInv /\ Typed /\ QuietInv /\ WholeInv)
    BY <1>1, IInvInit, IInvStep, QuietInvInit, WholeInvInit, PTL DEF Spec
  <1>3. IInv /\ Typed /\ QuietInv /\ WholeInv /\ [Next]_vars => [Issue!SnapshotNext]_(Issue!vars)
    <2> SUFFICES ASSUME IInv, Typed, QuietInv, WholeInv, [Next]_vars
                 PROVE  Issue!SnapshotNext \/ UNCHANGED Issue!vars
      OBVIOUS
    <2>1. ASSUME NEW h \in Headers, SetChainInfo(h) PROVE Issue!SnapshotNext
      BY <2>1, SnapshotInstall
    <2>2. ASSUME NEW t \in Threads, ReadTime(t) \/ WriteRefBlockPrefix(t) PROVE Issue!SnapshotNext
      BY <2>2, BeginRefines, SnapshotIssue DEF Issue!SnapshotNext
    <2>3. ASSUME \A h \in Headers : ~SetChainInfo(h),
                 \A t \in Threads : ~(ReadTime(t) \/ WriteRefBlockPrefix(t))
          PROVE  UNCHANGED Issue!vars
      BY <2>3, OtherStepsStutter
    <2>4. QED
      BY <2>1, <2>2, <2>3
  <1>4. QED
    BY <1>2, <1>3, InitRefines, PTL DEF Spec, IssuesSnapshots, Issue!SnapshotSpec
=============================================================================
