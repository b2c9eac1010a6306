------------------------ MODULE SubscriptionsProofs ------------------------
(***************************************************************************)
(* Every notification reaches a subscription with its identifier, and its  *)
(* own where no other has that identifier; and with one caller at a time   *)
(* in the function that subscribes, no two identifiers are made from one   *)
(* counter and clock, because the counter grows by each call.              *)
(***************************************************************************)
EXTENDS Subscriptions, TLAPS

Locals == [i : Nat, tables : SUBSET Tables]
Identifiers == Chosen \union {Random(now, n) : now \in Nat, n \in Nat}
Draws == [clock : Nat, i : Nat]
SubscriptionSet == [identifier : Identifiers, tables : SUBSET Tables, drawn : Draws]
PartSet == [identifier : Identifiers, tables : SUBSET Tables]

TypeOK ==
  /\ i \in Nat /\ clock \in Nat
  /\ pc \in [Callers -> {"idle", "write", "clock"}]
  /\ loc \in [Callers -> Locals]
  /\ mine \in [Callers -> SUBSET SubscriptionSet]
  /\ node \subseteq PartSet /\ notices \subseteq PartSet

\* At most one caller is in the function, and the counter is its own.
Alone ==
  \A c \in Callers : pc[c] # "idle" =>
    /\ loc[c].i = i
    /\ \A d \in Callers \ {c} : pc[d] = "idle"

\* The identifiers made so far are of counters up to the present one, and
\* below it while a caller has yet to make its own.
InOrder ==
  \A c \in Callers : \A s \in mine[c] : s.drawn # Passed =>
    /\ s.drawn.i <= i
    /\ (\E d \in Callers : pc[d] = "clock") => s.drawn.i < i

\* The node and the connection have subscriptions, or a part of one's tables.
Origin(s) == \E c \in Callers : \E t \in mine[c] : t.identifier = s.identifier /\ s.tables \subseteq t.tables
Traced == \A s \in node \union notices : Origin(s)

Basic == TypeOK /\ Traced /\ NoCrossTalk
IInv == TypeOK /\ Alone /\ InOrder /\ DrawnOnce
-----------------------------------------------------------------------------
LEMMA Initially == Init => Basic /\ IInv
  BY DEF Init, Basic, IInv, TypeOK, Locals, NoLocals, Alone, InOrder, DrawnOnce, Traced, NoCrossTalk

\* A step gives c a subscription of that origin, and nobody another.
Adds(c, drawn) ==
  \E new \in SubscriptionSet :
    /\ new.drawn = drawn
    /\ \A d \in Callers : \A s \in mine'[d] : s \in mine[d] \/ (d = c /\ s = new)

\* What holds of a new subscription, whatever its identifier.
LEMMA ReturnKeeps ==
  ASSUME Basic, NEW c \in Callers, NEW n \in Identifiers, NEW tables \in SUBSET Tables, NEW drawn \in Draws,
         Return(c, n, tables, drawn), notices' = notices, handled' = handled
  PROVE  /\ mine' \in [Callers -> SUBSET SubscriptionSet]
         /\ node' \subseteq PartSet
         /\ \A d \in Callers : mine[d] \subseteq mine'[d]
         /\ Adds(c, drawn)
         /\ Traced' /\ NoCrossTalk'
  <1> DEFINE new == [identifier |-> n, tables |-> tables, drawn |-> drawn]
             part == Of(n, tables)
  <1>1. /\ new \in SubscriptionSet /\ new.identifier = n /\ new.tables = tables /\ new.drawn = drawn
        /\ part \in PartSet /\ part.identifier = n /\ part.tables = tables
    BY DEF Of, SubscriptionSet, PartSet
  <1>2. /\ mine \in [Callers -> SUBSET SubscriptionSet]
        /\ mine' = [mine EXCEPT ![c] = @ \union {new}] /\ node' = node \union {part}
    BY DEF Basic, TypeOK, Return
  <1> HIDE DEF new, part
  <1>3. \A d \in Callers : mine'[d] = IF d = c THEN mine[c] \union {new} ELSE mine[d]
    BY <1>2
  <1>4. mine' \in [Callers -> SUBSET SubscriptionSet] /\ node' \subseteq PartSet
    BY <1>1, <1>2 DEF Basic, TypeOK
  <1>5. \A d \in Callers : mine[d] \subseteq mine'[d]
    BY <1>3
  <1>6. \A d \in Callers : \A s \in mine'[d] : s \in mine[d] \/ (d = c /\ s = new)
    BY <1>3
  <1>7. Traced'
    <2> SUFFICES ASSUME NEW s \in node' \union notices' PROVE Origin(s)'
      BY DEF Traced
    <2>1. CASE s \in node \union notices
      BY <1>5, <2>1 DEF Basic, Traced, Origin
    <2>2. CASE s = part
      BY <1>1, <1>3, <2>2 DEF Origin
    <2>3. QED
      BY <1>2, <2>1, <2>2
  <1>8. NoCrossTalk'
    <2>1. ASSUME NEW n1, Shared(n1) PROVE Shared(n1)'
      BY <1>5, <2>1 DEF Shared
    <2>2. \A d : mine[d] \subseteq mine'[d] \/ d \notin Callers
      BY <1>5
    <2> SUFFICES ASSUME NEW h \in handled
                 PROVE  /\ \E d \in Callers : \E s \in mine'[d] : s.identifier = h.identifier /\ h.table \in s.tables
                        /\ \/ \E s \in mine'[h.caller] : s.identifier = h.identifier /\ h.table \in s.tables
                           \/ Shared(h.identifier)'
      BY DEF NoCrossTalk
    <2>3. mine[h.caller] \subseteq mine'[h.caller]
      BY <1>2
    <2>4. \E d \in Callers : \E s \in mine'[d] : s.identifier = h.identifier /\ h.table \in s.tables
      BY <1>5 DEF Basic, NoCrossTalk
    <2>5. \/ \E s \in mine[h.caller] : s.identifier = h.identifier /\ h.table \in s.tables
          \/ Shared(h.identifier)
      BY DEF Basic, NoCrossTalk
    <2>6. QED
      BY <2>1, <2>3, <2>4, <2>5
  <1>9. Adds(c, drawn)
    BY <1>1, <1>6 DEF Adds
  <1>10. QED
    BY <1>4, <1>5, <1>7, <1>8, <1>9

LEMMA SubscribeAsKeeps ==
  ASSUME NEW c \in Callers, NEW n \in Chosen, NEW tables \in SUBSET Tables, SubscribeAs(c, n, tables), Basic
  PROVE  /\ Basic'
         /\ IInv => IInv'
  <1>1. /\ n \in Identifiers /\ Passed \in Draws /\ notices' = notices /\ handled' = handled
        /\ i' = i /\ clock' = clock /\ pc' = pc /\ loc' = loc /\ Return(c, n, tables, Passed) /\ pc[c] = "idle"
    BY DEF SubscribeAs, Identifiers, Draws, Passed, Drawn
  <1>2. PICK new : /\ new \in SubscriptionSet /\ new.drawn = Passed
                   /\ \A d \in Callers : \A s \in mine'[d] : s \in mine[d] \/ (d = c /\ s = new)
    <2>1. Adds(c, Passed)
      BY <1>1, ReturnKeeps
    <2>2. QED
      BY <2>1 DEF Adds
  <1>3. Basic'
    BY <1>1, ReturnKeeps DEF Basic, TypeOK
  <1>4. ASSUME IInv PROVE IInv'
    <2>1. Alone'
      BY <1>1, <1>4 DEF IInv, Alone
    <2>2. InOrder'
      <3>1. ASSUME NEW d \in Callers, NEW s \in mine'[d], s.drawn # Passed PROVE s \in mine[d]
        BY <1>2, <3>1
      <3>2. QED
        BY <1>1, <1>4, <3>1 DEF IInv, InOrder
    <2>3. DrawnOnce'
      <3> SUFFICES ASSUME NEW d \in Callers, NEW e \in Callers, NEW s \in mine'[d], NEW t \in mine'[e],
                          s.drawn = t.drawn, s.drawn # Passed
                   PROVE  d = e /\ s = t
        BY DEF DrawnOnce
      <3>1. s \in mine[d] /\ t \in mine[e]
        BY <1>2
      <3>2. QED
        BY <1>4, <3>1 DEF IInv, DrawnOnce
    <2>4. QED
      BY <1>1, <1>3, <1>4, <2>1, <2>2, <2>3 DEF IInv, Basic
  <1>5. QED
    BY <1>3, <1>4

LEMMA ReadCounterKeeps ==
  ASSUME NEW c \in Callers, NEW tables \in SUBSET Tables, ReadCounter(c, tables), Basic
  PROVE  /\ Basic'
         /\ Serialized /\ IInv => IInv'
  <1>1. /\ i' = i /\ clock' = clock /\ mine' = mine /\ node' = node /\ notices' = notices /\ handled' = handled
        /\ pc' = [pc EXCEPT ![c] = "write"] /\ loc' = [loc EXCEPT ![c] = [i |-> i, tables |-> tables]]
        /\ Serialized => \A d \in Callers : pc[d] = "idle"
    BY DEF ReadCounter, nodeVars, MayCall
  <1>2. TypeOK'
    BY <1>1 DEF Basic, TypeOK, Locals
  <1>3. Traced' /\ NoCrossTalk'
    BY <1>1 DEF Basic, Traced, Origin, NoCrossTalk, Shared
  <1>4. ASSUME Serialized, IInv PROVE Alone' /\ InOrder' /\ DrawnOnce'
    <2>1. Alone'
      BY <1>1, <1>4 DEF IInv, TypeOK, Alone
    <2>2. InOrder' /\ DrawnOnce'
      BY <1>1, <1>4 DEF IInv, TypeOK, InOrder, DrawnOnce
    <2>3. QED
      BY <2>1, <2>2
  <1>5. QED
    BY <1>2, <1>3, <1>4 DEF Basic, IInv

LEMMA WriteCounterKeeps ==
  ASSUME NEW c \in Callers, WriteCounter(c), Basic
  PROVE  /\ Basic'
         /\ IInv => IInv'
  <1>1. /\ clock' = clock /\ mine' = mine /\ node' = node /\ notices' = notices /\ handled' = handled
        /\ pc[c] # "idle" /\ pc' = [pc EXCEPT ![c] = "clock"] /\ i' = loc[c].i + 1
        /\ loc' = [loc EXCEPT ![c].i = loc[c].i + 1]
    BY DEF WriteCounter, nodeVars, Next_i
  <1>2. TypeOK'
    BY <1>1 DEF Basic, TypeOK, Locals
  <1>3. Traced' /\ NoCrossTalk'
    BY <1>1 DEF Basic, Traced, Origin, NoCrossTalk, Shared
  <1>4. ASSUME IInv PROVE Alone' /\ InOrder' /\ DrawnOnce'
    <2>1. i' = i + 1 /\ i \in Nat /\ \A d \in Callers \ {c} : pc[d] = "idle"
      BY <1>1, <1>4 DEF IInv, TypeOK, Alone
    <2>2. \A d \in Callers \ {c} : pc'[d] = "idle"
      BY <1>1, <2>1 DEF IInv, TypeOK, Alone
    <2>3. loc'[c].i = i'
      BY <1>1 DEF Basic, TypeOK, Locals
    <2>4. Alone'
      BY <2>2, <2>3 DEF Alone
    <2>5. \A d \in Callers : \A s \in mine[d] : s.drawn.i \in Nat
      BY DEF Basic, TypeOK, SubscriptionSet, Draws
    <2>6. InOrder'
      BY <1>1, <1>4, <2>1, <2>5 DEF IInv, InOrder
    <2>7. DrawnOnce'
      BY <1>1, <1>4 DEF IInv, DrawnOnce
    <2>8. QED
      BY <2>4, <2>6, <2>7
  <1>5. QED
    BY <1>2, <1>3, <1>4 DEF Basic, IInv

LEMMA ReadClockKeeps ==
  ASSUME NEW c \in Callers, ReadClock(c), Basic
  PROVE  /\ Basic'
         /\ IInv => IInv'
  <1>1. PICK n, tables, drawn : /\ n = Random(clock, loc[c].i) /\ tables = loc[c].tables
                                /\ drawn = Drawn(clock, loc[c].i)
    OBVIOUS
  <1>2. /\ i' = i /\ clock' = clock /\ notices' = notices /\ handled' = handled
        /\ pc[c] = "clock" /\ pc' = [pc EXCEPT ![c] = "idle"] /\ loc' = [loc EXCEPT ![c] = NoLocals]
        /\ Return(c, n, tables, drawn)
    BY <1>1 DEF ReadClock
  <1>3. /\ loc[c].i \in Nat /\ tables \in SUBSET Tables /\ clock \in Nat
    BY <1>1 DEF Basic, TypeOK, Locals
  <1>4. n \in Identifiers /\ drawn \in Draws /\ drawn.i = loc[c].i
    BY <1>1, <1>3 DEF Identifiers, Draws, Drawn
  <1>5. PICK new : /\ new \in SubscriptionSet /\ new.drawn = drawn
                   /\ \A d \in Callers : \A s \in mine'[d] : s \in mine[d] \/ (d = c /\ s = new)
    <2>1. Adds(c, drawn)
      BY <1>2, <1>3, <1>4, ReturnKeeps
    <2>2. QED
      BY <2>1 DEF Adds
  <1>6. NoLocals \in Locals
    BY DEF NoLocals, Locals
  <1>7. Basic'
    BY <1>2, <1>3, <1>4, <1>6, ReturnKeeps DEF Basic, TypeOK
  <1>8. ASSUME IInv PROVE Alone' /\ InOrder' /\ DrawnOnce'
    <2>1. /\ drawn.i = i /\ i \in Nat /\ \A d \in Callers : pc'[d] = "idle"
          /\ \A d \in Callers : \A s \in mine[d] : s.drawn # Passed => s.drawn.i < i
      BY <1>2, <1>4, <1>8 DEF IInv, TypeOK, Alone, InOrder
    <2>2. Alone'
      BY <2>1 DEF Alone
    <2>3. InOrder'
      <3>1. ASSUME NEW d \in Callers, NEW s \in mine'[d], s.drawn # Passed PROVE s.drawn.i <= i
        BY <1>5, <1>8, <2>1, <3>1 DEF IInv, InOrder
      <3>2. QED
        BY <1>2, <2>1, <3>1 DEF InOrder
    <2>4. DrawnOnce'
      <3> SUFFICES ASSUME NEW d \in Callers, NEW e \in Callers, NEW s \in mine'[d], NEW t \in mine'[e],
                          s.drawn = t.drawn, s.drawn # Passed
                   PROVE  d = e /\ s = t
        BY DEF DrawnOnce
      <3>1. CASE s \in mine[d] /\ t \in mine[e]
        BY <1>8, <3>1 DEF IInv, DrawnOnce
      <3>2. CASE s \notin mine[d] /\ t \notin mine[e]
        BY <1>5, <3>2
      <3>3. ASSUME NEW x \in Callers, NEW u \in mine[x], u.drawn = drawn, u.drawn # Passed PROVE FALSE
        <4>1. u.drawn.i < i /\ u.drawn.i = i
          BY <2>1, <3>3
        <4>2. QED
          BY <2>1, <4>1
      <3>4. QED
        BY <1>5, <3>1, <3>2, <3>3
    <2>5. QED
      BY <2>2, <2>3, <2>4
  <1>9. QED
    BY <1>7, <1>8 DEF Basic, IInv

LEMMA NodeKeeps ==
  ASSUME Basic, UNCHANGED <<callVars, handled>>, clock' \in Nat,
         node' \subseteq PartSet, notices' \subseteq PartSet,
         \A s \in node' \union notices' : Origin(s)
  PROVE  /\ Basic'
         /\ IInv => IInv'
  <1>1. /\ i' = i /\ pc' = pc /\ loc' = loc /\ mine' = mine /\ handled' = handled
    BY DEF callVars
  <1>2. Basic'
    BY <1>1 DEF Basic, TypeOK, Traced, Origin, NoCrossTalk, Shared
  <1>3. ASSUME IInv PROVE Alone' /\ InOrder' /\ DrawnOnce'
    BY <1>1, <1>3 DEF IInv, Alone, InOrder, DrawnOnce
  <1>4. QED
    BY <1>2, <1>3 DEF Basic, IInv

LEMMA CancelKeeps ==
  ASSUME Basic, NEW tables \in SUBSET Tables, Cancel(tables)
  PROVE  /\ Basic'
         /\ IInv => IInv'
  <1>1. UNCHANGED <<callVars, clock, notices, handled>>
    BY DEF Cancel
  <1>2. ASSUME NEW s \in node' PROVE s \in PartSet /\ Origin(s)
    <2>1. PICK t \in node : s = Of(t.identifier, t.tables \ tables)
      BY DEF Cancel
    <2>2. t \in PartSet /\ s.identifier = t.identifier /\ s.tables \subseteq t.tables
      BY <2>1 DEF Of, Basic, TypeOK
    <2>3. s \in PartSet
      BY <2>1, <2>2 DEF Of, PartSet
    <2>4. QED
      BY <2>2, <2>3 DEF Basic, Traced, Origin
  <1>3. \A s \in notices' : s \in PartSet /\ Origin(s)
    BY <1>1 DEF Basic, TypeOK, Traced
  <1>4. clock' \in Nat
    BY <1>1 DEF Basic, TypeOK
  <1>5. UNCHANGED <<callVars, handled>>
    BY <1>1
  <1>6. QED
    BY <1>2, <1>3, <1>4, <1>5, NodeKeeps

LEMMA NotifyKeeps ==
  ASSUME Basic, NEW s \in node, NEW table \in s.tables, Notify(s, table)
  PROVE  /\ Basic'
         /\ IInv => IInv'
  <1> DEFINE n == Of(s.identifier, {table})
  <1>1. /\ UNCHANGED <<callVars, handled>> /\ clock' = clock /\ node' = node
        /\ notices' = notices \union {n}
    BY DEF Notify
  <1>2. n \in PartSet /\ n.identifier = s.identifier /\ n.tables \subseteq s.tables
    BY DEF Basic, TypeOK, PartSet, Of
  <1>3. Origin(n)
    BY <1>2 DEF Basic, Traced, Origin
  <1>4. QED
    BY <1>1, <1>2, <1>3, NodeKeeps DEF Basic, TypeOK, Traced

\* One of two subscriptions with an identifier makes it shared.
LEMMA SharedByTwo ==
  ASSUME NEW c \in Callers, NEW d \in Callers, NEW s \in mine[c], NEW t \in mine[d],
         s.identifier = t.identifier, c # d \/ s # t
  PROVE  Shared(s.identifier)
  BY DEF Shared

LEMMA HandleKeeps ==
  ASSUME Basic, NEW c \in Callers, NEW n \in notices, Handle(c, n)
  PROVE  /\ Basic'
         /\ IInv => IInv'
  <1>1. /\ i' = i /\ pc' = pc /\ loc' = loc /\ mine' = mine /\ node' = node /\ notices' = notices /\ clock' = clock
    BY DEF Handle, callVars, nodeVars
  <1>2. /\ TypeOK' /\ Traced'
        /\ IInv => Alone' /\ InOrder' /\ DrawnOnce'
    BY <1>1 DEF Basic, IInv, TypeOK, Alone, InOrder, DrawnOnce, Traced, Origin
  <1>3. NoCrossTalk'
    <2> DEFINE Told(h) == /\ \E d \in Callers : \E s \in mine[d] : s.identifier = h.identifier /\ h.table \in s.tables
                          /\ \/ \E s \in mine[h.caller] : s.identifier = h.identifier /\ h.table \in s.tables
                             \/ Shared(h.identifier)
    <2>0. \A h : Told(h)' <=> Told(h)
      BY <1>1 DEF Shared
    <2>1. ASSUME NEW h \in handled PROVE Told(h)
      BY DEF Basic, NoCrossTalk
    <2>2. ASSUME NEW h \in handled', h \notin handled PROVE Told(h)
      <3>1. PICK s \in mine[c], t \in n.tables :
              Parses(n, s.identifier) /\ h = [caller |-> c, identifier |-> s.identifier, table |-> t]
        BY <2>2 DEF Handle
      <3>2. PICK d \in Callers : \E u \in mine[d] : u.identifier = n.identifier /\ n.tables \subseteq u.tables
        BY DEF Basic, Traced, Origin
      <3>3. PICK u \in mine[d] : u.identifier = n.identifier /\ n.tables \subseteq u.tables
        BY <3>2
      <3>4. /\ h.caller = c /\ h.identifier = s.identifier /\ h.table \in u.tables
            /\ u.identifier = s.identifier
        BY <3>1, <3>3 DEF Parses
      <3>5. CASE d = c /\ u = s
        BY <3>4, <3>5
      <3>6. CASE d # c \/ u # s
        <4>1. Shared(s.identifier)
          BY <3>4, <3>6, SharedByTwo
        <4>2. QED
          BY <3>4, <4>1
      <3>7. QED
        BY <3>5, <3>6
    <2>3. \A h \in handled' : Told(h)'
      BY <2>0, <2>1, <2>2
    <2>4. QED
      BY <2>3 DEF NoCrossTalk
  <1>4. QED
    BY <1>2, <1>3 DEF Basic, IInv

LEMMA Step ==
  ASSUME Basic, [Next]_vars
  PROVE  /\ Basic'
         /\ Serialized /\ IInv => IInv'
  <1>1. CASE Tick
    <2>1. UNCHANGED <<callVars, handled>> /\ node' = node /\ notices' = notices
      BY <1>1 DEF Tick, nodeVars
    <2>2. clock' \in Nat
      BY <1>1 DEF Tick, Basic, TypeOK
    <2>3. QED
      BY <2>1, <2>2, NodeKeeps DEF Basic, TypeOK, Traced
  <1>2. ASSUME NEW n \in notices, Drop(n) PROVE Basic' /\ (IInv => IInv')
    <2>1. UNCHANGED <<callVars, handled>> /\ clock' = clock /\ node' = node /\ notices' \subseteq notices
      BY <1>2 DEF Drop
    <2>2. QED
      BY <2>1, NodeKeeps DEF Basic, TypeOK, Traced
  <1>3. CASE UNCHANGED vars
    BY <1>3, NodeKeeps DEF vars, callVars, nodeVars, Basic, TypeOK, Traced
  <1>4. QED
    BY <1>1, <1>2, <1>3, SubscribeAsKeeps, ReadCounterKeeps, WriteCounterKeeps, ReadClockKeeps, CancelKeeps,
       NotifyKeeps, HandleKeeps DEF Next
-----------------------------------------------------------------------------
(* One caller at a time in the function: no two identifiers of its making  *)
(* come from one counter and clock, whatever number is scrambled out of    *)
(* them, for any number of callers, calls and readings of the clock.       *)
THEOREM IdentifiersAreDrawnOnce ==
  ASSUME Serialized
  PROVE  Spec => []DrawnOnce
  <1>1. Basic /\ IInv => DrawnOnce
    BY DEF IInv
  <1>2. QED
    BY <1>1, Initially, Step, PTL DEF Spec

(* With or without that discipline, and whatever identifiers collide: a    *)
(* notification that a caller takes for its own is about a table it        *)
(* subscribed to, or another subscription has the same identifier.         *)
THEOREM NotificationsReachTheirCaller == Spec => []NoCrossTalk
  <1>1. Basic => NoCrossTalk
    BY DEF Basic
  <1>2. Init => Basic
    BY Initially
  <1>3. Basic /\ [Next]_vars => Basic'
    BY Step
  <1>4. QED
    BY <1>1, <1>2, <1>3, PTL DEF Spec
=============================================================================
