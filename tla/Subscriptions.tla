---------------------------- MODULE Subscriptions ----------------------------
(***************************************************************************)
(* Subscriptions to changes of tables: each has an identifier, made up by  *)
(* makeSubscribeChangeTableInfoNotificationRequest from a static counter   *)
(* and the clock unless the caller passes one, and each notification       *)
(* carries the identifier of the subscription it is for. Callers share a   *)
(* connection and tell their notifications apart by it.                    *)
(***************************************************************************)
EXTENDS Integers, FiniteSets

CONSTANTS
  Callers,      \* threads that subscribe
  Tables,
  Chosen,       \* identifiers callers may pass; negative ones but -1 too
  PseudoRandom(_, _),  \* the clock and an offset scrambled by xorshift; any function
  UIntMax, IntMax,     \* 2^32 - 1 and 2^31 - 1
  Serialized,   \* TRUE: no two callers are in the function at a time
  MaxCalls,     \* bound: subscriptions made
  MaxClock,     \* bound: readings of the clock
  MaxNotices    \* bound: notifications on their way

ASSUME SubscriptionsAssumption ==
  /\ Chosen \subseteq Int \ {-1}
  /\ UIntMax \in Nat \ {0} /\ IntMax \in Nat \ {0}
  /\ Serialized \in BOOLEAN
  /\ MaxCalls \in Nat /\ MaxClock \in Nat /\ MaxNotices \in Nat

VARIABLES
  i,        \* the static counter
  clock,    \* what high_resolution_clock reads
  pc, loc,  \* per caller: the next step, and its locals
  mine,     \* per caller: the subscriptions it made, [identifier, tables, drawn]
  node,     \* the node's subscriptions of this connection, by the same names
  notices,  \* notifications on their way
  handled   \* history: notifications a caller parsed as its own

callVars == <<i, pc, loc, mine>>
nodeVars == <<node, notices>>
vars == <<i, clock, pc, loc, mine, node, notices, handled>>

NoLocals == [i |-> 0, tables |-> {}]

Init ==
  /\ i = 0 /\ clock = 1
  /\ pc = [c \in Callers |-> "idle"]
  /\ loc = [c \in Callers |-> NoLocals]
  /\ mine = [c \in Callers |-> {}]
  /\ node = {} /\ notices = {} /\ handled = {}
-----------------------------------------------------------------------------
(* Identifiers.                                                            *)

Of(identifier, tables) == [identifier |-> identifier, tables |-> tables]

\* The identifier of the function's making for a clock and the counter: two
\* remainders of a scrambled number. Different pairs may give equal ones, and
\* one that a caller has passed.
Random(now, n) == (PseudoRandom(now, n + 1) % UIntMax) % IntMax

\* pack_int writes every int as unsigned; the parser asks for IsInt.
IsInt(n) == n >= 0

\* History: the clock and the counter an identifier was made from, if it was.
Drawn(now, n) == [clock |-> now, i |-> n]
Passed == Drawn(0, 0)

Made == {cs \in Callers \X UNION {mine[c] : c \in Callers} : cs[2] \in mine[cs[1]]}
Started == Cardinality(Made) + Cardinality({c \in Callers : pc[c] # "idle"})
MayCall == Started < MaxCalls /\ (Serialized => \A c \in Callers : pc[c] = "idle")

\* The request is returned with its identifier; the caller sends it.
Return(c, identifier, tables, drawn) ==
  /\ mine' = [mine EXCEPT ![c] =
                @ \cup {[identifier |-> identifier, tables |-> tables, drawn |-> drawn]}]
  /\ node' = node \cup {Of(identifier, tables)}

\* Whatever identifier the caller passes is taken, another's too.
SubscribeAs(c, identifier, tables) ==
  /\ pc[c] = "idle" /\ MayCall
  /\ Return(c, identifier, tables, Passed)
  /\ UNCHANGED <<i, clock, pc, loc, notices, handled>>

\* ++i reads and writes the counter without a lock.
ReadCounter(c, tables) ==
  /\ pc[c] = "idle" /\ MayCall
  /\ pc' = [pc EXCEPT ![c] = "write"]
  /\ loc' = [loc EXCEPT ![c] = [i |-> i, tables |-> tables]]
  /\ UNCHANGED <<i, clock, mine, nodeVars, handled>>

Unchanged(n) == n  \* mutant: the counter is not advanced
Next_i(n) == n + 1

WriteCounter(c) ==
  /\ pc[c] = "write"
  /\ i' = Next_i(loc[c].i)
  /\ pc' = [pc EXCEPT ![c] = "clock"]
  /\ loc' = [loc EXCEPT ![c].i = Next_i(loc[c].i)]
  /\ UNCHANGED <<clock, mine, nodeVars, handled>>

ReadClock(c) ==
  /\ pc[c] = "clock"
  /\ Return(c, Random(clock, loc[c].i), loc[c].tables, Drawn(clock, loc[c].i))
  /\ pc' = [pc EXCEPT ![c] = "idle"]
  /\ loc' = [loc EXCEPT ![c] = NoLocals]
  /\ UNCHANGED <<i, clock, notices, handled>>

Tick == clock < MaxClock /\ clock' = clock + 1 /\ UNCHANGED <<callVars, nodeVars, handled>>

(* The two requests that cancel name tables, or all, and no identifier.    *)
Cancel(tables) ==
  /\ node' = {s \in {Of(t.identifier, t.tables \ tables) : t \in node} : s.tables # {}}
  /\ UNCHANGED <<callVars, clock, notices, handled>>
-----------------------------------------------------------------------------
(* Notifications.                                                          *)

Notify(s, table) ==
  /\ table \in s.tables
  /\ Cardinality(notices \cup {Of(s.identifier, {table})}) <= MaxNotices
  /\ notices' = notices \cup {Of(s.identifier, {table})}
  /\ UNCHANGED <<callVars, clock, node, handled>>

AnyIdentifier(notice, identifier) == IsInt(notice.identifier)  \* mutant: the comparison is dropped
\* parseChangeTableInfoNotification gives a result.
Parses(notice, identifier) == IsInt(notice.identifier) /\ notice.identifier = identifier

\* A caller offers the notification to each of its subscriptions.
Handle(c, notice) ==
  /\ handled' = handled \cup
       {[caller |-> c, identifier |-> s.identifier, table |-> t] :
          s \in {s \in mine[c] : Parses(notice, s.identifier)}, t \in notice.tables}
  /\ UNCHANGED <<callVars, clock, nodeVars>>

\* All callers have been offered it, or the connection lost it.
Drop(notice) == notices' = notices \ {notice} /\ UNCHANGED <<callVars, clock, node, handled>>

Next ==
  \/ \E c \in Callers :
       \/ \E tables \in SUBSET Tables : ReadCounter(c, tables) \/ \E n \in Chosen : SubscribeAs(c, n, tables)
       \/ WriteCounter(c) \/ ReadClock(c)
       \/ \E n \in notices : Handle(c, n)
  \/ Tick
  \/ \E tables \in SUBSET Tables : Cancel(tables)
  \/ \E s \in node : \E t \in s.tables : Notify(s, t)
  \/ \E n \in notices : Drop(n)

Spec == Init /\ [][Next]_vars
-----------------------------------------------------------------------------
(* What must hold. *)

(* The comment in request_builder.h:168: an identifier of the function's   *)
(* making is unique; no two callers, and no two calls, have the same.      *)
UniqIdentifier ==
  \A c, d \in Callers : \A s \in mine[c], t \in mine[d] :
    s.identifier = t.identifier => c = d /\ s = t

(* What is left of it when numbers may collide: no two identifiers are     *)
(* made from one counter and one clock, so that equal ones are equal by    *)
(* the remainders of different numbers, or by a caller's own choice.       *)
DrawnOnce ==
  \A c, d \in Callers : \A s \in mine[c], t \in mine[d] :
    s.drawn = t.drawn /\ s.drawn # Passed => c = d /\ s = t

\* Two subscriptions have the identifier.
Shared(identifier) ==
  \E c, d \in Callers : \E s \in mine[c], t \in mine[d] :
    /\ s.identifier = identifier /\ t.identifier = identifier
    /\ c # d \/ s # t

(* A notification that a caller takes for its own is about a table it      *)
(* subscribed to under that identifier, unless another subscription has    *)
(* the identifier too: parseChangeTableInfoNotification compares it and    *)
(* nothing else. Even then somebody subscribed to the table under it.      *)
NoCrossTalk ==
  \A h \in handled :
    /\ \E c \in Callers : \E s \in mine[c] : s.identifier = h.identifier /\ h.table \in s.tables
    /\ \/ \E s \in mine[h.caller] : s.identifier = h.identifier /\ h.table \in s.tables
       \/ Shared(h.identifier)
=============================================================================
