------------------------- MODULE SessionReplication -------------------------
(***************************************************************************)
(* The session of one group on the nodes of the cluster.  A fact put into  *)
(* the fact cache makes the primary owner of its group insert it into the  *)
(* session (FactListenerPost, KieSessionSaver.insert) and put the session  *)
(* back, which sends the other owners a delta (HAKieSession.delta) that    *)
(* they merge into their copy (HAKieSessionDeltaFact, -Empty).             *)
(*                                                                         *)
(* A HAKieSerializedSession is a snapshot and a buffer of facts; how it    *)
(* keeps them is SerializedSession's matter.  The caches are external: a   *)
(* write reaches the backups before the primary owner commits it, a fact   *)
(* stays in its cache, one owner at least survives, and a rehash copies    *)
(* the value of the primary owner while nothing is inserted, as the        *)
(* listeners of the rehash suspend the routers.                            *)
(***************************************************************************)
EXTENDS FiniteSets, Naturals, Sequences

CONSTANTS
    Nodes,     \* the nodes that may be members
    NumOwners, \* grid.owners
    MaxFacts,  \* bound: facts 1..MaxFacts are put
    NoFact,    \* null
    MayCrash,  \* may a node crash?
    MayFail    \* may the rules of a session throw?

ASSUME ConstantsAssumption ==
    /\ IsFiniteSet(Nodes)
    /\ NumOwners \in Nat \ {0}
    /\ MaxFacts \in Nat
    /\ NoFact \notin Nat
    /\ MayCrash \in BOOLEAN
    /\ MayFail \in BOOLEAN

Facts == 1..MaxFacts

VARIABLES
    up,       \* members of the cluster
    primary,  \* the primary owner of the group
    owners,   \* all its owners
    stored,   \* the fact cache
    waiting,  \* [node]: facts whose event waits for the lock of the group
    fact,     \* [node]: the fact being inserted
    pc,       \* [node]: how far KieSessionSaver.insert is
    value,    \* [node]: what the session cache holds
    live,     \* [node]: facts in its HAKieSession
    lastFact, \* [node]: the field of that HAKieSession
    todo,     \* [node]: owners its put has not sent the delta to
    done      \* facts whose put has returned

cluster  == <<up, primary, owners>>
saver    == <<waiting, fact, pc>>
sessions == <<value, live, lastFact>>
vars     == <<cluster, stored, saver, sessions, todo, done>>

\* Values of the cache: null, a HAKieSession, a HAKieSerializedSession with
\* the facts in its snapshot and those in its buffer.
Value(k, i, b)   == [kind |-> k, image |-> i, buffer |-> b]
Null             == Value("null", <<>>, <<>>)
HAKieSession     == Value("live", <<>>, <<>>)
Serialized(i, b) == Value("serialized", i, b)

\* The facts of the session of a node; while it inserts one, of the session in
\* its hands.
FactsOf(n) ==
    IF value[n].kind = "live" \/ pc[n] \in {"insert", "put"} THEN live[n]
    ELSE value[n].image \o value[n].buffer

Quiet == \A n \in Nodes : pc[n] = "idle" /\ waiting[n] = {}

Init ==
    /\ up = Nodes
    /\ owners \in {O \in SUBSET Nodes : Cardinality(O) = NumOwners}
    /\ primary \in owners
    /\ stored = {}
    /\ waiting = [n \in Nodes |-> {}]
    /\ fact = [n \in Nodes |-> NoFact]
    /\ pc = [n \in Nodes |-> "idle"]
    /\ value = [n \in Nodes |-> Null]
    /\ live = [n \in Nodes |-> <<>>]
    /\ lastFact = [n \in Nodes |-> NoFact]
    /\ todo = [n \in Nodes |-> {}]
    /\ done = {}

----------------------------------------------------------------------------
\* Mutant: the listener is not primaryOnly.
ReceivedByAll(f) ==
    waiting' = [n \in Nodes |-> IF n \in owners THEN waiting[n] \cup {f} ELSE waiting[n]]

\* FactListenerPost.eventReceived, on the primary owner: saver.insert
EventReceived(f) == waiting' = [waiting EXCEPT ![primary] = @ \cup {f}]

\* PutterImpl.put: only a fact whose key is not in the cache is created there;
\* another put of it is an event that FactListenerPost does not listen to.
PutFact(f) ==
    /\ f \notin stored
    /\ stored' = stored \cup {f}
    /\ EventReceived(f)
    /\ UNCHANGED <<cluster, fact, pc, sessions, todo, done>>

\* synchronized (getLock(sessionKey)): in any order
Lock(n, f) ==
    /\ pc[n] = "idle"
    /\ f \in waiting[n]
    /\ waiting' = [waiting EXCEPT ![n] = @ \ {f}]
    /\ fact' = [fact EXCEPT ![n] = f]
    /\ pc' = [pc EXCEPT ![n] = "get"]
    /\ UNCHANGED <<cluster, stored, sessions, todo, done>>

\* insert returns or throws
Unlock(n) ==
    /\ pc' = [pc EXCEPT ![n] = "idle"]
    /\ fact' = [fact EXCEPT ![n] = NoFact]

\* HAKieSessionDeltaEmpty.merge
MergeEmpty(m) == IF value[m] = Null THEN Serialized(<<>>, <<>>) ELSE value[m]

\* No session: a new one is put, and the other owners merge its empty delta.
Build(n) ==
    /\ pc[n] = "get"
    /\ value[n] = Null
    /\ value' = [m \in Nodes |->
                   IF m = n THEN HAKieSession
                   ELSE IF m \in owners THEN MergeEmpty(m) ELSE value[m]]
    /\ live' = [live EXCEPT ![n] = <<>>]
    /\ lastFact' = [lastFact EXCEPT ![n] = NoFact]
    /\ pc' = [pc EXCEPT ![n] = "insert"]
    /\ UNCHANGED <<cluster, stored, waiting, fact, todo, done>>

\* A serialized session is rebuilt, which drains its buffer into the new
\* HAKieSession; the cache still holds the serialized one.
Rebuild(n) ==
    /\ pc[n] = "get"
    /\ value[n].kind = "serialized"
    /\ value' = [value EXCEPT ![n].buffer = <<>>]
    /\ \/ /\ live' = [live EXCEPT ![n] = value[n].image \o value[n].buffer]
          /\ lastFact' = [lastFact EXCEPT ![n] = NoFact]
          /\ pc' = [pc EXCEPT ![n] = "insert"]
          /\ UNCHANGED fact
       \/ /\ MayFail
          /\ Unlock(n)
          /\ UNCHANGED <<live, lastFact>>
    /\ UNCHANGED <<cluster, stored, waiting, todo, done>>

UseLive(n) ==
    /\ pc[n] = "get"
    /\ value[n].kind = "live"
    /\ pc' = [pc EXCEPT ![n] = "insert"]
    /\ UNCHANGED <<cluster, stored, waiting, fact, sessions, todo, done>>

\* Mutant: a fact whose rules throw is inserted again.
InsertAgain(n) ==
    /\ pc[n] = "insert"
    /\ live' = [live EXCEPT ![n] = Append(@, fact[n])]
    /\ lastFact' = [lastFact EXCEPT ![n] = fact[n]]
    /\ \/ /\ pc' = [pc EXCEPT ![n] = "put"]
          /\ todo' = [todo EXCEPT ![n] = owners \ {n}]
          /\ UNCHANGED fact
       \/ /\ MayFail /\ Len(live[n]) < 2 * MaxFacts
          /\ UNCHANGED <<pc, fact, todo>>
    /\ UNCHANGED <<cluster, stored, waiting, value, done>>

\* HAKieSession.insert: the fact is in the session and in lastFact before its
\* rules fire, and they may throw.
Insert(n) ==
    /\ pc[n] = "insert"
    /\ live' = [live EXCEPT ![n] = Append(@, fact[n])]
    /\ lastFact' = [lastFact EXCEPT ![n] = fact[n]]
    /\ \/ /\ pc' = [pc EXCEPT ![n] = "put"]
          /\ todo' = [todo EXCEPT ![n] = owners \ {n}]
          /\ UNCHANGED fact
       \/ /\ MayFail
          /\ Unlock(n)
          /\ UNCHANGED todo
    /\ UNCHANGED <<cluster, stored, waiting, value, done>>

\* wrapWithSerializedSession: the snapshot of a live session
Wrap(m) == Serialized(live[m], <<>>)

\* Mutant: the buffer is a stack.
Push(f, v) == [v EXCEPT !.buffer = <<f>> \o @]

Add(f, v) == [v EXCEPT !.buffer = Append(@, f)]

\* Mutant: the session of a former primary owner is not wrapped but replaced.
MergeIntoNew(f, m) ==
    Add(f, IF value[m].kind = "serialized" THEN value[m] ELSE Serialized(<<>>, <<>>))

\* HAKieSessionDeltaFact.merge: the fact is added to the serialized session,
\* which a live one is wrapped into and null is replaced by.
Merge(f, m) ==
    Add(f, CASE value[m].kind = "serialized" -> value[m]
             [] value[m].kind = "live" -> Wrap(m)
             [] value[m].kind = "null" -> Serialized(<<>>, <<>>))

\* sessionCache.put sends the delta to another owner.
MergeDelta(n, m) ==
    /\ pc[n] = "put"
    /\ m \in todo[n]
    /\ todo' = [todo EXCEPT ![n] = @ \ {m}]
    /\ value' = [value EXCEPT ![m] = Merge(lastFact[n], m)]
    /\ UNCHANGED <<cluster, stored, saver, live, lastFact, done>>

\* Mutant: the put returns before the delta is on every owner.
PutBackAsync(n) ==
    /\ pc[n] = "put"
    /\ value' = [value EXCEPT ![n] = HAKieSession]
    /\ lastFact' = [lastFact EXCEPT ![n] = NoFact]
    /\ done' = done \cup {fact[n]}
    /\ todo' = [todo EXCEPT ![n] = {}]
    /\ Unlock(n)
    /\ UNCHANGED <<cluster, stored, waiting, live>>

\* The put commits the HAKieSession on the primary owner and returns.
PutBack(n) ==
    /\ pc[n] = "put"
    /\ todo[n] = {}
    /\ value' = [value EXCEPT ![n] = HAKieSession]
    /\ lastFact' = [lastFact EXCEPT ![n] = NoFact]
    /\ done' = done \cup {fact[n]}
    /\ Unlock(n)
    /\ UNCHANGED <<cluster, stored, waiting, live, todo>>

----------------------------------------------------------------------------
\* A node crashes with the insertions it was doing; the group keeps an owner.
Crash(n) ==
    /\ MayCrash
    /\ n \in up
    /\ owners # {n}
    /\ up' = up \ {n}
    /\ owners' = owners \ {n}
    /\ IF primary = n THEN primary' \in owners' ELSE UNCHANGED primary
    /\ value' = [value EXCEPT ![n] = Null]
    /\ live' = [live EXCEPT ![n] = <<>>]
    /\ lastFact' = [lastFact EXCEPT ![n] = NoFact]
    /\ todo' = [m \in Nodes |-> IF m = n THEN {} ELSE todo[m] \ {n}]
    /\ waiting' = [waiting EXCEPT ![n] = {}]
    /\ Unlock(n)
    /\ UNCHANGED <<stored, done>>

Join(n) ==
    /\ n \notin up
    /\ up' = up \cup {n}
    /\ UNCHANGED <<primary, owners, stored, saver, sessions, todo, done>>

\* Mutant: the buffer is not written.
TransferImage(n) ==
    IF value[n].kind = "live" THEN Wrap(n) ELSE [value[n] EXCEPT !.buffer = <<>>]

\* What a new owner reads: both externalizers make a serialized session.
Transfer(n) ==
    IF value[n].kind = "live" THEN Wrap(n) ELSE value[n]

\* The group gets other owners, among them one of the old; former owners drop
\* the session.
Rehash(p, O) ==
    /\ Quiet
    /\ O \subseteq up
    /\ p \in O
    /\ Cardinality(O) = NumOwners \/ O = up
    /\ Cardinality(O) <= NumOwners
    /\ owners \cap O # {}
    /\ primary' = p
    /\ owners' = O
    /\ value' = [n \in Nodes |-> IF n \in O \ owners THEN Transfer(primary)
                                 ELSE IF n \in O THEN value[n] ELSE Null]
    /\ live' = [n \in Nodes |-> IF n \in O THEN live[n] ELSE <<>>]
    /\ lastFact' = [n \in Nodes |-> IF n \in O THEN lastFact[n] ELSE NoFact]
    /\ UNCHANGED <<up, stored, saver, todo, done>>

----------------------------------------------------------------------------
Save(n) ==
    \/ \E f \in Facts : Lock(n, f)
    \/ Build(n) \/ Rebuild(n) \/ UseLive(n) \/ Insert(n) \/ PutBack(n)
    \/ \E m \in Nodes : MergeDelta(n, m)

Next ==
    \/ \E f \in Facts : PutFact(f)
    \/ \E n \in Nodes : Save(n) \/ Crash(n) \/ Join(n)
    \/ \E p \in Nodes, O \in SUBSET Nodes : Rehash(p, O)

Spec == Init /\ [][Next]_vars

----------------------------------------------------------------------------
Values == [kind : {"null", "live", "serialized"}, image : Seq(Facts), buffer : Seq(Facts)]

\* Every variable has its type; only the primary owner inserts, and only
\* owners keep the session.
TypeOK ==
    /\ up \subseteq Nodes
    /\ owners \subseteq up
    /\ primary \in owners
    /\ stored \subseteq Facts
    /\ waiting \in [Nodes -> SUBSET stored]
    /\ fact \in [Nodes -> stored \cup {NoFact}]
    /\ pc \in [Nodes -> {"idle", "get", "insert", "put"}]
    /\ value \in [Nodes -> Values]
    /\ live \in [Nodes -> Seq(Facts)]
    /\ lastFact \in [Nodes -> stored \cup {NoFact}]
    /\ todo \in [Nodes -> SUBSET owners]
    /\ done \subseteq stored
    /\ \A n \in Nodes : /\ pc[n] # "idle" \/ waiting[n] # {} => n = primary
                        /\ fact[n] = NoFact <=> pc[n] = "idle"
                        /\ value[n] # Null => n \in owners

\* While no fact is being inserted every owner has the same facts in the same
\* order: any of them could become the primary owner.
OwnersAgree ==
    pc[primary] = "idle" => \A n \in owners : FactsOf(n) = FactsOf(primary)

\* A fact whose put has returned is in the session of every owner, whatever
\* nodes crash and join after that.
DoneSurvive ==
    \A n \in owners : \A f \in done : \E i \in DOMAIN FactsOf(n) : FactsOf(n)[i] = f

\* No session ever holds a fact twice, however the node that inserted it,
\* its rules or its put ended.
NoFactTwice ==
    \A n \in owners : \A i, j \in DOMAIN FactsOf(n) :
        FactsOf(n)[i] = FactsOf(n)[j] => i = j

Before(n, f, g) ==
    \E i, j \in DOMAIN FactsOf(n) :
        i < j /\ FactsOf(n)[i] = f /\ FactsOf(n)[j] = g

\* The facts of a group have one order in the cluster: no two owners ever hold
\* two facts in opposite orders, though deltas are lost with the node that was
\* sending them, a fact whose rules threw is never sent, and owners take over
\* from one another in between.
CommonOrder ==
    \A n, m \in owners, f \in Facts : \A g \in Facts \ {f} :
        Before(n, f, g) => ~Before(m, g, f)

\* The log of EventLog: the facts that every owner has.
log ==
    LET least == CHOOSE n \in owners :
                   \A m \in owners : Len(FactsOf(n)) <= Len(FactsOf(m))
    IN FactsOf(least)

Promise == INSTANCE EventLog WITH log <- log, Facts <- Facts

\* Together the owners implement EventLog: no fact is lost, repeated or moved
\* by a delta, a rebuild, a crash or a rehash.
LogKept == Promise!Spec

=============================================================================
