----------------------- MODULE SessionAgreementProofs -----------------------
(***************************************************************************)
(* What is proved of SessionReplication with one or two owners and rules   *)
(* that do not throw, for any nodes and facts and with crashes: the owners *)
(* agree, a fact whose put has returned stays, and together the owners     *)
(* implement EventLog.                                                     *)
(***************************************************************************)
EXTENDS SessionReplicationProofs, FiniteSetTheorems

\* The default of grid.owners, and rules that do not throw.
TwoOwners == NumOwners <= 2 /\ ~MayFail

\* Of three owners two are the same.
AtMostTwo(O) == \A a, b, c \in O : a = b \/ a = c \/ b = c

\* The primary owner is ahead of another owner by the fact that its put has
\* still to send there, and by nothing else.
Ahead(b) ==
    FactsOf(primary) = IF b \in todo[primary]
                         THEN Append(FactsOf(b), fact[primary]) ELSE FactsOf(b)

\* Null is the only value of its kind.
NullIsEmpty == \A m \in Nodes : value[m].kind = "null" => value[m] = Null

Agreement == AtMostTwo(owners) /\ NullIsEmpty /\ \A b \in owners : Ahead(b)

LEMMA AtMostTwoOwners ==
    ASSUME TwoOwners, NEW O \in SUBSET Nodes, Cardinality(O) <= NumOwners
    PROVE  AtMostTwo(O)
<1> SUFFICES ASSUME NEW a \in O, NEW b \in O, NEW c \in O, a # b, a # c, b # c
             PROVE  FALSE
  BY DEF AtMostTwo
<1>1. IsFiniteSet(O)
  BY ConstantsAssumption, FS_Subset
<1>2. IsFiniteSet({a}) /\ Cardinality({a}) = 1
  BY FS_Singleton
<1>3. IsFiniteSet({a, b}) /\ Cardinality({a, b}) = 2
  <2>1. b \notin {a} /\ {a, b} = {a} \cup {b}
    OBVIOUS
  <2> QED BY <1>2, <2>1, FS_AddElement
<1>4. IsFiniteSet({a, b, c}) /\ Cardinality({a, b, c}) = 3
  <2>1. c \notin {a, b} /\ {a, b, c} = {a, b} \cup {c}
    OBVIOUS
  <2> QED BY <1>3, <2>1, FS_AddElement
<1>5. Cardinality({a, b, c}) <= Cardinality(O)
  BY <1>1, FS_Subset
<1>6. Cardinality(O) \in Nat
  BY <1>1, FS_CardinalityType
<1> QED
  BY <1>4, <1>5, <1>6, ConstantsAssumption DEF TwoOwners

LEMMA FactsType ==
    ASSUME TypeOK, NEW n \in Nodes
    PROVE  FactsOf(n) \in Seq(Facts)
<1>1. value[n] \in Values /\ live[n] \in Seq(Facts)
  BY DEF TypeOK
<1> QED
  BY <1>1 DEF FactsOf, Values

\* Merging a delta appends its fact to what the copy has.
LEMMA MergeAppends ==
    ASSUME TypeOK, NullIsEmpty, NEW m \in Nodes, NEW f \in Facts, pc[m] = "idle"
    PROVE  /\ Merge(f, m).kind = "serialized"
           /\ Copy(Merge(f, m)) = Append(FactsOf(m), f)
<1>1. value[m] \in Values /\ live[m] \in Seq(Facts)
  BY DEF TypeOK
<1>2. value[m].kind \in {"null", "live", "serialized"}
  BY <1>1 DEF Values
<1>3. Serialized(live[m], <<>>) \in Values /\ Serialized(live[m], <<>>).kind = "serialized"
  BY <1>1 DEF Values, Serialized, Value
<1>4. Serialized(<<>>, <<>>) \in Values /\ Serialized(<<>>, <<>>).kind = "serialized"
  BY DEF Values, Serialized, Value
<1>5. \A v \in Values : Add(f, v).kind = v.kind
  BY DEF Add, Values
<1>6. CASE value[m].kind = "serialized"
  <2>1. Merge(f, m) = Add(f, value[m]) /\ FactsOf(m) = Copy(value[m])
    BY <1>6 DEF Merge, FactsOf, Copy
  <2> QED BY <2>1, <1>1, <1>5, <1>6, CopyOf
<1>7. CASE value[m].kind = "live"
  <2>1. Merge(f, m) = Add(f, Serialized(live[m], <<>>)) /\ FactsOf(m) = live[m]
    BY <1>7 DEF Merge, FactsOf, Wrap
  <2> QED BY <2>1, <1>1, <1>3, <1>5, CopyOf
<1>8. CASE value[m].kind = "null"
  <2>1. Merge(f, m) = Add(f, Serialized(<<>>, <<>>)) /\ FactsOf(m) = <<>>
    BY <1>8, CopyOf DEF Merge, FactsOf, Copy, NullIsEmpty
  <2> QED BY <2>1, <1>4, <1>5, CopyOf
<1> QED
  BY <1>2, <1>6, <1>7, <1>8

LEMMA InitAgreement == TwoOwners /\ Init => Agreement
<1> SUFFICES ASSUME TwoOwners, Init PROVE Agreement
  OBVIOUS
<1>1. AtMostTwo(owners)
  BY AtMostTwoOwners, ConstantsAssumption DEF Init
<1>2. NullIsEmpty
  BY DEF Init, NullIsEmpty
<1>3. \A n \in Nodes : FactsOf(n) = <<>>
  BY CopyOf DEF Init, FactsOf, Copy, Null, Value
<1> QED
  BY <1>1, <1>2, <1>3 DEF Init, Agreement, Ahead

\* What an action leaves of the session of a node it does not touch.
LEMMA FactsKept ==
    ASSUME NEW n \in Nodes, value'[n] = value[n], live'[n] = live[n],
           pc[n] \in {"insert", "put"} <=> pc'[n] \in {"insert", "put"}
    PROVE  FactsOf(n)' = FactsOf(n)
  BY DEF FactsOf

----------------------------------------------------------------------------
(* What each action makes of the sessions of the owners.                   *)

\* The actions that leave the session of every owner as it is.
Silent ==
    \/ \E f \in Facts : PutFact(f)
    \/ \E n \in Nodes : \/ \E f \in Facts : Lock(n, f)
                        \/ Build(n) \/ Rebuild(n) \/ UseLive(n) \/ PutBack(n) \/ Join(n)
    \/ UNCHANGED vars

LEMMA BuildFacts ==
    ASSUME TypeInv, NEW n \in Nodes, Build(n), NEW m \in owners
    PROVE  FactsOf(m)' = FactsOf(m)
<1> USE DEF TypeInv, TypeOK, PutState
<1>1. n = primary /\ pc[n] = "get" /\ value[n] = Null
  BY DEF Build
<1>2. CASE m = n
  <2>1. FactsOf(n) = Copy(Null)
    BY <1>1 DEF FactsOf, Copy, Null, Value
  <2>2. FactsOf(n)' = <<>>
    BY <1>1 DEF Build, FactsOf
  <2> QED BY <1>2, <2>1, <2>2, CopyOf
<1>3. CASE m # n
  <2>1. value'[m] = MergeEmpty(m) /\ live'[m] = live[m] /\ pc'[m] = pc[m] /\ pc[m] = "idle"
    BY <1>1, <1>3 DEF Build
  <2>2. CASE value[m] = Null
    <3>1. FactsOf(m) = Copy(Null)
      BY <2>1, <2>2 DEF FactsOf, Copy, Null, Value
    <3>2. FactsOf(m)' = Copy(Serialized(<<>>, <<>>))
      BY <2>1, <2>2 DEF FactsOf, Copy, MergeEmpty, Serialized, Value
    <3> QED BY <3>1, <3>2, CopyOf
  <2>3. CASE value[m] # Null
    BY <2>1, <2>3, FactsKept DEF MergeEmpty
  <2> QED BY <2>2, <2>3
<1> QED
  BY <1>2, <1>3

LEMMA SilentFacts ==
    ASSUME TypeInv, TwoOwners, Silent
    PROVE  /\ owners' = owners /\ primary' = primary
           /\ \A m \in owners : FactsOf(m)' = FactsOf(m)
<1> USE DEF TypeInv, TypeOK, PutState, TwoOwners, cluster, saver, sessions
<1>1. ASSUME NEW f \in Facts, PutFact(f)
      PROVE  owners' = owners /\ primary' = primary /\ \A m \in owners : FactsOf(m)' = FactsOf(m)
  BY <1>1, FactsKept DEF PutFact
<1>2. ASSUME NEW n \in Nodes, NEW f \in Facts, Lock(n, f)
      PROVE  owners' = owners /\ primary' = primary /\ \A m \in owners : FactsOf(m)' = FactsOf(m)
  BY <1>2, FactsKept DEF Lock
<1>3. ASSUME NEW n \in Nodes, Build(n)
      PROVE  owners' = owners /\ primary' = primary /\ \A m \in owners : FactsOf(m)' = FactsOf(m)
  BY <1>3, BuildFacts DEF Build
<1>4. ASSUME NEW n \in Nodes, Rebuild(n)
      PROVE  owners' = owners /\ primary' = primary /\ \A m \in owners : FactsOf(m)' = FactsOf(m)
  <2>1. FactsOf(n)' = FactsOf(n)
    BY <1>4 DEF Rebuild, FactsOf
  <2> QED BY <1>4, <2>1, FactsKept DEF Rebuild
<1>5. ASSUME NEW n \in Nodes, UseLive(n)
      PROVE  owners' = owners /\ primary' = primary /\ \A m \in owners : FactsOf(m)' = FactsOf(m)
  <2>1. FactsOf(n)' = FactsOf(n)
    BY <1>5 DEF UseLive, FactsOf
  <2> QED BY <1>5, <2>1, FactsKept DEF UseLive
<1>6. ASSUME NEW n \in Nodes, PutBack(n)
      PROVE  owners' = owners /\ primary' = primary /\ \A m \in owners : FactsOf(m)' = FactsOf(m)
  <2>1. FactsOf(n)' = FactsOf(n)
    BY <1>6 DEF PutBack, FactsOf, HAKieSession, Value
  <2> QED BY <1>6, <2>1, FactsKept DEF PutBack, Unlock
<1>7. ASSUME NEW n \in Nodes, Join(n)
      PROVE  owners' = owners /\ primary' = primary /\ \A m \in owners : FactsOf(m)' = FactsOf(m)
  BY <1>7, FactsKept DEF Join
<1>8. CASE UNCHANGED vars
  BY <1>8 DEF vars, FactsOf
<1> QED
  BY <1>1, <1>2, <1>3, <1>4, <1>5, <1>6, <1>7, <1>8 DEF Silent

LEMMA InsertFacts ==
    ASSUME TypeInv, TwoOwners, NEW n \in Nodes, Insert(n)
    PROVE  /\ n = primary /\ todo[n] = {} /\ pc[n] = "insert" /\ fact[n] \in Facts
           /\ pc' = [pc EXCEPT ![n] = "put"] /\ todo' = [todo EXCEPT ![n] = owners \ {n}]
           /\ UNCHANGED <<owners, primary, fact, value, done>>
           /\ \A m \in owners : FactsOf(m)' = IF m = n THEN Append(FactsOf(n), fact[n])
                                                       ELSE FactsOf(m)
<1> USE DEF TypeInv, TypeOK, PutState, TwoOwners, cluster
<1>1. /\ n = primary /\ todo[n] = {} /\ pc[n] = "insert" /\ fact[n] \in Facts
      /\ pc' = [pc EXCEPT ![n] = "put"] /\ todo' = [todo EXCEPT ![n] = owners \ {n}]
      /\ fact' = fact /\ live' = [live EXCEPT ![n] = Append(@, fact[n])]
      /\ UNCHANGED <<owners, primary, fact, value, done>>
  BY ConstantsAssumption DEF Insert, Facts
<1>2. FactsOf(n)' = Append(FactsOf(n), fact[n])
  BY <1>1 DEF FactsOf
<1>3. ASSUME NEW m \in owners, m # n PROVE FactsOf(m)' = FactsOf(m)
  BY <1>1, <1>3, FactsKept DEF Insert
<1> QED
  BY <1>1, <1>2, <1>3

LEMMA MergeFacts ==
    ASSUME TypeInv, NullIsEmpty, NEW n \in Nodes, NEW m \in Nodes, MergeDelta(n, m)
    PROVE  /\ n = primary /\ pc[n] = "put" /\ m \in todo[n] /\ m # n /\ m \in owners
           /\ fact[n] \in Facts /\ todo' = [todo EXCEPT ![n] = @ \ {m}]
           /\ NullIsEmpty'
           /\ UNCHANGED <<owners, primary, fact, pc, live, done>>
           /\ \A k \in owners : FactsOf(k)' = IF k = m THEN Append(FactsOf(m), fact[n])
                                                       ELSE FactsOf(k)
<1> USE DEF TypeInv, TypeOK, PutState, cluster, saver
<1>1. /\ n = primary /\ pc[n] = "put" /\ m \in todo[n] /\ m # n /\ m \in owners
      /\ lastFact[n] = fact[n] /\ fact[n] \in Facts /\ pc[m] = "idle"
      /\ value' = [value EXCEPT ![m] = Merge(fact[n], m)] /\ todo' = [todo EXCEPT ![n] = @ \ {m}]
      /\ UNCHANGED <<owners, primary, fact, pc, live, done>>
  BY ConstantsAssumption DEF MergeDelta, Facts
<1>2. Merge(fact[n], m).kind = "serialized" /\ Copy(Merge(fact[n], m)) = Append(FactsOf(m), fact[n])
  BY <1>1, MergeAppends
<1>3. FactsOf(m)' = Append(FactsOf(m), fact[n])
  BY <1>1, <1>2 DEF FactsOf, Copy
<1>4. ASSUME NEW k \in owners, k # m PROVE FactsOf(k)' = FactsOf(k)
  BY <1>1, <1>4, FactsKept
<1>5. NullIsEmpty'
  BY <1>1, <1>2 DEF NullIsEmpty
<1> QED
  BY <1>1, <1>3, <1>4, <1>5

LEMMA CrashFacts ==
    ASSUME TypeInv, NEW n \in Nodes, Crash(n)
    PROVE  /\ owners' = owners \ {n} /\ primary' \in owners' /\ UNCHANGED done
           /\ primary # n => primary' = primary
           /\ \A m \in owners' : FactsOf(m)' = FactsOf(m)
           /\ \A m \in Nodes : m # n => /\ pc'[m] = pc[m] /\ fact'[m] = fact[m]
                                        /\ live'[m] = live[m] /\ todo'[m] = todo[m] \ {n}
<1> USE DEF TypeInv, TypeOK
<1>1. ASSUME NEW m \in Nodes, m # n
      PROVE  /\ FactsOf(m)' = FactsOf(m) /\ pc'[m] = pc[m] /\ fact'[m] = fact[m]
             /\ live'[m] = live[m] /\ todo'[m] = todo[m] \ {n}
  BY <1>1, FactsKept DEF Crash, Unlock
<1>2. owners' = owners \ {n} /\ primary' \in owners' /\ (primary # n => primary' = primary)
  BY DEF Crash
<1> QED
  BY <1>1, <1>2 DEF Crash

\* A rehash gives its owners the session of the primary owner.
LEMMA RehashFacts ==
    ASSUME TypeInv, Agreement, NEW p \in Nodes, NEW O \in SUBSET Nodes, Rehash(p, O),
           NEW n \in Nodes
    PROVE  FactsOf(n)' = IF n \in O THEN FactsOf(primary) ELSE <<>>
<1> USE DEF TypeInv, TypeOK, PutState, Agreement, saver
<1>1. /\ \A m \in Nodes : pc[m] = "idle" /\ pc'[m] = "idle" /\ todo[m] = {}
      /\ primary \in Nodes /\ live[primary] \in Seq(Facts)
  BY DEF Rehash, Quiet
<1>2. CASE n \in O \cap owners
  <2>1. FactsOf(n) = FactsOf(primary)
    BY <1>1, <1>2 DEF Ahead
  <2> QED BY <1>1, <1>2, <2>1, FactsKept DEF Rehash
<1>3. CASE n \in O \ owners
  <2>1. value'[n] = Transfer(primary)
    BY <1>3 DEF Rehash
  <2>2. CASE value[primary].kind = "live"
    <3>1. FactsOf(n)' = Copy(Serialized(live[primary], <<>>))
      BY <1>1, <2>1, <2>2 DEF FactsOf, Copy, Transfer, Wrap, Serialized, Value
    <3>2. FactsOf(primary) = live[primary]
      BY <2>2 DEF FactsOf
    <3> QED BY <1>1, <1>3, <3>1, <3>2, CopyOf
  <2>3. CASE value[primary].kind # "live"
    BY <1>1, <1>3, <2>1, <2>3 DEF FactsOf, Transfer
  <2> QED BY <2>2, <2>3
<1>4. CASE n \notin O
  <2>1. value'[n] = Null
    BY <1>4 DEF Rehash
  <2>2. FactsOf(n)' = Copy(Null)
    BY <1>1, <2>1 DEF FactsOf, Copy, Null, Value
  <2> QED BY <1>4, <2>2, CopyOf
<1> QED
  BY <1>2, <1>3, <1>4

----------------------------------------------------------------------------
(* The owners agree.                                                        *)

LEMMA NextNull == TypeInv /\ NullIsEmpty /\ [Next]_vars => NullIsEmpty'
<1> SUFFICES ASSUME TypeInv, NullIsEmpty, [Next]_vars PROVE NullIsEmpty'
  OBVIOUS
<1> USE DEF TypeInv, TypeOK, NullIsEmpty, sessions
<1>1. ASSUME NEW n \in Nodes, Build(n) PROVE NullIsEmpty'
  BY <1>1 DEF Build, MergeEmpty, HAKieSession, Serialized, Value
<1>2. ASSUME NEW n \in Nodes, Rebuild(n) PROVE NullIsEmpty'
  <2>1. value[n] \in Values /\ value' = [value EXCEPT ![n] = [value[n] EXCEPT !.buffer = <<>>]]
    BY <1>2 DEF Rebuild
  <2>2. [value[n] EXCEPT !.buffer = <<>>].kind = "serialized"
    BY <1>2, <2>1 DEF Rebuild, Values
  <2> QED BY <2>1, <2>2
<1>3. ASSUME NEW n \in Nodes, NEW m \in Nodes, MergeDelta(n, m) PROVE NullIsEmpty'
  BY <1>3, MergeFacts
<1>4. ASSUME NEW n \in Nodes, PutBack(n) PROVE NullIsEmpty'
  BY <1>4 DEF PutBack, HAKieSession, Value
<1>5. ASSUME NEW n \in Nodes, Crash(n) PROVE NullIsEmpty'
  BY <1>5 DEF Crash
<1>6. ASSUME NEW p \in Nodes, NEW O \in SUBSET Nodes, Rehash(p, O) PROVE NullIsEmpty'
  BY <1>6 DEF Rehash, Transfer, Wrap, Serialized, Value
<1>7. ASSUME UNCHANGED value PROVE NullIsEmpty'
  BY <1>7
<1> QED
  BY <1>1, <1>2, <1>3, <1>4, <1>5, <1>6, <1>7
  DEF Next, Save, PutFact, Lock, UseLive, Insert, Join, vars

LEMMA NextAgreement == TwoOwners /\ TypeInv /\ Agreement /\ [Next]_vars => Agreement'
<1> SUFFICES ASSUME TwoOwners, TypeInv, Agreement, [Next]_vars
             PROVE  AtMostTwo(owners)' /\ \A b \in owners' : Ahead(b)'
  BY NextNull DEF Agreement
<1> USE DEF TypeInv, TypeOK, PutState, Agreement
<1>0. \A n \in Nodes : n # primary => pc[n] = "idle" /\ todo[n] = {}
  OBVIOUS
<1>1. CASE Silent
  <2>1. todo'[primary] = todo[primary] /\ (todo[primary] # {} => fact'[primary] = fact[primary])
    BY <1>1, ConstantsAssumption
    DEF Silent, PutFact, Lock, Build, Rebuild, UseLive, PutBack, Join, Unlock, vars, saver
  <2> QED BY <1>1, <2>1, SilentFacts DEF Ahead
<1>2. ASSUME NEW n \in Nodes, Insert(n) PROVE AtMostTwo(owners)' /\ \A b \in owners' : Ahead(b)'
  <2>1. ASSUME NEW b \in owners PROVE Ahead(b)'
    <3>1. FactsOf(n) = FactsOf(b)
      BY <1>2, InsertFacts DEF Ahead
    <3> QED BY <1>2, <3>1, InsertFacts DEF Ahead
  <2> QED BY <1>2, <2>1, InsertFacts
<1>3. ASSUME NEW n \in Nodes, NEW m \in Nodes, MergeDelta(n, m)
      PROVE  AtMostTwo(owners)' /\ \A b \in owners' : Ahead(b)'
  <2>1. ASSUME NEW b \in owners PROVE Ahead(b)'
    <3>1. Ahead(b)
      OBVIOUS
    <3>2. /\ n = primary /\ m # n /\ m \in todo[n] /\ primary' = primary /\ fact' = fact
          /\ todo' = [todo EXCEPT ![n] = @ \ {m}]
          /\ \A k \in owners : FactsOf(k)' = IF k = m THEN Append(FactsOf(m), fact[n])
                                                      ELSE FactsOf(k)
      BY <1>3, MergeFacts
    <3> HIDE DEF TypeInv, TypeOK, PutState, Agreement
    <3>3. todo \in [Nodes -> SUBSET owners] /\ primary \in owners
      BY DEF TypeInv, TypeOK
    <3> QED BY <3>1, <3>2, <3>3 DEF Ahead
  <2> QED BY <1>3, <2>1, MergeFacts
<1>4. ASSUME NEW n \in Nodes, Crash(n) PROVE AtMostTwo(owners)' /\ \A b \in owners' : Ahead(b)'
  <2>1. ASSUME NEW b \in owners' PROVE Ahead(b)'
    <3>1. b \in owners /\ b # n /\ primary' \in owners /\ primary' # n
      BY <1>4, CrashFacts
    <3>2. CASE primary = n
      <4>1. b = primary' /\ todo[b] = {}
        BY <3>1, <3>2, <1>0 DEF AtMostTwo
      <4> QED BY <1>4, <4>1, <3>1, CrashFacts DEF Ahead
    <3>3. CASE primary # n
      <4>1. Ahead(b)
        BY <3>1
      <4> QED BY <1>4, <3>3, <4>1, <3>1, CrashFacts DEF Ahead
    <3> QED BY <3>2, <3>3
  <2> QED BY <1>4, <2>1, CrashFacts DEF AtMostTwo
<1>5. ASSUME NEW p \in Nodes, NEW O \in SUBSET Nodes, Rehash(p, O)
      PROVE  AtMostTwo(owners)' /\ \A b \in owners' : Ahead(b)'
  <2>1. \A n \in O : FactsOf(n)' = FactsOf(primary)
    BY <1>5, RehashFacts
  <2>2. AtMostTwo(O)
    BY <1>5, AtMostTwoOwners DEF Rehash
  <2>3. \A n \in Nodes : todo'[n] = {}
    BY <1>5 DEF Rehash, Quiet
  <2> QED BY <1>5, <2>1, <2>2, <2>3 DEF Rehash, Ahead
<1> QED
  BY <1>1, <1>2, <1>3, <1>4, <1>5 DEF Next, Save, Silent

\* While no fact is being inserted, the owners of a group have the same facts in
\* the same order, for any nodes, with crashes and take-overs in between.
THEOREM OwnersStayEqual == TwoOwners => (Spec => []OwnersAgree)
<1>1. TwoOwners /\ Init => TypeInv /\ Agreement
  BY InitTypeInv, InitAgreement
<1>2. TwoOwners /\ TypeInv /\ Agreement /\ [Next]_vars => (TypeInv /\ Agreement)'
  BY NextTypeInv, NextAgreement
<1>3. TypeInv /\ Agreement => OwnersAgree
  BY DEF TypeInv, TypeOK, PutState, Agreement, Ahead, OwnersAgree
<1> QED
  <2> SUFFICES ASSUME TwoOwners PROVE Spec => []OwnersAgree
    OBVIOUS
  <2>1. Init => TypeInv /\ Agreement
    BY <1>1
  <2>2. TypeInv /\ Agreement /\ [Next]_vars => (TypeInv /\ Agreement)'
    BY <1>2
  <2> QED BY <2>1, <2>2, <1>3, PTL DEF Spec

----------------------------------------------------------------------------
(* A fact whose put has returned is in the session of the primary owner and *)
(* so, with Ahead, of every owner: the put has no owner left to reach.      *)

Kept(n) == Range(FactsOf(n))

Durable ==
    /\ \A n \in Nodes : pc[n] = "put" => fact[n] \in Range(live[n])
    /\ \A n \in owners : done \subseteq Kept(n)

LEMMA InitDurable == Init => Durable
  BY DEF Init, Durable

\* Appending a fact leaves what a sequence has.
LEMMA AppendKeeps ==
    ASSUME NEW s \in Seq(Facts), NEW f \in Facts
    PROVE  Range(Append(s, f)) = Range(s) \cup {f}
  BY AppendOnce

LEMMA NextDurable == TwoOwners /\ TypeInv /\ Agreement /\ Durable /\ [Next]_vars => Durable'
<1> SUFFICES ASSUME TwoOwners, TypeInv, Agreement, Durable, [Next]_vars PROVE Durable'
  OBVIOUS
<1> USE DEF TypeInv, TypeOK, PutState, Durable
<1>0. \A n \in Nodes : n # primary => pc[n] = "idle" /\ todo[n] = {}
  OBVIOUS
<1>1. CASE Silent /\ UNCHANGED done
  <2>1. \A n \in Nodes : pc'[n] = "put" => pc[n] = "put" /\ live'[n] = live[n] /\ fact'[n] = fact[n]
    <3>1. ASSUME NEW k \in Nodes, \/ (\E f \in Facts : Lock(k, f)) \/ PutBack(k) \/ Build(k)
                                  \/ Rebuild(k) \/ UseLive(k)
          PROVE  pc'[k] # "put" /\ \A m \in Nodes : m # k =>
                    pc'[m] = pc[m] /\ live'[m] = live[m] /\ fact'[m] = fact[m]
      BY <3>1 DEF Lock, Build, Rebuild, UseLive, PutBack, Unlock, saver, sessions, TwoOwners
    <3>2. ASSUME (\E f \in Facts : PutFact(f)) \/ (\E k \in Nodes : Join(k)) \/ UNCHANGED vars
          PROVE  UNCHANGED <<pc, live, fact>>
      BY <3>2 DEF PutFact, Join, vars, saver, sessions
    <3> QED BY <1>1, <3>1, <3>2 DEF Silent
  <2>2. \A n \in owners' : done' \subseteq Kept(n)'
    BY <1>1, SilentFacts DEF Kept
  <2> QED BY <2>1, <2>2
<1>2. ASSUME NEW n \in Nodes, PutBack(n) PROVE Durable'
  <2>1. n = primary /\ pc[n] = "put" /\ todo[n] = {} /\ done' = done \cup {fact[n]}
    BY <1>2 DEF PutBack
  <2>2. \A m \in Nodes : pc'[m] = "idle"
    BY <1>2, <2>1, <1>0 DEF PutBack, Unlock
  <2>3. ASSUME NEW m \in owners PROVE done' \subseteq Kept(m)
    <3>1. FactsOf(m) = FactsOf(n) /\ FactsOf(n) = live[n]
      BY <2>1 DEF Agreement, Ahead, FactsOf
    <3> QED BY <2>1, <3>1 DEF Kept
  <2>4. owners' = owners /\ \A m \in owners : FactsOf(m)' = FactsOf(m)
    BY <1>2, SilentFacts DEF Silent
  <2> QED BY <2>2, <2>3, <2>4 DEF Kept
<1>3. ASSUME NEW n \in Nodes, Insert(n) PROVE Durable'
  <2>1. fact[n] \in Facts /\ live[n] \in Seq(Facts) /\ live' = [live EXCEPT ![n] = Append(@, fact[n])]
    BY <1>3, InsertFacts DEF Insert
  <2>2. fact[n] \in Range(live'[n])
    BY <2>1, AppendKeeps
  <2>3. \A m \in Nodes : pc'[m] = "put" => fact'[m] \in Range(live'[m])
    BY <1>3, <2>1, <2>2, <1>0, InsertFacts
  <2>4. ASSUME NEW m \in owners PROVE Kept(m) \subseteq Kept(m)'
    <3>1. FactsOf(n) \in Seq(Facts)
      BY FactsType
    <3>2. Range(Append(FactsOf(n), fact[n])) = Range(FactsOf(n)) \cup {fact[n]}
      BY <2>1, <3>1, AppendKeeps
    <3>3. FactsOf(m)' = IF m = n THEN Append(FactsOf(n), fact[n]) ELSE FactsOf(m)
      BY <1>3, InsertFacts
    <3> QED BY <3>2, <3>3 DEF Kept
  <2> QED BY <1>3, <2>3, <2>4, InsertFacts
<1>4. ASSUME NEW n \in Nodes, NEW m \in Nodes, MergeDelta(n, m) PROVE Durable'
  <2>1. ASSUME NEW k \in owners PROVE Kept(k) \subseteq Kept(k)'
    <3>1. FactsOf(m) \in Seq(Facts) /\ fact[n] \in Facts
      BY <1>4, FactsType, MergeFacts DEF Agreement
    <3>2. Range(Append(FactsOf(m), fact[n])) = Range(FactsOf(m)) \cup {fact[n]}
      BY <3>1, AppendKeeps
    <3>3. FactsOf(k)' = IF k = m THEN Append(FactsOf(m), fact[n]) ELSE FactsOf(k)
      BY <1>4, MergeFacts DEF Agreement
    <3> QED BY <3>2, <3>3 DEF Kept
  <2>2. UNCHANGED <<owners, done, pc, fact, live>>
    BY <1>4, MergeFacts DEF Agreement
  <2> QED BY <2>1, <2>2
<1>5. ASSUME NEW n \in Nodes, Crash(n) PROVE Durable'
  <2>1. \A m \in owners' : Kept(m)' = Kept(m)
    BY <1>5, CrashFacts DEF Kept
  <2>2. pc'[n] = "idle"
    BY <1>5 DEF Crash, Unlock
  <2>3. owners' \subseteq owners /\ done' = done
    BY <1>5, CrashFacts
  <2>4. \A m \in Nodes : m # n => pc'[m] = pc[m] /\ fact'[m] = fact[m] /\ live'[m] = live[m]
    BY <1>5, CrashFacts
  <2>5. \A m \in Nodes : pc'[m] = "put" => fact'[m] \in Range(live'[m])
    BY <2>2, <2>4
  <2>6. \A m \in owners' : done' \subseteq Kept(m)'
    BY <2>1, <2>3
  <2> QED BY <2>5, <2>6
<1>6. ASSUME NEW p \in Nodes, NEW O \in SUBSET Nodes, Rehash(p, O) PROVE Durable'
  <2>1. \A n \in O : Kept(n)' = Kept(primary)
    BY <1>6, RehashFacts DEF Kept
  <2> QED BY <1>6, <2>1 DEF Rehash, Quiet, saver
<1>7. Silent => UNCHANGED done \/ \E n \in Nodes : PutBack(n)
  BY DEF Silent, PutFact, Lock, Build, Rebuild, UseLive, Join, vars
<1> QED
  BY <1>1, <1>2, <1>3, <1>4, <1>5, <1>6, <1>7 DEF Next, Save, Silent

\* A fact whose put has returned is in the session of every owner, whatever
\* crashes and take-overs follow, for any nodes and facts.
THEOREM DoneStays == TwoOwners => (Spec => []DoneSurvive)
<1> SUFFICES ASSUME TwoOwners PROVE Spec => []DoneSurvive
  OBVIOUS
<1>1. Init => TypeInv /\ Agreement /\ Durable
  BY InitTypeInv, InitAgreement, InitDurable
<1>2. TypeInv /\ Agreement /\ Durable /\ [Next]_vars => (TypeInv /\ Agreement /\ Durable)'
  BY NextTypeInv, NextAgreement, NextDurable
<1>3. TypeInv /\ Durable => DoneSurvive
  <2> SUFFICES ASSUME TypeInv, Durable, NEW n \in owners, NEW f \in done
               PROVE  \E i \in DOMAIN FactsOf(n) : FactsOf(n)[i] = f
    BY DEF DoneSurvive
  <2>1. f \in Range(FactsOf(n))
    BY DEF Durable, Kept
  <2> QED BY <2>1 DEF Range
<1> QED BY <1>1, <1>2, <1>3, PTL DEF Spec

----------------------------------------------------------------------------
(* The refinement.  The log is the session of the backup, which the delta  *)
(* reaches last, or of the only owner there is.  It grows when the delta is *)
(* merged, when the only owner inserts, and when a backup crashes that the  *)
(* delta had not reached.                                                   *)

LogShape ==
    /\ owners = {primary} => log = FactsOf(primary)
    /\ \A b \in owners : b # primary => log = FactsOf(b)

LEMMA LogIsShortest ==
    ASSUME TypeInv, Agreement, NEW b \in owners,
           \A m \in owners : Len(FactsOf(b)) <= Len(FactsOf(m))
    PROVE  log = FactsOf(b)
<1> DEFINE Shortest(n) == \A m \in owners : Len(FactsOf(n)) <= Len(FactsOf(m))
           least == CHOOSE n \in owners : Shortest(n)
<1>1. log = FactsOf(least)
  BY DEF log
<1>2. least \in owners /\ Shortest(least)
  <2>1. \E n \in owners : Shortest(n)
    OBVIOUS
  <2> QED BY <2>1
<1> HIDE DEF least
<1>3. primary \in owners /\ owners \subseteq Nodes
  BY DEF TypeInv, TypeOK
<1>4. /\ \A n \in owners : FactsOf(n) \in Seq(Facts) /\ Len(FactsOf(n)) \in Nat
      /\ primary \in Nodes /\ (todo[primary] # {} => fact[primary] \in Facts)
  <2>1. \A n \in owners : FactsOf(n) \in Seq(Facts)
    BY <1>3, FactsType DEF TypeInv
  <2>2. todo[primary] # {} => fact[primary] \in Facts
    BY ConstantsAssumption DEF TypeInv, TypeOK, PutState, Facts
  <2> QED BY <1>3, <2>1, <2>2
<1>5. Len(FactsOf(least)) = Len(FactsOf(b))
  BY <1>2, <1>4
<1>6. \A n \in owners : Len(FactsOf(n)) = Len(FactsOf(primary)) => FactsOf(n) = FactsOf(primary)
  <2> SUFFICES ASSUME NEW n \in owners, Len(FactsOf(n)) = Len(FactsOf(primary))
               PROVE  FactsOf(n) = FactsOf(primary)
    OBVIOUS
  <2>1. CASE n \in todo[primary]
    <3>1. FactsOf(primary) = Append(FactsOf(n), fact[primary]) /\ fact[primary] \in Facts
      BY <1>4, <2>1 DEF Agreement, Ahead
    <3>2. Len(FactsOf(primary)) = Len(FactsOf(n)) + 1
      BY <1>4, <3>1
    <3> QED BY <1>4, <3>2
  <2>2. CASE n \notin todo[primary]
    BY <2>2 DEF Agreement, Ahead
  <2> QED BY <2>1, <2>2
<1>7. least = b \/ least = primary \/ b = primary
  BY <1>2, <1>3 DEF Agreement, AtMostTwo
<1> QED
  BY <1>1, <1>2, <1>5, <1>6, <1>7

LEMMA LogShapeHolds == TypeInv /\ Agreement => LogShape
<1> SUFFICES ASSUME TypeInv, Agreement PROVE LogShape
  OBVIOUS
<1>1. primary \in owners /\ owners \subseteq Nodes /\ (todo[primary] # {} => fact[primary] \in Facts)
  BY ConstantsAssumption DEF TypeInv, TypeOK, PutState, Facts
<1>2. \A n \in owners : FactsOf(n) \in Seq(Facts) /\ Len(FactsOf(n)) \in Nat
  <2>1. \A n \in owners : FactsOf(n) \in Seq(Facts)
    BY <1>1, FactsType DEF TypeInv
  <2> QED BY <2>1
<1>3. ASSUME owners = {primary} PROVE log = FactsOf(primary)
  BY <1>1, <1>2, <1>3, LogIsShortest
<1>4. ASSUME NEW b \in owners, b # primary PROVE log = FactsOf(b)
  <2>1. Len(FactsOf(b)) <= Len(FactsOf(primary))
    <3>1. CASE b \in todo[primary]
      <4>1. FactsOf(primary) = Append(FactsOf(b), fact[primary]) /\ fact[primary] \in Facts
        BY <1>1, <3>1 DEF Agreement, Ahead
      <4>2. Len(FactsOf(primary)) = Len(FactsOf(b)) + 1
        BY <1>2, <4>1
      <4> QED BY <1>2, <4>2
    <3>2. CASE b \notin todo[primary]
      BY <1>2, <3>2 DEF Agreement, Ahead
    <3> QED BY <3>1, <3>2
  <2>2. \A m \in owners : m = b \/ m = primary
    BY <1>1, <1>4 DEF Agreement, AtMostTwo
  <2>3. \A m \in owners : Len(FactsOf(b)) <= Len(FactsOf(m))
    BY <1>2, <2>1, <2>2
  <2> QED BY <2>3, LogIsShortest
<1> QED
  BY <1>3, <1>4 DEF LogShape

\* A fact that is appended to the log is new to it if the log stays without
\* repetition.
LEMMA AppendIsInsert ==
    ASSUME NEW f \in Facts, log \in Seq(Facts), log' = Append(log, f), IsInjective(log')
    PROVE  Promise!Next
<1>1. \A i \in DOMAIN log : log[i] # f
  <2> SUFFICES ASSUME NEW i \in DOMAIN log, log[i] = f PROVE FALSE
    OBVIOUS
  <2>1. /\ i \in 1..Len(log) /\ Len(log) \in Nat /\ DOMAIN log' = 1..(Len(log) + 1)
        /\ log'[i] = f /\ log'[Len(log) + 1] = f
    OBVIOUS
  <2>2. i \in DOMAIN log' /\ Len(log) + 1 \in DOMAIN log' /\ i # Len(log) + 1
    BY <2>1
  <2> QED BY <2>1, <2>2 DEF IsInjective
<1> QED
  BY <1>1 DEF Promise!Next, Promise!Insert

LEMMA NextLog ==
    TwoOwners /\ TypeInv /\ Agreement /\ FreshInv /\ [Next]_vars => [Promise!Next]_log
<1> SUFFICES ASSUME TwoOwners, TypeInv, Agreement, FreshInv, [Next]_vars
             PROVE  log' = log \/ Promise!Next
  OBVIOUS
<1>0. /\ TypeInv' /\ Agreement' /\ FreshInv' /\ LogShape
  BY NextTypeInv, NextAgreement, NextFresh, LogShapeHolds
<1>1. LogShape'
  <2>1. (TypeInv /\ Agreement => LogShape)'
    BY LogShapeHolds, PTL
  <2> QED BY <1>0, <2>1
<1>2. NoFactTwice'
  <2>1. (TypeInv /\ FreshInv => NoFactTwice)'
    BY NoFactTwiceHolds, PTL
  <2> QED BY <1>0, <2>1
<1>3. /\ primary \in owners /\ owners \subseteq Nodes /\ primary' \in owners'
      /\ (todo[primary] # {} => fact[primary] \in Facts)
      /\ \A a, b, c \in owners : a = b \/ a = c \/ b = c
  <2>1. primary \in owners /\ owners \subseteq Nodes
    BY DEF TypeInv, TypeOK
  <2>2. primary' \in owners'
    BY <1>0 DEF TypeInv, TypeOK
  <2>3. todo[primary] # {} => fact[primary] \in Facts
    BY <2>1, ConstantsAssumption DEF TypeInv, TypeOK, PutState, Facts
  <2>4. \A a, b, c \in owners : a = b \/ a = c \/ b = c
    BY DEF Agreement, AtMostTwo
  <2> QED BY <2>1, <2>2, <2>3, <2>4
\* The log is the session of an owner, before and after.
<1>4. PICK a \in owners : /\ log = FactsOf(a)
                          /\ a = primary => owners = {primary}
  BY <1>0, <1>3 DEF LogShape
<1>5. PICK b \in owners' : /\ log' = FactsOf(b)'
                           /\ b = primary' => owners' = {primary'}
  BY <1>1, <1>3 DEF LogShape
<1>6. log \in Seq(Facts) /\ IsInjective(log')
  <2>1. log \in Seq(Facts)
    BY <1>3, <1>4, FactsType DEF TypeInv
  <2>2. IsInjective(FactsOf(b)')
    BY <1>2, <1>5 DEF NoFactTwice, IsInjective
  <2> QED BY <1>5, <2>1, <2>2
<1>7. CASE Silent
  <2>1. owners' = owners /\ primary' = primary /\ FactsOf(a)' = FactsOf(a)
    BY <1>7, SilentFacts
  <2>2. a = b
    BY <1>3, <1>4, <1>5, <2>1
  <2> QED BY <1>4, <1>5, <2>1, <2>2
<1>8. ASSUME NEW n \in Nodes, Insert(n) PROVE log' = log \/ Promise!Next
  <2>1. /\ owners' = owners /\ primary' = primary /\ n = primary /\ fact[n] \in Facts
        /\ FactsOf(a)' = IF a = n THEN Append(FactsOf(n), fact[n]) ELSE FactsOf(a)
    BY <1>8, InsertFacts
  <2>2. a = b
    BY <1>3, <1>4, <1>5, <2>1
  <2>3. log' = log \/ log' = Append(log, fact[n])
    BY <1>4, <1>5, <2>1, <2>2
  <2> QED BY <1>6, <2>1, <2>3, AppendIsInsert
<1>9. ASSUME NEW n \in Nodes, NEW m \in Nodes, MergeDelta(n, m) PROVE log' = log \/ Promise!Next
  <2>1. /\ owners' = owners /\ primary' = primary /\ n = primary /\ fact[n] \in Facts
        /\ FactsOf(a)' = IF a = m THEN Append(FactsOf(m), fact[n]) ELSE FactsOf(a)
    BY <1>9, MergeFacts DEF Agreement
  <2>2. a = b
    BY <1>3, <1>4, <1>5, <2>1
  <2>3. log' = log \/ log' = Append(log, fact[n])
    BY <1>4, <1>5, <2>1, <2>2
  <2> QED BY <1>6, <2>1, <2>3, AppendIsInsert
<1>10. ASSUME NEW n \in Nodes, Crash(n) PROVE log' = log \/ Promise!Next
  <2>1. /\ owners' = owners \ {n} /\ FactsOf(b)' = FactsOf(b)
        /\ primary # n => primary' = primary
    BY <1>5, <1>10, CrashFacts
  <2>2. CASE a = b
    BY <1>4, <1>5, <2>1, <2>2
  <2>3. CASE a # b
    <3>1. b = primary /\ b \in owners /\ a # primary
      BY <1>3, <1>4, <1>5, <2>1, <2>3
    <3>2. log' = log \/ (log' = Append(log, fact[primary]) /\ fact[primary] \in Facts)
      <4>1. Ahead(a)
        BY <1>4 DEF Agreement
      <4> QED BY <1>3, <1>4, <1>5, <2>1, <3>1, <4>1 DEF Ahead
    <3> QED BY <1>6, <3>2, AppendIsInsert
  <2> QED BY <2>2, <2>3
<1>11. ASSUME NEW p \in Nodes, NEW O \in SUBSET Nodes, Rehash(p, O) PROVE log' = log \/ Promise!Next
  <2>1. b \in O /\ todo[primary] = {}
    BY <1>3, <1>5, <1>11 DEF Rehash, Quiet, TypeInv, PutState
  <2>2. FactsOf(b)' = FactsOf(primary)
    BY <1>11, <2>1, RehashFacts
  <2>3. FactsOf(primary) = FactsOf(a)
    BY <1>4, <2>1 DEF Agreement, Ahead
  <2> QED BY <1>4, <1>5, <2>2, <2>3
<1> QED
  BY <1>7, <1>8, <1>9, <1>10, <1>11 DEF Next, Save, Silent

LEMMA InitLog == TwoOwners /\ Init => Promise!Init
<1> SUFFICES ASSUME TwoOwners, Init PROVE log = <<>>
  BY DEF Promise!Init
<1>1. TypeInv /\ Agreement
  BY InitTypeInv, InitAgreement
<1>2. LogShape /\ primary \in owners
  BY <1>1, LogShapeHolds DEF TypeInv, TypeOK
<1>3. \A n \in Nodes : FactsOf(n) = <<>>
  BY CopyOf DEF Init, FactsOf, Copy, Null, Value
<1> QED
  BY <1>1, <1>2, <1>3 DEF LogShape, TypeInv, TypeOK

\* The owners of a group implement EventLog: what they keep together is a log
\* that only grows, by one new fact at a time, however nodes crash, join and
\* take over, for any nodes and facts.
THEOREM LogIsKept == TwoOwners => (Spec => LogKept)
<1> SUFFICES ASSUME TwoOwners PROVE Spec => LogKept
  OBVIOUS
<1>1. Init => TypeInv /\ Agreement /\ FreshInv /\ Promise!Init
  BY InitTypeInv, InitAgreement, InitFresh, InitLog
<1>2. TypeInv /\ Agreement /\ FreshInv /\ [Next]_vars
         => (TypeInv /\ Agreement /\ FreshInv)' /\ [Promise!Next]_log
  BY NextTypeInv, NextAgreement, NextFresh, NextLog
<1> QED
  BY <1>1, <1>2, PTL DEF Spec, LogKept, Promise!Spec
=============================================================================
