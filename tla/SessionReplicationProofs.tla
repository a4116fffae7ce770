---------------------- MODULE SessionReplicationProofs ----------------------
(***************************************************************************)
(* What is proved of SessionReplication for any nodes, owners and facts,   *)
(* with crashes and rules that throw: TypeOK, that no owner ever holds a   *)
(* fact twice, and that no two owners hold two facts in opposite orders.   *)
(***************************************************************************)
EXTENDS SessionReplication, SequenceTheorems, TLAPS

\* A put is of the fact being inserted, and has only other owners to reach.
PutState ==
    \A n \in Nodes : /\ pc[n] # "put" => todo[n] = {}
                     /\ pc[n] = "put" => lastFact[n] = fact[n] /\ n \notin todo[n]

TypeInv == TypeOK /\ PutState

LEMMA ValueTypes ==
    /\ Null \in Values /\ HAKieSession \in Values /\ Serialized(<<>>, <<>>) \in Values
    /\ \A f \in Facts : \A v \in Values : Add(f, v) \in Values
    /\ \A v \in Values : [v EXCEPT !.buffer = <<>>] \in Values
<1>1. Null \in Values /\ HAKieSession \in Values /\ Serialized(<<>>, <<>>) \in Values
  BY DEF Values, Value, Null, HAKieSession, Serialized
<1>2. ASSUME NEW v \in Values, NEW b \in Seq(Facts) PROVE [v EXCEPT !.buffer = b] \in Values
  BY DEF Values
<1>3. ASSUME NEW v \in Values, NEW f \in Facts PROVE Append(v.buffer, f) \in Seq(Facts)
  BY DEF Values
<1>4. ASSUME NEW f \in Facts, NEW v \in Values PROVE Add(f, v) \in Values
  <2>1. Add(f, v) = [v EXCEPT !.buffer = Append(v.buffer, f)]
    BY DEF Add
  <2> QED BY <1>2, <1>3, <2>1
<1>5. <<>> \in Seq(Facts)
  OBVIOUS
<1> QED
  BY <1>1, <1>2, <1>4, <1>5

LEMMA WrapType ==
    ASSUME TypeOK, NEW m \in Nodes
    PROVE  Wrap(m) \in Values /\ Transfer(m) \in Values /\ MergeEmpty(m) \in Values
<1>1. live[m] \in Seq(Facts) /\ value[m] \in Values
  BY DEF TypeOK
<1>2. Wrap(m) \in Values
  BY <1>1 DEF Values, Wrap, Value, Serialized
<1> QED
  BY <1>1, <1>2, ValueTypes DEF Transfer, MergeEmpty

LEMMA MergeType ==
    ASSUME TypeOK, NEW m \in Nodes, NEW f \in Facts
    PROVE  Merge(f, m) \in Values
<1>1. value[m] \in Values /\ value[m].kind \in {"null", "live", "serialized"}
  BY DEF TypeOK, Values
<1> QED
  BY <1>1, ValueTypes, WrapType DEF Merge

LEMMA InitTypeInv == Init => TypeInv
  BY ValueTypes DEF Init, TypeInv, TypeOK, PutState

LEMMA NextTypeInv == TypeInv /\ [Next]_vars => TypeInv'
<1> SUFFICES ASSUME TypeInv, [Next]_vars PROVE TypeInv'
  OBVIOUS
<1> USE ConstantsAssumption DEF TypeInv, TypeOK, PutState, cluster, saver, sessions
<1>1. ASSUME NEW f \in Facts, PutFact(f) PROVE TypeInv'
  BY <1>1 DEF PutFact, EventReceived
<1>2. ASSUME NEW n \in Nodes, NEW f \in Facts, Lock(n, f) PROVE TypeInv'
  BY <1>2 DEF Lock, Facts
<1>3. ASSUME NEW n \in Nodes, Build(n) PROVE TypeInv'
  <2>1. value' \in [Nodes -> Values] /\ \A m \in Nodes : value'[m] # Null => m \in owners
    BY <1>3, ValueTypes, WrapType DEF Build
  <2> QED BY <1>3, <2>1 DEF Build
<1>4. ASSUME NEW n \in Nodes, Rebuild(n) PROVE TypeInv'
  <2>1. value[n] # Null /\ n \in owners
    BY <1>4 DEF Rebuild, Null, Value
  <2>2. value' \in [Nodes -> Values] /\ \A m \in Nodes : value'[m] # Null => m \in owners
    BY <1>4, <2>1, ValueTypes DEF Rebuild
  <2>3. value[n].image \o value[n].buffer \in Seq(Facts)
    BY ConcatProperties DEF Values
  <2>4. CASE /\ live' = [live EXCEPT ![n] = value[n].image \o value[n].buffer]
             /\ lastFact' = [lastFact EXCEPT ![n] = NoFact]
             /\ pc' = [pc EXCEPT ![n] = "insert"]
             /\ UNCHANGED fact
    BY <1>4, <2>2, <2>3, <2>4 DEF Rebuild
  <2>5. CASE Unlock(n) /\ UNCHANGED <<live, lastFact>>
    BY <1>4, <2>2, <2>5 DEF Rebuild, Unlock
  <2> QED BY <1>4, <2>4, <2>5 DEF Rebuild
<1>5. ASSUME NEW n \in Nodes, UseLive(n) PROVE TypeInv'
  BY <1>5 DEF UseLive
<1>6. ASSUME NEW n \in Nodes, Insert(n) PROVE TypeInv'
  <2>1. fact[n] \in Facts
    BY <1>6 DEF Insert
  <2>2. live' \in [Nodes -> Seq(Facts)] /\ lastFact' \in [Nodes -> stored' \cup {NoFact}]
    BY <1>6, <2>1 DEF Insert
  <2>3. CASE /\ pc' = [pc EXCEPT ![n] = "put"]
             /\ todo' = [todo EXCEPT ![n] = owners \ {n}]
             /\ UNCHANGED fact
    BY <1>6, <2>2, <2>3 DEF Insert
  <2>4. CASE Unlock(n) /\ UNCHANGED todo
    BY <1>6, <2>2, <2>4 DEF Insert, Unlock
  <2> QED BY <1>6, <2>3, <2>4 DEF Insert
<1>7. ASSUME NEW n \in Nodes, NEW m \in Nodes, MergeDelta(n, m) PROVE TypeInv'
  <2>1. lastFact[n] \in Facts
    BY <1>7 DEF MergeDelta
  <2>2. Merge(lastFact[n], m) \in Values
    BY <2>1, MergeType
  <2>3. value' \in [Nodes -> Values] /\ \A k \in Nodes : value'[k] # Null => k \in owners
    BY <1>7, <2>2 DEF MergeDelta
  <2> QED BY <1>7, <2>3 DEF MergeDelta
<1>8. ASSUME NEW n \in Nodes, PutBack(n) PROVE TypeInv'
  <2>1. n = primary /\ fact[n] \in stored
    BY <1>8 DEF PutBack
  <2>2. value' \in [Nodes -> Values] /\ \A k \in Nodes : value'[k] # Null => k \in owners
    BY <1>8, <2>1, ValueTypes DEF PutBack
  <2> QED BY <1>8, <2>1, <2>2 DEF PutBack, Unlock
<1>9. ASSUME NEW n \in Nodes, Crash(n) PROVE TypeInv'
  <2>1. value' \in [Nodes -> Values] /\ \A k \in Nodes : value'[k] # Null => k \in owners'
    BY <1>9, ValueTypes DEF Crash
  <2>2. owners' \subseteq up' /\ primary' \in owners' /\ live' \in [Nodes -> Seq(Facts)]
    BY <1>9 DEF Crash
  <2>3. todo' \in [Nodes -> SUBSET owners']
    BY <1>9 DEF Crash
  <2>4. \A k \in Nodes : pc'[k] # "idle" \/ waiting'[k] # {} => k = primary'
    BY <1>9 DEF Crash, Unlock
  <2>5. waiting' \in [Nodes -> SUBSET stored'] /\ fact' \in [Nodes -> stored' \cup {NoFact}]
        /\ pc' \in [Nodes -> {"idle", "get", "insert", "put"}]
        /\ lastFact' \in [Nodes -> stored' \cup {NoFact}]
    BY <1>9 DEF Crash, Unlock
  <2>6. PutState'
    BY <1>9 DEF Crash, Unlock
  <2> QED BY <1>9, <2>1, <2>2, <2>3, <2>4, <2>5, <2>6 DEF Crash, Unlock
<1>10. ASSUME NEW n \in Nodes, Join(n) PROVE TypeInv'
  BY <1>10 DEF Join
<1>11. ASSUME NEW p \in Nodes, NEW O \in SUBSET Nodes, Rehash(p, O) PROVE TypeInv'
  <2>1. value' \in [Nodes -> Values] /\ \A m \in Nodes : value'[m] # Null => m \in O
    BY <1>11, ValueTypes, WrapType DEF Rehash
  <2>2. \A n \in Nodes : pc[n] = "idle" /\ waiting[n] = {} /\ todo[n] = {}
    BY <1>11 DEF Rehash, Quiet
  <2>3. todo' \in [Nodes -> SUBSET owners'] /\ lastFact' \in [Nodes -> stored' \cup {NoFact}]
    BY <1>11, <2>2 DEF Rehash
  <2>4. owners' \subseteq up' /\ primary' \in owners' /\ live' \in [Nodes -> Seq(Facts)]
    BY <1>11 DEF Rehash
  <2> QED BY <1>11, <2>1, <2>2, <2>3, <2>4 DEF Rehash
<1>12. CASE UNCHANGED vars
  BY <1>12 DEF vars
<1> QED
  BY <1>1, <1>2, <1>3, <1>4, <1>5, <1>6, <1>7, <1>8, <1>9, <1>10, <1>11, <1>12 DEF Next, Save

\* TypeOK holds with any number of nodes and owners: however nodes crash and
\* take over, only the primary owner inserts and only owners keep the session.
THEOREM ReplicationTypes == Spec => []TypeOK
<1>1. TypeInv => TypeOK
  BY DEF TypeInv
<1> QED
  BY <1>1, InitTypeInv, NextTypeInv, PTL DEF Spec

----------------------------------------------------------------------------
(* No fact twice.  A fact that is still to be inserted is in no session and *)
(* in no copy; one that is being put is in no copy that its delta has still *)
(* to reach, as each owner is sent the delta once.                          *)

InValue(v) == Range(v.image) \cup Range(v.buffer)
Held(m)    == InValue(value[m]) \cup Range(live[m])

\* No fact twice in a value of the cache.
Single(v) ==
    /\ IsInjective(v.image) /\ IsInjective(v.buffer)
    /\ Range(v.image) \cap Range(v.buffer) = {}

Fresh ==
    /\ \A m \in Nodes : Held(m) \subseteq stored
    /\ \A m, n \in Nodes : Held(m) \cap waiting[n] = {}
    /\ \A n, m \in Nodes :
          pc[n] \in {"get", "insert"} \/ m \in todo[n] => fact[n] \notin Held(m)
    /\ \A n \in Nodes : fact[n] \notin waiting[n]

Once == \A m \in Nodes : Single(value[m]) /\ IsInjective(live[m])

FreshInv == Fresh /\ Once

LEMMA EmptyOnce == Range(<<>>) = {} /\ IsInjective(<<>>)
  BY DEF Range, IsInjective

LEMMA AppendOnce ==
    ASSUME NEW S, NEW s \in Seq(S), NEW f \in S
    PROVE  /\ Range(Append(s, f)) = Range(s) \cup {f}
           /\ IsInjective(s) /\ f \notin Range(s) => IsInjective(Append(s, f))
<1>1. /\ DOMAIN Append(s, f) = 1..Len(s) + 1
      /\ \A i \in 1..Len(s) : Append(s, f)[i] = s[i]
      /\ Append(s, f)[Len(s) + 1] = f
      /\ DOMAIN s = 1..Len(s) /\ Len(s) \in Nat
  OBVIOUS
<1>2. Range(Append(s, f)) = Range(s) \cup {f}
  BY <1>1 DEF Range
<1>3. ASSUME IsInjective(s), f \notin Range(s) PROVE IsInjective(Append(s, f))
  BY <1>1, <1>3 DEF Range, IsInjective
<1> QED
  BY <1>2, <1>3

LEMMA ConcatOnce ==
    ASSUME NEW S, NEW s \in Seq(S), NEW t \in Seq(S),
           IsInjective(s), IsInjective(t), Range(s) \cap Range(t) = {}
    PROVE  IsInjective(s \o t)
<1>1. /\ DOMAIN (s \o t) = 1..Len(s) + Len(t)
      /\ \A i \in 1..Len(s) : (s \o t)[i] = s[i]
      /\ \A i \in Len(s) + 1..Len(s) + Len(t) : (s \o t)[i] = t[i - Len(s)]
      /\ DOMAIN s = 1..Len(s) /\ DOMAIN t = 1..Len(t) /\ Len(s) \in Nat /\ Len(t) \in Nat
  OBVIOUS
<1>2. SUFFICES ASSUME NEW i \in 1..Len(s) + Len(t), NEW j \in 1..Len(s) + Len(t),
                      (s \o t)[i] = (s \o t)[j]
               PROVE  i = j
  BY <1>1 DEF IsInjective
<1>3. CASE i <= Len(s) /\ j <= Len(s)
  BY <1>1, <1>2, <1>3 DEF IsInjective
<1>4. CASE i > Len(s) /\ j > Len(s)
  <2>1. i - Len(s) \in 1..Len(t) /\ j - Len(s) \in 1..Len(t) /\ t[i - Len(s)] = t[j - Len(s)]
    BY <1>1, <1>2, <1>4
  <2>2. i - Len(s) = j - Len(s)
    BY <1>1, <2>1 DEF IsInjective
  <2> QED BY <1>1, <2>2
<1>5. CASE i <= Len(s) /\ j > Len(s)
  <2>1. s[i] \in Range(s) /\ t[j - Len(s)] \in Range(t) /\ s[i] = t[j - Len(s)]
    BY <1>1, <1>2, <1>5 DEF Range
  <2> QED BY <2>1
<1>6. CASE i > Len(s) /\ j <= Len(s)
  <2>1. s[j] \in Range(s) /\ t[i - Len(s)] \in Range(t) /\ s[j] = t[i - Len(s)]
    BY <1>1, <1>2, <1>6 DEF Range
  <2> QED BY <2>1
<1> QED
  BY <1>1, <1>3, <1>4, <1>5, <1>6

\* The values that hold no fact.
LEMMA EmptyValues ==
    ASSUME NEW v \in {Null, HAKieSession, Serialized(<<>>, <<>>)}
    PROVE  InValue(v) = {} /\ Single(v)
<1>1. v.image = <<>> /\ v.buffer = <<>>
  BY DEF Null, HAKieSession, Serialized, Value
<1> QED
  BY <1>1, EmptyOnce DEF InValue, Single

\* A fact that a value does not hold may be added to its buffer.
LEMMA AddOnce ==
    ASSUME NEW v \in Values, NEW f \in Facts, Single(v), f \notin InValue(v)
    PROVE  InValue(Add(f, v)) = InValue(v) \cup {f} /\ Single(Add(f, v))
<1>1. v.buffer \in Seq(Facts) /\ v.image \in Seq(Facts)
  BY DEF Values
<1>2. Add(f, v).image = v.image /\ Add(f, v).buffer = Append(v.buffer, f)
  BY DEF Add, Values
<1>3. /\ Range(Append(v.buffer, f)) = Range(v.buffer) \cup {f}
      /\ f \notin Range(v.buffer) /\ IsInjective(v.buffer) => IsInjective(Append(v.buffer, f))
  BY <1>1, AppendOnce
<1> QED
  BY <1>2, <1>3 DEF InValue, Single

LEMMA WrapOnce ==
    ASSUME TypeOK, Once, NEW m \in Nodes
    PROVE  /\ Wrap(m) \in Values /\ InValue(Wrap(m)) \subseteq Held(m) /\ Single(Wrap(m))
           /\ InValue(Transfer(m)) \subseteq Held(m) /\ Single(Transfer(m))
<1>1. Wrap(m).image = live[m] /\ Wrap(m).buffer = <<>>
  BY DEF Wrap, Serialized, Value
<1>2. InValue(Wrap(m)) \subseteq Held(m) /\ Single(Wrap(m))
  BY <1>1, EmptyOnce DEF InValue, Held, Single, Once
<1> QED
  BY <1>2, WrapType DEF Transfer, Held, Once

LEMMA MergeOnce ==
    ASSUME TypeOK, Once, NEW m \in Nodes, NEW f \in Facts, f \notin Held(m)
    PROVE  InValue(Merge(f, m)) \subseteq Held(m) \cup {f} /\ Single(Merge(f, m))
<1>1. value[m] \in Values /\ value[m].kind \in {"null", "live", "serialized"} /\ Single(value[m])
  BY DEF TypeOK, Once, Values
<1>2. PICK v \in Values : /\ Merge(f, m) = Add(f, v)
                          /\ InValue(v) \subseteq Held(m) /\ Single(v)
  BY <1>1, WrapOnce, ValueTypes, EmptyValues DEF Merge, Held
<1> QED
  BY <1>2, AddOnce

LEMMA InitFresh == Init => FreshInv
<1> SUFFICES ASSUME Init PROVE FreshInv
  OBVIOUS
<1>1. \A m \in Nodes : Held(m) = {} /\ Single(value[m]) /\ IsInjective(live[m])
  BY EmptyOnce, EmptyValues DEF Init, Held
<1> QED
  BY <1>1 DEF Init, FreshInv, Fresh, Once

LEMMA NextFresh == TypeInv /\ FreshInv /\ [Next]_vars => FreshInv'
<1> SUFFICES ASSUME TypeInv, FreshInv, [Next]_vars PROVE FreshInv'
  OBVIOUS
<1> USE ConstantsAssumption DEF TypeInv, TypeOK, PutState, FreshInv, Fresh, cluster, saver, sessions
<1> NoFact \notin Facts /\ TypeOK
  BY DEF Facts
<1>1. ASSUME NEW f \in Facts, PutFact(f) PROVE FreshInv'
  <2>1. \A m \in Nodes : Held(m)' = Held(m)
    BY <1>1 DEF PutFact, Held
  <2>2. Once'
    BY <1>1 DEF PutFact, Once
  <2> QED BY <1>1, <2>1, <2>2 DEF PutFact, EventReceived
<1>2. ASSUME NEW n \in Nodes, NEW f \in Facts, Lock(n, f) PROVE FreshInv'
  <2>1. \A m \in Nodes : Held(m)' = Held(m)
    BY <1>2 DEF Lock, Held
  <2>2. Once'
    BY <1>2 DEF Lock, Once
  <2> QED BY <1>2, <2>1, <2>2 DEF Lock
<1>3. ASSUME NEW n \in Nodes, Build(n) PROVE FreshInv'
  <2>1. \A m \in Nodes : /\ InValue(value'[m]) \subseteq InValue(value[m])
                         /\ Single(value'[m])
    BY <1>3, EmptyValues DEF Build, MergeEmpty, Once
  <2>2. \A m \in Nodes : /\ Range(live'[m]) \subseteq Range(live[m])
                         /\ IsInjective(live'[m])
    BY <1>3, EmptyOnce DEF Build, Once
  <2>3. \A m \in Nodes : Held(m)' \subseteq Held(m)
    BY <2>1, <2>2 DEF Held
  <2>4. Once'
    BY <2>1, <2>2 DEF Once
  <2> QED BY <1>3, <2>3, <2>4 DEF Build
<1>4. ASSUME NEW n \in Nodes, Rebuild(n) PROVE FreshInv'
  <2> DEFINE w == [value[n] EXCEPT !.buffer = <<>>]
             s == value[n].image \o value[n].buffer
  <2>1. value[n] \in Values /\ value[n].image \in Seq(Facts) /\ value[n].buffer \in Seq(Facts)
    BY DEF Values
  <2>2. w.image = value[n].image /\ w.buffer = <<>>
    BY <2>1 DEF Values
  <2>3. InValue(w) \subseteq InValue(value[n]) /\ Single(w)
    BY <2>2, EmptyOnce DEF InValue, Single, Once
  <2>4. Range(s) = InValue(value[n]) /\ IsInjective(s)
    <3>1. Range(s) = Range(value[n].image) \cup Range(value[n].buffer)
      BY <2>1, RangeConcatenation
    <3>2. Single(value[n])
      BY DEF Once
    <3>3. IsInjective(s)
      BY <2>1, <3>2, ConcatOnce DEF Single
    <3> QED BY <3>1, <3>3 DEF InValue
  <2>5. value' = [value EXCEPT ![n] = w]
    BY <1>4 DEF Rebuild
  <2>6. CASE /\ live' = [live EXCEPT ![n] = s]
             /\ pc' = [pc EXCEPT ![n] = "insert"]
             /\ UNCHANGED fact
    <3> HIDE DEF w, s
    <3>1. \A m \in Nodes : Held(m)' \subseteq Held(m)
      BY <2>3, <2>4, <2>5, <2>6 DEF Held
    <3>2. Once'
      BY <2>3, <2>4, <2>5, <2>6 DEF Once
    <3> QED BY <1>4, <2>6, <3>1, <3>2 DEF Rebuild
  <2>7. CASE Unlock(n) /\ UNCHANGED live
    <3> HIDE DEF w, s
    <3>1. \A m \in Nodes : Held(m)' \subseteq Held(m)
      BY <2>3, <2>5, <2>7 DEF Held
    <3>2. Once'
      BY <2>3, <2>5, <2>7 DEF Once
    <3> QED BY <1>4, <2>7, <3>1, <3>2 DEF Rebuild, Unlock
  <2> QED BY <1>4, <2>6, <2>7 DEF Rebuild
<1>5. ASSUME NEW n \in Nodes, UseLive(n) PROVE FreshInv'
  <2>1. \A m \in Nodes : Held(m)' = Held(m)
    BY <1>5 DEF UseLive, Held
  <2>2. Once'
    BY <1>5 DEF UseLive, Once
  <2> QED BY <1>5, <2>1, <2>2 DEF UseLive
<1>6. ASSUME NEW n \in Nodes, Insert(n) PROVE FreshInv'
  <2>1. fact[n] \in Facts /\ fact[n] \in stored /\ fact[n] \notin Held(n) /\ n = primary
    BY <1>6 DEF Insert
  <2>2. /\ Range(Append(live[n], fact[n])) = Range(live[n]) \cup {fact[n]}
        /\ IsInjective(Append(live[n], fact[n]))
    BY <2>1, AppendOnce DEF Held, Once
  <2>3. \A m \in Nodes : Held(m)' \subseteq Held(m) \cup (IF m = n THEN {fact[n]} ELSE {})
    BY <1>6, <2>2 DEF Insert, Held
  <2>4. Once'
    BY <1>6, <2>2 DEF Insert, Once
  <2>5. CASE /\ pc' = [pc EXCEPT ![n] = "put"]
             /\ todo' = [todo EXCEPT ![n] = owners \ {n}]
             /\ UNCHANGED fact
    BY <1>6, <2>1, <2>3, <2>4, <2>5 DEF Insert
  <2>6. CASE Unlock(n) /\ UNCHANGED todo
    <3>0. \A k \in Nodes : k # n => pc[k] = "idle" /\ waiting[k] = {}
      BY <2>1
    <3>1. \A k \in Nodes : todo'[k] = {} /\ pc'[k] = "idle" /\ fact'[k] \notin waiting'[k]
      <4>1. \A k \in Nodes : pc'[k] = "idle"
        BY <1>6, <2>6, <3>0 DEF Unlock
      <4>2. \A k \in Nodes : todo'[k] = {}
        BY <1>6, <2>6, <3>0 DEF Insert
      <4>3. \A k \in Nodes : fact'[k] \notin waiting'[k]
        BY <1>6, <2>6, <3>0 DEF Insert, Unlock
      <4> QED BY <4>1, <4>2, <4>3
    <3>2. \A k, l \in Nodes : Held(k)' \cap waiting'[l] = {}
      <4>1. waiting' = waiting /\ fact[n] \notin waiting[n]
        BY <1>6 DEF Insert
      <4>2. \A k \in Nodes : Held(k)' \subseteq Held(k) \cup {fact[n]}
        BY <2>3
      <4> SUFFICES ASSUME NEW k \in Nodes, NEW l \in Nodes PROVE Held(k)' \cap waiting[l] = {}
        BY <4>1
      <4>3. Held(k) \cap waiting[l] = {} /\ (l # n => waiting[l] = {})
        BY <3>0
      <4> QED BY <4>1, <4>2, <4>3
    <3>3. \A k \in Nodes : Held(k)' \subseteq stored'
      BY <1>6, <2>1, <2>3 DEF Insert
    <3> QED BY <2>4, <3>1, <3>2, <3>3
  <2> QED BY <1>6, <2>5, <2>6 DEF Insert
<1>7. ASSUME NEW n \in Nodes, NEW m \in Nodes, MergeDelta(n, m) PROVE FreshInv'
  <2>1. /\ lastFact[n] = fact[n] /\ fact[n] \in Facts /\ fact[n] \in stored
        /\ fact[n] \notin Held(m) /\ n = primary
    BY <1>7 DEF MergeDelta
  <2>2. InValue(Merge(fact[n], m)) \subseteq Held(m) \cup {fact[n]} /\ Single(Merge(fact[n], m))
    BY <2>1, MergeOnce
  <2>3. \A k \in Nodes : Held(k)' \subseteq Held(k) \cup (IF k = m THEN {fact[n]} ELSE {})
    BY <1>7, <2>1, <2>2 DEF MergeDelta, Held
  <2>4. Once'
    BY <1>7, <2>1, <2>2 DEF MergeDelta, Once
  <2>5. \A k \in Nodes : k # n => pc[k] = "idle" /\ waiting[k] = {} /\ todo[k] = {}
    BY <2>1
  <2>6. \A k \in Nodes : Held(k)' \subseteq stored'
    BY <1>7, <2>1, <2>3 DEF MergeDelta
  <2>7. \A k, l \in Nodes : Held(k)' \cap waiting'[l] = {}
    <3>1. waiting' = waiting /\ fact[n] \notin waiting[n]
      BY <1>7 DEF MergeDelta
    <3> QED BY <2>3, <2>5, <3>1
  <2>8. \A k, l \in Nodes :
           pc'[k] \in {"get", "insert"} \/ l \in todo'[k] => fact'[k] \notin Held(l)'
    <3>1. \A k \in Nodes : pc'[k] \notin {"get", "insert"}
      BY <1>7, <2>5 DEF MergeDelta
    <3>2. \A k, l \in Nodes : l \in todo'[k] => k = n /\ l # m /\ l \in todo[n]
      BY <1>7, <2>5 DEF MergeDelta
    <3>3. \A l \in Nodes : l \in todo[n] /\ l # m => fact'[n] \notin Held(l)'
      BY <1>7, <2>3 DEF MergeDelta
    <3> QED BY <3>1, <3>2, <3>3
  <2> QED BY <1>7, <2>4, <2>6, <2>7, <2>8 DEF MergeDelta
<1>8. ASSUME NEW n \in Nodes, PutBack(n) PROVE FreshInv'
  <2>1. \A m \in Nodes : Held(m)' \subseteq Held(m)
    BY <1>8, EmptyValues DEF PutBack, Held
  <2>2. Once'
    BY <1>8, EmptyValues DEF PutBack, Once
  <2> QED BY <1>8, <2>1, <2>2 DEF PutBack, Unlock
<1>9. ASSUME NEW n \in Nodes, Crash(n) PROVE FreshInv'
  <2>1. \A m \in Nodes : Held(m)' \subseteq Held(m)
    BY <1>9, EmptyValues, EmptyOnce DEF Crash, Held
  <2>2. Once'
    BY <1>9, EmptyValues, EmptyOnce DEF Crash, Once
  <2> QED BY <1>9, <2>1, <2>2 DEF Crash, Unlock
<1>10. ASSUME NEW n \in Nodes, Join(n) PROVE FreshInv'
  <2>1. \A m \in Nodes : Held(m)' = Held(m)
    BY <1>10 DEF Join, Held
  <2>2. Once'
    BY <1>10 DEF Join, Once
  <2> QED BY <1>10, <2>1, <2>2 DEF Join
<1>11. ASSUME NEW p \in Nodes, NEW O \in SUBSET Nodes, Rehash(p, O) PROVE FreshInv'
  <2>1. \A n \in Nodes : pc[n] = "idle" /\ waiting[n] = {} /\ todo[n] = {} /\ fact[n] = NoFact
    BY <1>11 DEF Rehash, Quiet
  <2>2. primary \in Nodes /\ \A m \in Nodes :
           /\ InValue(value'[m]) \subseteq Held(m) \cup Held(primary)
           /\ Single(value'[m])
    BY <1>11, WrapOnce, EmptyValues DEF Rehash, Held, Once
  <2>3. \A m \in Nodes : Range(live'[m]) \subseteq Held(m) /\ IsInjective(live'[m])
    BY <1>11, EmptyOnce DEF Rehash, Held, Once
  <2>4. \A m \in Nodes : Held(m)' \subseteq stored
    BY <2>2, <2>3 DEF Held
  <2>5. Once'
    BY <2>2, <2>3 DEF Once
  <2> QED BY <1>11, <2>1, <2>4, <2>5 DEF Rehash
<1>12. CASE UNCHANGED vars
  BY <1>12 DEF vars, Held, Once
<1> QED
  BY <1>1, <1>2, <1>3, <1>4, <1>5, <1>6, <1>7, <1>8, <1>9, <1>10, <1>11, <1>12 DEF Next, Save

\* The session of an owner is in its hands or in the cache: no fact twice.
LEMMA NoFactTwiceHolds == TypeInv /\ FreshInv => NoFactTwice
<1> SUFFICES ASSUME TypeInv, FreshInv, NEW n \in owners PROVE IsInjective(FactsOf(n))
  BY DEF NoFactTwice, IsInjective
<1>1. /\ n \in Nodes /\ value[n] \in Values
      /\ Single(value[n]) /\ IsInjective(live[n])
  BY DEF TypeInv, TypeOK, FreshInv, Once
<1>2. IsInjective(value[n].image \o value[n].buffer)
  BY <1>1, ConcatOnce DEF Values, Single
<1> QED
  BY <1>1, <1>2 DEF FactsOf

\* No owner holds a fact twice, for any number of nodes and owners, whatever
\* crashes in the middle of a put, throws, or takes over a session.
THEOREM FactsOnce == Spec => []NoFactTwice
<1>1. Init => TypeInv /\ FreshInv
  BY InitTypeInv, InitFresh
<1>2. TypeInv /\ FreshInv /\ [Next]_vars => (TypeInv /\ FreshInv)'
  BY NextTypeInv, NextFresh
<1> QED
  BY <1>1, <1>2, NoFactTwiceHolds, PTL DEF Spec

----------------------------------------------------------------------------
(* One order.  Everything a node has, used or not, takes part in one       *)
(* relation, "f comes before g somewhere"; every step either takes pairs   *)
(* from it or adds the fact being inserted behind others, and that fact    *)
(* comes before none.                                                      *)

Prec(s, f, g) == \E i, j \in DOMAIN s : i < j /\ s[i] = f /\ s[j] = g

\* The facts in a value of the cache.
Copy(v) == v.image \o v.buffer

Somewhere(f, g) ==
    \E m \in Nodes : Prec(Copy(value[m]), f, g) \/ Prec(live[m], f, g)

Antisymmetric ==
    \A f \in Facts : \A g \in Facts \ {f} : Somewhere(f, g) => ~Somewhere(g, f)
InsertedIsLast ==
    \A n \in Nodes : pc[n] # "idle" =>
        \A g \in Facts \ {fact[n]} : ~Somewhere(fact[n], g)

OneOrder == Antisymmetric /\ InsertedIsLast

LEMMA AppendConcat ==
    ASSUME NEW S, NEW s \in Seq(S), NEW t \in Seq(S), NEW e \in S
    PROVE  s \o Append(t, e) = Append(s \o t, e)
<1>1. <<e>> \in Seq(S) /\ s \o t \in Seq(S)
  OBVIOUS
<1>2. Append(t, e) = t \o <<e>>
  BY AppendIsConcat
<1>3. Append(s \o t, e) = (s \o t) \o <<e>>
  BY <1>1, AppendIsConcat
<1>4. (s \o t) \o <<e>> = s \o (t \o <<e>>)
  BY <1>1, ConcatAssociative
<1> QED
  BY <1>2, <1>3, <1>4

LEMMA CopyOf ==
    /\ Copy(Null) = <<>> /\ Copy(Serialized(<<>>, <<>>)) = <<>>
    /\ \A s \in Seq(Facts) : Copy(Serialized(s, <<>>)) = s
    /\ \A v \in Values : \A f \in Facts : Copy(Add(f, v)) = Append(Copy(v), f)
    /\ \A v \in Values : Copy(v) \in Seq(Facts)
<1>1. \A s \in Seq(Facts) : Copy(Serialized(s, <<>>)) = s
  BY DEF Copy, Serialized, Value
<1>2. Null.image = <<>> /\ Null.buffer = <<>> /\ <<>> \o <<>> = <<>>
  BY DEF Null, Value
<1>5. Serialized(<<>>, <<>>).image = <<>> /\ Serialized(<<>>, <<>>).buffer = <<>>
  BY DEF Serialized, Value
<1>3. ASSUME NEW v \in Values, NEW f \in Facts PROVE Copy(Add(f, v)) = Append(Copy(v), f)
  <2>1. v.buffer \in Seq(Facts) /\ v.image \in Seq(Facts)
    BY DEF Values
  <2>2. Add(f, v).image = v.image /\ Add(f, v).buffer = Append(v.buffer, f)
    BY DEF Add, Values
  <2>3. v.image \o Append(v.buffer, f) = Append(v.image \o v.buffer, f)
    <3> DEFINE s == v.image
               t == v.buffer
    <3>1. s \in Seq(Facts) /\ t \in Seq(Facts)
      BY <2>1
    <3> HIDE DEF s, t
    <3>2. s \o Append(t, f) = Append(s \o t, f)
      BY <3>1, AppendConcat
    <3> QED BY <3>2 DEF s, t
  <2> QED BY <2>2, <2>3 DEF Copy
<1>4. \A v \in Values : Copy(v) \in Seq(Facts)
  BY DEF Values, Copy
<1> QED
  BY <1>1, <1>2, <1>3, <1>4, <1>5 DEF Copy

LEMMA PrecEmpty == \A f, g : ~Prec(<<>>, f, g)
  BY DEF Prec

LEMMA PrecRange ==
    ASSUME NEW s, NEW f, NEW g, Prec(s, f, g)
    PROVE  f \in Range(s) /\ g \in Range(s)
  BY DEF Prec, Range

LEMMA PrecAppend ==
    ASSUME NEW S, NEW s \in Seq(S), NEW x \in S, NEW f, NEW g, Prec(Append(s, x), f, g)
    PROVE  Prec(s, f, g) \/ g = x
<1>1. /\ DOMAIN Append(s, x) = 1..Len(s) + 1 /\ DOMAIN s = 1..Len(s) /\ Len(s) \in Nat
      /\ \A i \in 1..Len(s) : Append(s, x)[i] = s[i]
      /\ Append(s, x)[Len(s) + 1] = x
  OBVIOUS
<1>2. PICK i, j \in 1..Len(s) + 1 : i < j /\ Append(s, x)[i] = f /\ Append(s, x)[j] = g
  BY <1>1 DEF Prec
<1>3. CASE j = Len(s) + 1
  BY <1>1, <1>2, <1>3
<1>4. CASE j # Len(s) + 1
  <2>1. i \in 1..Len(s) /\ j \in 1..Len(s)
    BY <1>1, <1>2, <1>4
  <2> QED BY <1>1, <1>2, <2>1 DEF Prec
<1> QED BY <1>3, <1>4

\* Two facts of a snapshot come in the same order in the whole session.
LEMMA PrecPrefix ==
    ASSUME NEW S, NEW s \in Seq(S), NEW t \in Seq(S), NEW f, NEW g, Prec(s, f, g)
    PROVE  Prec(s \o t, f, g)
<1>1. /\ DOMAIN (s \o t) = 1..Len(s) + Len(t) /\ DOMAIN s = 1..Len(s)
      /\ Len(s) \in Nat /\ Len(t) \in Nat
      /\ \A i \in 1..Len(s) : (s \o t)[i] = s[i]
  OBVIOUS
<1>2. PICK i, j \in 1..Len(s) : i < j /\ s[i] = f /\ s[j] = g
  BY <1>1 DEF Prec
<1>3. i \in DOMAIN (s \o t) /\ j \in DOMAIN (s \o t)
  BY <1>1, <1>2
<1> QED BY <1>1, <1>2, <1>3 DEF Prec

\* The values that hold no fact stand for the empty session.
LEMMA EmptySessions ==
    ASSUME NEW v \in {Null, HAKieSession, Serialized(<<>>, <<>>)}, NEW f, NEW g
    PROVE  ~Prec(Copy(v), f, g)
<1>1. v.image = <<>> /\ v.buffer = <<>>
  BY DEF Null, HAKieSession, Serialized, Value
<1>2. <<>> \o <<>> = <<>>
  BY ConcatEmptySeq
<1> QED BY <1>1, <1>2, PrecEmpty DEF Copy

\* What Wrap makes of a live session stands for it.
LEMMA WrapSession ==
    ASSUME TypeOK, NEW m \in Nodes
    PROVE  Copy(Wrap(m)) = live[m]
<1>1. Wrap(m).image = live[m] /\ Wrap(m).buffer = <<>> /\ live[m] \in Seq(Facts)
  BY DEF Wrap, Serialized, Value, TypeOK
<1> QED BY <1>1, ConcatEmptySeq DEF Copy

\* A delta adds its fact to the end of what the owner had.
LEMMA MergeSession ==
    ASSUME TypeOK, NEW m \in Nodes, NEW x \in Facts, NEW f, NEW g,
           Prec(Copy(Merge(x, m)), f, g)
    PROVE  Prec(Copy(value[m]), f, g) \/ Prec(live[m], f, g) \/ g = x
<1>1. value[m] \in Values /\ value[m].kind \in {"null", "live", "serialized"}
  BY DEF TypeOK, Values
<1>2. PICK v \in Values : /\ Merge(x, m) = Add(x, v)
                          /\ \/ v = value[m] \/ v = Wrap(m) \/ v = Serialized(<<>>, <<>>)
  BY <1>1, WrapType, ValueTypes DEF Merge
<1>3. v.image \in Seq(Facts) /\ v.buffer \in Seq(Facts)
  BY DEF Values
<1>4. Copy(Add(x, v)) = Append(Copy(v), x)
  BY CopyOf
<1>5. Copy(v) \in Seq(Facts)
  BY <1>3, ConcatProperties DEF Copy
<1>6. Prec(Copy(v), f, g) \/ g = x
  BY <1>2, <1>4, <1>5, PrecAppend
<1> QED BY <1>2, <1>6, WrapSession, EmptySessions

\* A step that only loses facts keeps the order ...
LEMMA NothingNew ==
    ASSUME TypeOK, OneOrder,
           \A f, g \in Facts : Somewhere(f, g)' => Somewhere(f, g),
           \A n \in Nodes : pc'[n] # "idle" => pc[n] # "idle" /\ fact'[n] = fact[n]
    PROVE  OneOrder'
<1>1. Antisymmetric'
  BY DEF OneOrder, Antisymmetric
<1>2. InsertedIsLast'
  <2> SUFFICES ASSUME NEW n \in Nodes, pc'[n] # "idle", NEW g \in Facts \ {fact'[n]}
               PROVE  ~Somewhere(fact[n], g)'
    BY DEF InsertedIsLast, Somewhere
  <2>1. pc[n] # "idle" /\ fact'[n] = fact[n] /\ fact[n] \in Facts
    BY DEF TypeOK
  <2>2. PICK f \in Facts : f = fact[n]
    BY <2>1
  <2>3. ~Somewhere(f, g)
    BY <2>1, <2>2 DEF OneOrder, InsertedIsLast
  <2>4. ~Somewhere(f, g)'
    BY <2>3
  <2> QED BY <2>1, <2>2, <2>4 DEF Somewhere
<1> QED BY <1>1, <1>2 DEF OneOrder

\* ... and so does one that puts the fact being inserted behind others.
LEMMA OneMore ==
    ASSUME TypeOK, OneOrder, NEW n \in Nodes, pc[n] # "idle",
           \A f, g \in Facts : Somewhere(f, g)' => Somewhere(f, g) \/ g = fact[n],
           \A k \in Nodes : pc'[k] # "idle" => k = n /\ fact'[k] = fact[k]
    PROVE  OneOrder'
<1>1. PICK x \in Facts : x = fact[n]
  BY DEF TypeOK
<1>2. \A g \in Facts \ {x} : ~Somewhere(x, g)
  BY <1>1 DEF OneOrder, InsertedIsLast
<1>3. \A g \in Facts \ {x} : ~Somewhere(x, g)'
  BY <1>1, <1>2
<1>4. Antisymmetric'
  <2> SUFFICES ASSUME NEW f \in Facts, NEW g \in Facts, f # g,
                      Somewhere(f, g)', Somewhere(g, f)'
               PROVE  FALSE
    BY DEF Antisymmetric
  <2>1. CASE g # x /\ f # x
    BY <1>1, <2>1 DEF OneOrder, Antisymmetric
  <2>2. CASE g = x
    BY <1>3, <2>2
  <2>3. CASE f = x
    BY <1>3, <2>3
  <2> QED BY <2>1, <2>2, <2>3
<1>5. InsertedIsLast'
  <2> SUFFICES ASSUME NEW k \in Nodes, pc'[k] # "idle", NEW g \in Facts \ {fact'[k]}
               PROVE  ~Somewhere(fact[k], g)'
    BY DEF InsertedIsLast, Somewhere
  <2>1. fact'[k] = x
    BY <1>1
  <2> QED BY <1>3, <2>1 DEF Somewhere
<1> QED BY <1>4, <1>5 DEF OneOrder

LEMMA NextOrder == TypeInv /\ FreshInv /\ OneOrder /\ [Next]_vars => OneOrder'
<1> SUFFICES ASSUME TypeInv, FreshInv, OneOrder, [Next]_vars PROVE OneOrder'
  OBVIOUS
<1>0. /\ TypeOK /\ value \in [Nodes -> Values] /\ live \in [Nodes -> Seq(Facts)]
      /\ pc \in [Nodes -> {"idle", "get", "insert", "put"}]
      /\ fact \in [Nodes -> stored \cup {NoFact}]
      /\ \A n \in Nodes : /\ pc[n] # "idle" => n = primary
                          /\ pc[n] # "idle" => fact[n] \in Facts
                          /\ Copy(value[n]) \in Seq(Facts)
  BY ConcatProperties DEF TypeInv, TypeOK, Values, Copy
\* A fact that no node has comes before none.
<1>1. ASSUME NEW n \in Nodes, NEW f \in Facts, Lock(n, f) PROVE OneOrder'
  <2>1. UNCHANGED <<value, live>> /\ f \in waiting[n]
          /\ pc' = [pc EXCEPT ![n] = "get"] /\ fact' = [fact EXCEPT ![n] = f]
    BY <1>1 DEF Lock, sessions
  <2>2. \A g, h \in Facts : Somewhere(g, h)' <=> Somewhere(g, h)
    BY <2>1 DEF Somewhere
  <2>3. ASSUME NEW g \in Facts PROVE ~Somewhere(f, g)
    <3>1. \A m \in Nodes : f \notin Held(m)
      BY <2>1 DEF FreshInv, Fresh
    <3>2. ASSUME NEW m \in Nodes, Prec(Copy(value[m]), f, g) PROVE FALSE
      <4>1. f \in Range(Copy(value[m]))
        BY <3>2, PrecRange
      <4>2. value[m].image \in Seq(Facts) /\ value[m].buffer \in Seq(Facts)
        BY <1>0 DEF Values
      <4>3. Range(Copy(value[m])) = InValue(value[m])
        BY <4>2, RangeConcatenation DEF Copy, InValue
      <4> QED BY <3>1, <4>1, <4>3 DEF Held
    <3>3. ASSUME NEW m \in Nodes, Prec(live[m], f, g) PROVE FALSE
      BY <3>1, <3>3, PrecRange DEF Held
    <3> QED BY <3>2, <3>3 DEF Somewhere
  <2>4. Antisymmetric'
    BY <2>2 DEF OneOrder, Antisymmetric
  <2>5. InsertedIsLast'
    <3> SUFFICES ASSUME NEW k \in Nodes, pc'[k] # "idle", NEW g \in Facts \ {fact'[k]}
                 PROVE  ~Somewhere(fact[k], g)'
      BY DEF InsertedIsLast, Somewhere
    <3>1. CASE k = n
      <4>1. fact'[k] = f
        BY <1>0, <2>1, <3>1
      <4> QED BY <2>2, <2>3, <4>1 DEF Somewhere
    <3>2. CASE k # n
      <4>1. pc[k] # "idle" /\ fact'[k] = fact[k] /\ fact[k] \in Facts
        BY <1>0, <2>1, <3>2
      <4>2. ~Somewhere(fact[k], g)
        BY <4>1 DEF OneOrder, InsertedIsLast
      <4> QED BY <2>1, <4>1, <4>2 DEF Somewhere
    <3> QED BY <3>1, <3>2
  <2> QED BY <2>4, <2>5 DEF OneOrder
<1>2. ASSUME NEW n \in Nodes, Build(n) PROVE OneOrder'
  <2>1. \A m \in Nodes : value'[m] \in {value[m], HAKieSession, Serialized(<<>>, <<>>)}
    BY <1>2 DEF Build, MergeEmpty
  <2>2. \A m \in Nodes : live'[m] = live[m] \/ live'[m] = <<>>
    BY <1>0, <1>2 DEF Build
  <2>3. \A f, g \in Facts : Somewhere(f, g)' => Somewhere(f, g)
    BY <2>1, <2>2, EmptySessions, PrecEmpty DEF Somewhere
  <2>4. \A k \in Nodes : pc'[k] # "idle" => pc[k] # "idle" /\ fact'[k] = fact[k]
    BY <1>0, <1>2 DEF Build
  <2> QED BY <1>0, <2>3, <2>4, NothingNew
\* The rebuilt session is the one the value stood for; what is left of the
\* value if it is not handed over stands for a part of it.
<1>3. ASSUME NEW n \in Nodes, Rebuild(n) PROVE OneOrder'
  <2> DEFINE w == [value[n] EXCEPT !.buffer = <<>>]
  <2>1. value[n].image \in Seq(Facts) /\ value[n].buffer \in Seq(Facts)
          /\ w.image = value[n].image /\ w.buffer = <<>>
    BY <1>0 DEF Values
  <2>2. \A f, g : Prec(Copy(w), f, g) => Prec(Copy(value[n]), f, g)
    BY <2>1, ConcatEmptySeq, PrecPrefix DEF Copy
  <2>3. value' = [value EXCEPT ![n] = w]
          /\ (live' = live \/ live' = [live EXCEPT ![n] = Copy(value[n])])
    BY <1>3 DEF Rebuild, Copy
  <2> HIDE DEF w
  <2>4. \A m \in Nodes : value'[m] = IF m = n THEN w ELSE value[m]
    BY <1>0, <2>3
  <2>5. \A m \in Nodes : live'[m] = live[m] \/ live'[m] = Copy(value[m])
    BY <1>0, <2>3
  <2>6. \A f, g \in Facts : Somewhere(f, g)' => Somewhere(f, g)
    BY <2>2, <2>4, <2>5 DEF Somewhere
  <2>7. \A k \in Nodes : pc'[k] # "idle" => pc[k] # "idle" /\ fact'[k] = fact[k]
    BY <1>0, <1>3 DEF Rebuild, Unlock
  <2> QED BY <1>0, <2>6, <2>7, NothingNew
\* The fact being inserted comes behind those of the live session ...
<1>4. ASSUME NEW n \in Nodes, Insert(n) PROVE OneOrder'
  <2>1. pc[n] = "insert" /\ fact[n] \in Facts /\ live[n] \in Seq(Facts) /\ value' = value
          /\ live' = [live EXCEPT ![n] = Append(live[n], fact[n])]
    BY <1>0, <1>4 DEF Insert
  <2>2. \A m \in Nodes : live'[m] = IF m = n THEN Append(live[n], fact[n]) ELSE live[m]
    BY <1>0, <2>1
  <2>3. \A f, g \in Facts :
           Prec(Append(live[n], fact[n]), f, g) => Prec(live[n], f, g) \/ g = fact[n]
    BY <2>1, PrecAppend
  <2>4. \A f, g \in Facts : Somewhere(f, g)' => Somewhere(f, g) \/ g = fact[n]
    BY <2>1, <2>2, <2>3 DEF Somewhere
  <2>5. \A k \in Nodes : pc'[k] # "idle" => k = n /\ fact'[k] = fact[k]
    BY <1>0, <1>4 DEF Insert, Unlock
  <2> QED BY <1>0, <2>1, <2>4, <2>5, OneMore
\* ... and behind those of the owners its delta reaches.
<1>5. ASSUME NEW n \in Nodes, NEW m \in Nodes, MergeDelta(n, m) PROVE OneOrder'
  <2>1. /\ pc[n] = "put" /\ fact[n] \in Facts /\ live' = live
        /\ value' = [value EXCEPT ![m] = Merge(fact[n], m)]
    BY <1>0, <1>5 DEF MergeDelta, TypeInv, PutState
  <2>2. \A k \in Nodes : value'[k] = IF k = m THEN Merge(fact[n], m) ELSE value[k]
    BY <1>0, <2>1
  <2>3. \A f, g \in Facts :
           Prec(Copy(Merge(fact[n], m)), f, g) =>
             Prec(Copy(value[m]), f, g) \/ Prec(live[m], f, g) \/ g = fact[n]
    BY <1>0, <2>1, MergeSession
  <2>4. \A f, g \in Facts : Somewhere(f, g)' => Somewhere(f, g) \/ g = fact[n]
    BY <2>1, <2>2, <2>3 DEF Somewhere
  <2>5. \A k \in Nodes : pc'[k] # "idle" => k = n /\ fact'[k] = fact[k]
    BY <1>0, <1>5, <2>1 DEF MergeDelta, saver
  <2> QED BY <1>0, <2>1, <2>4, <2>5, OneMore
<1>6. ASSUME NEW n \in Nodes, PutBack(n) \/ Crash(n) PROVE OneOrder'
  <2>1. \A m \in Nodes : value'[m] \in {value[m], HAKieSession, Null}
    BY <1>0, <1>6 DEF PutBack, Crash
  <2>2. \A m \in Nodes : live'[m] = live[m] \/ live'[m] = <<>>
    BY <1>0, <1>6 DEF PutBack, Crash
  <2>3. \A f, g \in Facts : Somewhere(f, g)' => Somewhere(f, g)
    BY <2>1, <2>2, EmptySessions, PrecEmpty DEF Somewhere
  <2>4. \A k \in Nodes : pc'[k] # "idle" => pc[k] # "idle" /\ fact'[k] = fact[k]
    BY <1>0, <1>6 DEF PutBack, Crash, Unlock
  <2> QED BY <1>0, <2>3, <2>4, NothingNew
\* A new owner gets the session of the primary owner.
<1>7. ASSUME NEW p \in Nodes, NEW O \in SUBSET Nodes, Rehash(p, O) PROVE OneOrder'
  <2>1. primary \in Nodes
    BY <1>0 DEF TypeOK
  <2>2. \A m \in Nodes : value'[m] \in {value[m], Transfer(primary), Null}
    BY <1>7 DEF Rehash
  <2>3. \A m \in Nodes : live'[m] = live[m] \/ live'[m] = <<>>
    BY <1>7 DEF Rehash
  <2>4. Copy(Transfer(primary)) \in {Copy(value[primary]), live[primary]}
    BY <1>0, <2>1, WrapSession DEF Transfer
  <2>5. \A f, g \in Facts : Somewhere(f, g)' => Somewhere(f, g)
    BY <2>1, <2>2, <2>3, <2>4, EmptySessions, PrecEmpty DEF Somewhere
  <2>6. \A k \in Nodes : pc'[k] = pc[k] /\ fact'[k] = fact[k]
    BY <1>7 DEF Rehash, saver
  <2> QED BY <1>0, <2>5, <2>6, NothingNew
<1>8. ASSUME UNCHANGED <<value, live, pc, fact>> \/ \E n \in Nodes : UseLive(n)
      PROVE OneOrder'
  <2>1. \A f, g \in Facts : Somewhere(f, g)' => Somewhere(f, g)
    BY <1>8 DEF UseLive, sessions, Somewhere
  <2>2. \A k \in Nodes : pc'[k] # "idle" => pc[k] # "idle" /\ fact'[k] = fact[k]
    BY <1>0, <1>8 DEF UseLive
  <2> QED BY <1>0, <2>1, <2>2, NothingNew
<1>9. ASSUME NEW f \in Facts, PutFact(f) PROVE OneOrder'
  BY <1>8, <1>9 DEF PutFact, sessions
<1>10. ASSUME NEW n \in Nodes, Join(n) PROVE OneOrder'
  BY <1>8, <1>10 DEF Join, sessions, saver
<1>11. CASE UNCHANGED vars
  BY <1>8, <1>11 DEF vars, sessions, saver
<1> QED
  BY <1>1, <1>2, <1>3, <1>4, <1>5, <1>6, <1>7, <1>8, <1>9, <1>10, <1>11 DEF Next, Save

LEMMA InitOneOrder == Init => OneOrder
<1> SUFFICES ASSUME Init PROVE OneOrder
  OBVIOUS
<1>1. \A m \in Nodes : value[m] = Null /\ live[m] = <<>> /\ pc[m] = "idle"
  BY DEF Init
<1>2. \A f, g : ~Somewhere(f, g)
  BY <1>1, EmptySessions, PrecEmpty DEF Somewhere
<1> QED BY <1>1, <1>2 DEF OneOrder, Antisymmetric, InsertedIsLast

\* No two owners ever hold two facts in opposite orders, for any number of
\* nodes, owners and facts, whichever of them crash during a put, throw, take
\* over or are handed a copy.
THEOREM OrderIsCommon == Spec => []CommonOrder
<1>1. Init => TypeInv /\ FreshInv /\ OneOrder
  BY InitTypeInv, InitFresh, InitOneOrder
<1>2. TypeInv /\ FreshInv /\ OneOrder /\ [Next]_vars => (TypeInv /\ FreshInv /\ OneOrder)'
  BY NextTypeInv, NextFresh, NextOrder
<1>3. TypeInv /\ OneOrder => CommonOrder
  <2> SUFFICES ASSUME TypeInv, OneOrder, NEW n \in owners, NEW m \in owners,
                      NEW f \in Facts, NEW g \in Facts \ {f}, Before(n, f, g)
               PROVE  ~Before(m, g, f)
    BY DEF CommonOrder
  <2>1. ASSUME NEW k \in owners, NEW x, NEW y, Before(k, x, y) PROVE Somewhere(x, y)
    <3>1. k \in Nodes
      BY DEF TypeInv, TypeOK
    <3>2. FactsOf(k) = live[k] \/ FactsOf(k) = Copy(value[k])
      BY DEF FactsOf, Copy
    <3>3. Prec(FactsOf(k), x, y)
      BY <2>1 DEF Before, Prec
    <3> QED BY <3>1, <3>2, <3>3 DEF Somewhere
  <2> QED BY <2>1 DEF OneOrder, Antisymmetric
<1> QED
  BY <1>1, <1>2, <1>3, PTL DEF Spec

=============================================================================
