------------------------- MODULE RulesUpgradeProofs -------------------------
(***************************************************************************)
(* What is proved of RulesUpgrade for any nodes, versions and operators,   *)
(* with nodes that come, go and crash: TypeOK, and that success is         *)
(* reported only when every member that listens took over the version.     *)
(***************************************************************************)
EXTENDS RulesUpgrade, TLAPS

\* There is a version in the cache as long as some node is not down, in the
\* stores only if they are kept, and an update in progress is executed by a node that is up and knows both versions.
VersionKnown ==
    /\ \A n \in Nodes : status[n] # "down" => cached \in Versions
    /\ ~Persistence => \A n \in Nodes : stored[n] = {}
    /\ \A o \in Operators : at[o] \in InProgress =>
          /\ status[op[o].host] = "up"
          /\ op[o].asked \in Versions
          /\ op[o].old \in Versions

\* A node that was starting when a put took the lock has missed the version.
StartingMissed == lock # NoOne => Starting \subseteq missed

\* Node n runs version v, or has found errors in it.
Took(n, v) == rules[n] = v \/ <<n, v>> \in Broken

\* A put that has not failed has reached every member but those still to do
\* and those that missed it.
Reached ==
    \A o \in Operators : at[o] = "putting" /\ threw = FALSE =>
        /\ cached = op[o].asked
        /\ \A n \in Up \ (todo \cup missed) : Took(n, cached)

TypeInv == TypeOK /\ VersionKnown
IInv    == TypeInv /\ StartingMissed /\ Reached

USE ConstantsAssumption DEF Ops, InProgress, Answers

LEMMA InitIInv == Init => IInv
  BY DEF Init, IInv, TypeInv, TypeOK, VersionKnown, StartingMissed, Reached, Up, Running

\* What the stores hold, and whether there is an entry.
Entries ==
    /\ stored \in [Nodes -> SUBSET Versions]
    /\ ~Persistence => \A n \in Nodes : stored[n] = {}
    /\ cached = NoVersion <=> Running = {}

LEMMA EntriesStep == TypeInv /\ [Next]_vars => Entries'
<1> SUFFICES ASSUME TypeInv, [Next]_vars PROVE Entries'
  OBVIOUS
<1> USE DEF Entries, Running, TypeInv, TypeOK, VersionKnown
<1>1. ASSUME NEW n \in Nodes, JoinInfoCache(n) PROVE Entries'
  <2>1. cached' \in Versions
    BY <1>1 DEF JoinInfoCache, Preloaded
  <2>2. stored' = [m \in Nodes |-> IF Persistence /\ m = n THEN {cached'} ELSE stored[m]]
    BY <1>1 DEF JoinInfoCache, Keep
  <2>3. n \in Running'
    BY <1>1 DEF JoinInfoCache
  <2> QED BY <2>1, <2>2, <2>3
<1>2. ASSUME NEW n \in Nodes, Leave(n), stored' = stored PROVE Entries'
  <2>1. status' = [status EXCEPT ![n] = "down"]
    BY <1>2 DEF Leave
  <2>2. Running' = Running \ {n}
    BY <2>1
  <2>3. cached' = IF Running \subseteq {n} THEN NoVersion ELSE cached
    BY <1>2 DEF Leave
  <2>4. CASE Running \subseteq {n}
    BY <1>2, <2>2, <2>3, <2>4
  <2>5. CASE ~(Running \subseteq {n})
    <3>1. Running # {} /\ Running' # {} /\ cached' = cached
      BY <2>2, <2>3, <2>5
    <3> QED BY <1>2, <3>1
  <2> QED BY <2>4, <2>5
<1>3. ASSUME NEW n \in Nodes, StartRules(n) PROVE Entries'
  <2>1. UNCHANGED <<cached, stored>> /\ Running' = Running
    BY <1>3 DEF StartRules, entry
  <2> QED BY <2>1
<1>4. ASSUME NEW n \in Nodes, AddListener(n) PROVE Entries'
  <2>1. UNCHANGED <<cached, stored>> /\ Running' = Running
    BY <1>4 DEF AddListener, entry
  <2> QED BY <2>1
<1>5. ASSUME NEW o \in Operators, Put(o) PROVE Entries'
  <2>1. cached' \in Versions /\ status' = status
    BY <1>5 DEF Put
  <2>2. stored' = [n \in Nodes |-> IF Persistence /\ n \in Running
                                   THEN stored[n] \cup {cached'} ELSE stored[n]]
    BY <1>5 DEF Put
  <2>3. op[o].host \in Running
    BY <1>5 DEF Put
  <2> QED BY <2>1, <2>2, <2>3
<1>6. ASSUME NEW o \in Operators, PutReturns(o) PROVE Entries'
  <2>1. UNCHANGED <<cached, status>>
    BY <1>6 DEF PutReturns, members
  <2>2. \/ stored' = stored
        \/ stored' = [n \in Nodes |-> IF Persistence /\ n \in Running THEN {cached'}
                                                                      ELSE stored[n]]
    BY <1>6 DEF PutReturns, Keep
  <2>3. \A n \in Running : cached \in Versions
    OBVIOUS
  <2> QED BY <2>1, <2>2, <2>3
<1>7. CASE \/ UNCHANGED vars
           \/ \E n \in Nodes : UpdateToVersion(n)
           \/ \E o \in Operators, n \in Nodes :
                 Refuse(o, n) \/ \E v \in Versions : Execute(o, n, v)
  <2>1. UNCHANGED <<cached, stored, status>>
    BY <1>7 DEF UpdateToVersion, Refuse, Execute, vars, entry, members
  <2> QED BY <2>1
<1> QED
  BY <1>1, <1>2, <1>3, <1>4, <1>5, <1>6, <1>7 DEF Next, UpdateStep, Listen, Stop, Crash

LEMMA TypeStep == TypeInv /\ [Next]_vars => TypeInv'
<1> SUFFICES ASSUME TypeInv, [Next]_vars PROVE TypeInv'
  OBVIOUS
<1> USE DEF TypeInv, TypeOK, VersionKnown, Up
<1>0. /\ (stored \in [Nodes -> SUBSET Versions])'
      /\ (~Persistence => \A n \in Nodes : stored[n] = {})'
      /\ (cached = NoVersion <=> Running = {})'
  BY EntriesStep DEF Entries
<1>1. ASSUME NEW n \in Nodes, JoinInfoCache(n) PROVE TypeInv'
  BY <1>0, <1>1 DEF JoinInfoCache, Preloaded
<1>2. ASSUME NEW n \in Nodes, StartRules(n) PROVE TypeInv'
  <2>1. CASE rules' = [rules EXCEPT ![n] = seen[n]]
    BY <1>0, <1>2, <2>1 DEF StartRules, entry
  <2>2. CASE UNCHANGED rules
    BY <1>0, <1>2, <2>2 DEF StartRules, entry
  <2> QED
    BY <1>2, <2>1, <2>2 DEF StartRules
<1>3. ASSUME NEW n \in Nodes, AddListener(n) PROVE TypeInv'
  BY <1>0, <1>3 DEF AddListener, entry
<1>4. ASSUME NEW n \in Nodes, Stop(n) PROVE TypeInv'
  BY <1>0, <1>4 DEF Stop, Leave, Running
<1>5. ASSUME NEW n \in Nodes, Crash(n) PROVE TypeInv'
  <2>1. \A o \in Operators : at'[o] \in InProgress =>
           at[o] = at'[o] /\ op[o].host # n /\ status'[op[o].host] = "up"
    BY <1>5 DEF Crash, Leave
  <2>2. \A m \in Nodes : status'[m] # "down" => cached' \in Versions
    BY <1>5 DEF Crash, Leave, Running
  <2>3. VersionKnown'
    BY <1>0, <1>5, <2>1, <2>2 DEF Crash
  <2>4. \A o \in Operators : lock' = o <=> at'[o] \in {"putting", "rolling"}
    BY <1>5 DEF Crash
  <2>5. todo' \subseteq Up'
    BY <1>5 DEF Crash, Leave
  <2>6. at' \in [Operators -> InProgress \cup Answers \cup {"idle"}]
    BY <1>5 DEF Crash
  <2>7. lock' \in Operators \cup {NoOne} /\ threw' \in BOOLEAN
    BY <1>5 DEF Crash
  <2>8. cached' \in Versions \cup {NoVersion} /\ missed' \subseteq Nodes /\ op' = op
    BY <1>5 DEF Crash, Leave
  <2>9. /\ status' \in [Nodes -> {"down", "failed", "joined", "started", "up"}]
        /\ seen' \in [Nodes -> Versions \cup {NoVersion}]
        /\ rules' \in [Nodes -> Versions \cup {NoVersion}]
        /\ \A m \in Nodes :
              /\ seen'[m] = NoVersion <=> status'[m] \in {"down", "failed"}
              /\ rules'[m] = NoVersion <=> status'[m] \in {"down", "failed", "joined"}
    BY <1>5 DEF Crash, Leave
  <2> QED
    BY <1>0, <2>3, <2>4, <2>5, <2>6, <2>7, <2>8, <2>9
<1>6. ASSUME NEW o \in Operators, NEW n \in Nodes, Refuse(o, n) PROVE TypeInv'
  BY <1>0, <1>6 DEF Refuse, entry, members
<1>7. ASSUME NEW o \in Operators, NEW n \in Nodes, NEW v \in Versions,
             Execute(o, n, v) PROVE TypeInv'
  BY <1>0, <1>7 DEF Execute, entry, members
<1>8. ASSUME NEW o \in Operators, Put(o) PROVE TypeInv'
  <2>1. cached' \in Versions /\ todo' = Up
    BY <1>8 DEF Put
  <2>2. \A p \in Operators : lock' = p <=> at'[p] \in {"putting", "rolling"}
    BY <1>8 DEF Put
  <2>3. missed' \subseteq Nodes /\ threw' = FALSE /\ lock' = o
    BY <1>8 DEF Put, Starting
  <2>4. at' \in [Operators -> InProgress \cup Answers \cup {"idle"}]
    BY <1>8 DEF Put
  <2>5. UNCHANGED <<status, seen, rules, op>>
    BY <1>8 DEF Put
  <2>6. VersionKnown'
    BY <1>0, <1>8, <2>1, <2>5 DEF Put
  <2> QED
    BY <1>0, <2>1, <2>2, <2>3, <2>4, <2>5, <2>6
<1>9. ASSUME NEW o \in Operators, PutReturns(o) PROVE TypeInv'
  BY <1>0, <1>9 DEF PutReturns, members
<1>10. ASSUME NEW n \in Nodes, UpdateToVersion(n) PROVE TypeInv'
  <2>1. status[n] = "up" /\ cached \in Versions
    BY <1>10 DEF UpdateToVersion
  <2>2. \/ rules' = rules
        \/ rules' = [rules EXCEPT ![n] = cached]
    BY <1>10 DEF UpdateToVersion
  <2>3. /\ rules' \in [Nodes -> Versions \cup {NoVersion}]
        /\ \A m \in Nodes : rules'[m] = NoVersion <=> status[m] \in {"down", "failed", "joined"}
    BY <2>1, <2>2
  <2>4. threw' \in BOOLEAN /\ missed' \subseteq Nodes /\ todo' \subseteq todo
    BY <1>10 DEF UpdateToVersion
  <2>5. UNCHANGED <<cached, lock, status, seen, at, op>>
    BY <1>10 DEF UpdateToVersion
  <2>6. VersionKnown' /\ todo' \subseteq Up'
    BY <1>0, <2>4, <2>5
  <2> QED
    BY <1>0, <2>3, <2>4, <2>5, <2>6
<1>11. CASE UNCHANGED vars
  BY <1>0, <1>11 DEF vars, entry, members
<1> QED
  BY <1>1, <1>2, <1>3, <1>4, <1>5, <1>6, <1>7, <1>8, <1>9, <1>10, <1>11
     DEF Next, UpdateStep, Listen

\* A node becomes a starting one only while no put holds the lock.
LEMMA StartingStep == TypeInv /\ StartingMissed /\ [Next]_vars => StartingMissed'
<1> SUFFICES ASSUME TypeInv, StartingMissed, [Next]_vars PROVE StartingMissed'
  OBVIOUS
<1> USE DEF TypeInv, TypeOK, StartingMissed, Starting
<1>1. ASSUME NEW n \in Nodes, JoinInfoCache(n) PROVE StartingMissed'
  BY <1>1 DEF JoinInfoCache
<1>2. ASSUME NEW n \in Nodes, StartRules(n) PROVE StartingMissed'
  BY <1>2 DEF StartRules, entry
<1>3. ASSUME NEW n \in Nodes, AddListener(n) PROVE StartingMissed'
  BY <1>3 DEF AddListener, entry
<1>4. ASSUME NEW n \in Nodes, Stop(n) PROVE StartingMissed'
  BY <1>4 DEF Stop, Leave
<1>5. ASSUME NEW n \in Nodes, Crash(n) PROVE StartingMissed'
  BY <1>5 DEF Crash, Leave
<1>6. ASSUME NEW o \in Operators, NEW n \in Nodes,
             Refuse(o, n) \/ \E v \in Versions : Execute(o, n, v)
      PROVE  StartingMissed'
  BY <1>6 DEF Refuse, Execute, entry, members
<1>7. ASSUME NEW o \in Operators, UpdateStep(o) PROVE StartingMissed'
  BY <1>7 DEF UpdateStep, Put, PutReturns, members
<1>8. ASSUME NEW n \in Nodes, UpdateToVersion(n) PROVE StartingMissed'
  BY <1>8 DEF UpdateToVersion, Up
<1>9. CASE UNCHANGED vars
  BY <1>9 DEF vars, entry, members
<1> QED
  BY <1>1, <1>2, <1>3, <1>4, <1>5, <1>6, <1>7, <1>8, <1>9 DEF Next, Listen

LEMMA ReachedStep == IInv /\ [Next]_vars => Reached'
<1> SUFFICES ASSUME IInv, [Next]_vars PROVE Reached'
  OBVIOUS
<1> USE DEF IInv, TypeInv, TypeOK, Reached, Took, Up
<1>1. ASSUME NEW n \in Nodes, JoinInfoCache(n) PROVE Reached'
  BY <1>1 DEF JoinInfoCache
<1>2. ASSUME NEW n \in Nodes, StartRules(n) PROVE Reached'
  <2>1. CASE /\ rules' = [rules EXCEPT ![n] = seen[n]]
             /\ status' = [status EXCEPT ![n] = "started"]
             /\ UNCHANGED <<cached, seen, todo, missed, lock, threw, at, op>>
    BY <2>1
  <2>2. CASE UNCHANGED <<rules, cached, todo, lock, threw, at, op>>
    BY <1>2, <2>2 DEF StartRules
  <2> QED
    BY <1>2, <2>1, <2>2 DEF StartRules, entry
<1>3. ASSUME NEW n \in Nodes, AddListener(n) PROVE Reached'
  BY <1>3 DEF AddListener, entry, StartingMissed, Starting
<1>4. ASSUME NEW n \in Nodes, Stop(n) PROVE Reached'
  <2> SUFFICES ASSUME NEW o \in Operators, at[o] = "putting", threw = FALSE
               PROVE  /\ cached' = op[o].asked
                      /\ \A m \in Up' \ (todo' \cup missed') : Took(m, cached)'
    BY <1>4 DEF Stop
  <2>1. op[o].host \in Nodes \ {n} /\ status[op[o].host] # "down"
    BY <1>4 DEF Stop, VersionKnown
  <2>2. cached' = cached
    BY <1>4, <2>1 DEF Stop, Leave, Running
  <2> QED
    BY <1>4, <2>2 DEF Stop, Leave
<1>5. ASSUME NEW n \in Nodes, Crash(n) PROVE Reached'
  <2> SUFFICES ASSUME NEW o \in Operators, at'[o] = "putting", threw' = FALSE
               PROVE  /\ cached' = op[o].asked
                      /\ \A m \in Up' \ (todo' \cup missed') : Took(m, cached)'
    BY <1>5 DEF Crash
  <2>1. at[o] = "putting" /\ lock = o /\ op[o].host \in Nodes \ {n}
    BY <1>5 DEF Crash
  <2>2. status[op[o].host] # "down" /\ at'[lock] # "lost"
    BY <2>1 DEF VersionKnown
  <2>3. todo' = todo \ {n} /\ UNCHANGED <<lock, threw, op>>
    BY <1>5, <2>1, <2>2 DEF Crash
  <2>4. cached' = cached
    BY <1>5, <2>1, <2>2 DEF Crash, Leave, Running
  <2> QED
    BY <1>5, <2>1, <2>3, <2>4 DEF Crash, Leave
<1>6. ASSUME NEW o \in Operators, NEW n \in Nodes,
             Refuse(o, n) \/ \E v \in Versions : Execute(o, n, v)
      PROVE  Reached'
  BY <1>6 DEF Refuse, Execute, entry, members
<1>7. ASSUME NEW o \in Operators, Put(o) PROVE Reached'
  BY <1>7 DEF Put
<1>8. ASSUME NEW o \in Operators, PutReturns(o) PROVE Reached'
  BY <1>8 DEF PutReturns, members
<1>9. ASSUME NEW n \in Nodes, UpdateToVersion(n) PROVE Reached'
  BY <1>9 DEF UpdateToVersion
<1>10. CASE UNCHANGED vars
  BY <1>10 DEF vars, entry, members
<1> QED
  BY <1>1, <1>2, <1>3, <1>4, <1>5, <1>6, <1>7, <1>8, <1>9, <1>10
     DEF Next, UpdateStep, Listen

----------------------------------------------------------------------------
(* Between the puts: what a rollback restores, and what a node that starts *)
(* comes up with.                                                          *)

\* Only the put that has the lock has members to reach.
TodoLocked == lock = NoOne => todo = {}

\* A node that is starting and has missed no put has the version in the cache.
StartsCurrent ==
    \A n \in Starting \ missed :
        /\ seen[n] = cached
        /\ status[n] = "started" => rules[n] = cached

\* A rollback has put the old version, and has reached every member but those
\* still to do and those that missed it, unless a listener threw.
RolledBack ==
    \A o \in Operators : at[o] = "rolling" =>
        /\ cached = op[o].old
        /\ threw = FALSE => \A n \in Up \ (todo \cup missed) : Took(n, cached)

PutsInv == TodoLocked /\ StartsCurrent /\ RolledBack

LEMMA InitPutsInv == Init => PutsInv
  BY DEF Init, PutsInv, TodoLocked, StartsCurrent, RolledBack, Starting

LEMMA TodoLockedStep == TypeInv /\ TodoLocked /\ [Next]_vars => TodoLocked'
<1> SUFFICES ASSUME TypeInv, TodoLocked, [Next]_vars PROVE TodoLocked'
  OBVIOUS
<1> USE DEF TypeInv, TypeOK, TodoLocked
<1>1. CASE \E n \in Nodes : JoinInfoCache(n) \/ StartRules(n) \/ AddListener(n)
  BY <1>1 DEF JoinInfoCache, StartRules, AddListener, entry
<1>2. CASE \E n \in Nodes : Stop(n) \/ Crash(n)
  BY <1>2 DEF Stop, Crash
<1>3. CASE \E o \in Operators, n \in Nodes :
              Refuse(o, n) \/ \E v \in Versions : Execute(o, n, v)
  BY <1>3 DEF Refuse, Execute, entry
<1>4. CASE \E o \in Operators : UpdateStep(o)
  BY <1>4 DEF UpdateStep, Put, PutReturns
<1>5. CASE Listen
  BY <1>5 DEF Listen, UpdateToVersion
<1>6. CASE UNCHANGED vars
  BY <1>6 DEF vars, entry
<1> QED BY <1>1, <1>2, <1>3, <1>4, <1>5, <1>6 DEF Next

LEMMA StartsCurrentStep == TypeInv /\ StartsCurrent /\ [Next]_vars => StartsCurrent'
<1> SUFFICES ASSUME TypeInv, StartsCurrent, [Next]_vars PROVE StartsCurrent'
  OBVIOUS
<1> USE DEF TypeInv, TypeOK, StartsCurrent, Starting
<1>1. ASSUME NEW n \in Nodes, JoinInfoCache(n) PROVE StartsCurrent'
  <2>1. \A m \in Starting : m # n /\ cached' = cached
    BY <1>1 DEF JoinInfoCache, VersionKnown
  <2>2. UNCHANGED <<missed, rules>> /\ seen' = [seen EXCEPT ![n] = cached']
        /\ status' = [status EXCEPT ![n] = "joined"]
    BY <1>1 DEF JoinInfoCache
  <2> QED BY <2>1, <2>2
<1>2. ASSUME NEW n \in Nodes, StartRules(n) PROVE StartsCurrent'
  <2>1. cached' = cached /\ status[n] = "joined"
    BY <1>2 DEF StartRules, entry
  <2>2. CASE /\ status' = [status EXCEPT ![n] = "failed"]
             /\ seen' = [seen EXCEPT ![n] = NoVersion]
             /\ missed' = missed \ {n} /\ UNCHANGED rules
    BY <2>1, <2>2
  <2>3. CASE /\ rules' = [rules EXCEPT ![n] = seen[n]]
             /\ status' = [status EXCEPT ![n] = "started"]
             /\ UNCHANGED <<seen, missed>>
    BY <2>1, <2>3
  <2> QED BY <1>2, <2>2, <2>3 DEF StartRules
<1>3. ASSUME NEW n \in Nodes, AddListener(n) PROVE StartsCurrent'
  BY <1>3 DEF AddListener, entry
<1>4. ASSUME NEW n \in Nodes, Leave(n) PROVE StartsCurrent'
  BY <1>4 DEF Leave, Running
<1>5. CASE \E o \in Operators, n \in Nodes :
              Refuse(o, n) \/ \E v \in Versions : Execute(o, n, v)
  BY <1>5 DEF Refuse, Execute, entry, members
<1>6. CASE \E o \in Operators : UpdateStep(o)
  BY <1>6 DEF UpdateStep, Put, PutReturns, members
<1>7. ASSUME NEW n \in Nodes, UpdateToVersion(n) PROVE StartsCurrent'
  BY <1>7 DEF UpdateToVersion, Up
<1>8. CASE UNCHANGED vars
  BY <1>8 DEF vars, entry, members
<1> QED BY <1>1, <1>2, <1>3, <1>4, <1>5, <1>6, <1>7, <1>8 DEF Next, Stop, Crash, Listen

LEMMA RolledBackStep ==
    TypeInv /\ StartingMissed /\ RolledBack /\ [Next]_vars => RolledBack'
<1> SUFFICES ASSUME TypeInv, StartingMissed, RolledBack, [Next]_vars PROVE RolledBack'
  OBVIOUS
<1> USE DEF TypeInv, TypeOK, RolledBack, Took, Up
<1>1. ASSUME NEW n \in Nodes, JoinInfoCache(n) PROVE RolledBack'
  BY <1>1 DEF JoinInfoCache
<1>2. ASSUME NEW n \in Nodes, StartRules(n) PROVE RolledBack'
  <2>1. status[n] = "joined" /\ UNCHANGED <<cached, todo, lock, threw, at, op>>
    BY <1>2 DEF StartRules, entry
  <2>2. /\ \A m \in Nodes \ {n} : rules'[m] = rules[m] /\ status'[m] = status[m]
        /\ status'[n] # "up" /\ missed \ {n} \subseteq missed'
    BY <1>2 DEF StartRules
  <2> QED BY <2>1, <2>2
<1>3. ASSUME NEW n \in Nodes, AddListener(n) PROVE RolledBack'
  BY <1>3 DEF AddListener, entry, StartingMissed, Starting
<1>4. ASSUME NEW n \in Nodes, Leave(n), UNCHANGED op,
             NEW o \in Operators, at[o] = "rolling", op[o].host # n,
             todo' = todo \ {n}, threw' = threw
      PROVE  /\ cached' = op'[o].old
             /\ threw' = FALSE => \A m \in Up' \ (todo' \cup missed') : Took(m, cached)'
  <2>1. op[o].host \in Nodes \ {n} /\ status[op[o].host] # "down"
    BY <1>4 DEF VersionKnown
  <2>2. cached' = cached
    BY <1>4, <2>1 DEF Leave, Running
  <2>3. \A m \in Nodes \ {n} : rules'[m] = rules[m] /\ status'[m] = status[m]
    BY <1>4 DEF Leave
  <2>4. status'[n] # "up" /\ missed' = missed \ {n}
    BY <1>4 DEF Leave
  <2> QED BY <1>4, <2>2, <2>3, <2>4
<1>5. ASSUME NEW n \in Nodes, Stop(n) PROVE RolledBack'
  BY <1>4, <1>5 DEF Stop
<1>6. ASSUME NEW n \in Nodes, Crash(n) PROVE RolledBack'
  <2> SUFFICES ASSUME NEW o \in Operators, at'[o] = "rolling"
               PROVE  /\ cached' = op'[o].old
                      /\ threw' = FALSE =>
                            \A m \in Up' \ (todo' \cup missed') : Took(m, cached)'
    OBVIOUS
  <2>1. at[o] = "rolling" /\ lock = o /\ op[o].host # n
    BY <1>6 DEF Crash
  <2>2. at'[lock] # "lost"
    BY <2>1
  <2>3. todo' = todo \ {n} /\ UNCHANGED <<lock, threw, op>>
    BY <1>6, <2>1, <2>2 DEF Crash
  <2> QED BY <1>4, <1>6, <2>1, <2>3 DEF Crash
<1>7. CASE \E o \in Operators, n \in Nodes :
              Refuse(o, n) \/ \E v \in Versions : Execute(o, n, v)
  BY <1>7 DEF Refuse, Execute, entry, members
<1>8. ASSUME NEW o \in Operators, Put(o) PROVE RolledBack'
  BY <1>8 DEF Put
<1>9. ASSUME NEW o \in Operators, PutReturns(o) PROVE RolledBack'
  BY <1>9 DEF PutReturns, members
<1>10. ASSUME NEW n \in Nodes, UpdateToVersion(n) PROVE RolledBack'
  BY <1>10 DEF UpdateToVersion
<1>11. CASE UNCHANGED vars
  BY <1>11 DEF vars, entry, members
<1> QED
  BY <1>1, <1>2, <1>3, <1>5, <1>6, <1>7, <1>8, <1>9, <1>10, <1>11
     DEF Next, UpdateStep, Listen

LEMMA PutsStep == IInv /\ PutsInv /\ [Next]_vars => PutsInv'
  BY TodoLockedStep, StartsCurrentStep, RolledBackStep DEF IInv, PutsInv

----------------------------------------------------------------------------
\* TypeOK holds of every node, version and operator, also when nodes crash
\* while they start or while they execute an update.
THEOREM UpgradeTypes == Spec => []TypeOK
<1>1. Init => TypeInv
  BY InitIInv DEF IInv
<1>2. TypeInv /\ [Next]_vars => TypeInv'
  BY TypeStep
<1>3. TypeInv => TypeOK
  BY DEF TypeInv
<1> QED
  BY <1>1, <1>2, <1>3, PTL DEF Spec

\* An update is answered with success only when every member that listens
\* runs the version or has found errors in it, however many updates, starts,
\* stops and crashes there are at once.
THEOREM SuccessIsCommon == Spec => ReportedWhenDone
<1> DEFINE Done == \A o \in Operators : at[o] = "putting" /\ at'[o] = "ok" =>
                      \A n \in Up \ missed : Took(n, op[o].asked)
<1>1. Init => IInv
  BY InitIInv
<1>2. IInv /\ [Next]_vars => IInv'
  BY TypeStep, StartingStep, ReachedStep DEF IInv
<1>3. IInv /\ [Next]_vars => [Done]_vars
  <2> SUFFICES ASSUME IInv, Next, NEW o \in Operators,
                      at[o] = "putting", at'[o] = "ok"
               PROVE  \A n \in Up \ missed : Took(n, op[o].asked)
    BY DEF Done
  <2>1. PutReturns(o) /\ threw = FALSE
    BY DEF IInv, TypeInv, TypeOK, Next, JoinInfoCache, StartRules, AddListener,
           Stop, Crash, Refuse, Execute, UpdateStep, Put, PutReturns, Listen,
           UpdateToVersion
  <2> QED
    BY <2>1 DEF IInv, TypeInv, TypeOK, Reached, PutReturns, Up
<1> QED
  BY <1>1, <1>2, <1>3, PTL DEF Spec, ReportedWhenDone, Done, Took
=============================================================================
