--------------------------- MODULE RulesUpgrade ---------------------------
(***************************************************************************)
(* The release of the rules, cluster-wide.  Its version is an entry of the *)
(* replicated cache ___infos; every node's RulesManager follows it through *)
(* an UpdateVersionListener.  RulesUpdateVersionImpl.execute puts a new    *)
(* version and, if the put throws, puts the old one back; a node that      *)
(* starts reads the entry, starts its rules and only then listens.         *)
(*                                                                         *)
(* The cache is REPL_SYNC (external): a put holds the lock of the entry    *)
(* while every member applies it and runs its synchronous listeners, in    *)
(* any order; an exception of a listener comes back from put, and members  *)
(* not reached by then may or may not be.  With persistence every node has a *)
(* file store of its own, which it reads when it starts; a node that joins *)
(* others takes the entry from them.                                       *)
(***************************************************************************)
EXTENDS FiniteSets, Naturals

CONSTANTS
    Nodes,       \* the nodes of the cluster
    Versions,    \* versions of the rules
    Config,      \* the version of every node's RulesConfiguration
    NoVersion,   \* no entry in the cache, no rules on the node
    Operators,   \* who sends UPGRADE commands, one at a time each
    NoOne,       \* the lock of the entry is free
    Missing,     \* <<n, v>>: version v cannot be loaded on node n: throws
    Broken,      \* <<n, v>>: v has errors on node n: updateToVersion is false
    Persistence, \* is the cache ___infos kept on disk?
    MayCrash     \* may a node crash?

ASSUME ConstantsAssumption ==
    /\ Config \in Versions
    /\ NoVersion \notin Versions
    /\ NoOne \notin Operators
    /\ Missing \subseteq Nodes \X (Versions \ {Config})
    /\ Broken \subseteq Nodes \X (Versions \ {Config})
    /\ Persistence \in BOOLEAN
    /\ MayCrash \in BOOLEAN

VARIABLES
    cached,   \* the entry RULES_VERSION
    status,   \* how far HACEPImpl.start is on each node
    seen,     \* what putIfAbsent told the node
    rules,    \* rulesManager.getReleaseId() of each node
    at,       \* how far the update of each operator is
    op,       \* the update each operator asked for
    lock,     \* whose put holds the entry
    todo,     \* members the put has not reached
    threw,    \* a listener threw during the put
    stored,   \* what the file store of each node may hold: both values while
              \* a put has not returned
    missed    \* history: nodes that have not run a version put since
              \* the entry was put while they were starting

entry   == <<cached, lock, todo, threw, stored>>
members == <<status, seen, rules, missed>>
vars    == <<entry, members, at, op>>

InProgress == {"put", "putting", "rollback", "rolling"}
Answers    == {"ok", "error", "lost"}
Ops == [asked : Versions \cup {NoVersion}, old : Versions \cup {NoVersion},
        host : Nodes]

Updating == \E o \in Operators : at[o] \in InProgress
Starting == {n \in Nodes : status[n] \in {"joined", "started"}}
Up       == {n \in Nodes : status[n] = "up"}
Running  == {n \in Nodes : status[n] # "down"}

Init ==
    /\ cached = NoVersion
    /\ status = [n \in Nodes |-> "down"]
    /\ seen = [n \in Nodes |-> NoVersion]
    /\ rules = [n \in Nodes |-> NoVersion]
    /\ at = [o \in Operators |-> "idle"]
    /\ op \in [Operators -> {r \in Ops : r.asked = NoVersion /\ r.old = NoVersion}]
    /\ lock = NoOne
    /\ todo = {}
    /\ threw = FALSE
    /\ stored = [n \in Nodes |-> {}]
    /\ missed = {}

----------------------------------------------------------------------------
\* The file store of these nodes has the entry and nothing else.
Keep(ns) == stored' = [n \in Nodes |-> IF Persistence /\ n \in ns THEN {cached'}
                                                               ELSE stored[n]]

\* What the first node finds: the entry its store was preloaded with, or the
\* version of its configuration, which it puts.
Preloaded(n) == IF stored[n] = {} THEN {Config} ELSE stored[n]

\* Mutant: the first node starts with what putIfAbsent returned to it, null.
JoinWithNull(n) ==
    /\ status[n] \in {"down", "failed"}
    /\ lock = NoOne
    /\ cached' \in IF cached = NoVersion THEN Preloaded(n) ELSE {cached}
    /\ Keep({n})
    /\ seen' = [seen EXCEPT ![n] = cached]
    /\ status' = [status EXCEPT ![n] = "joined"]
    /\ UNCHANGED <<lock, todo, threw, rules, missed, at, op>>

\* HACEPImpl.start, in its three steps that matter here.
\* putIfAbsent returns the entry of the members, or of the node's own store
\* if there are none, or null, and RulesManager takes the configured version.
JoinInfoCache(n) ==
    /\ status[n] \in {"down", "failed"}
    /\ lock = NoOne
    /\ cached' \in IF cached = NoVersion THEN Preloaded(n) ELSE {cached}
    /\ Keep({n})
    /\ seen' = [seen EXCEPT ![n] = cached']
    /\ status' = [status EXCEPT ![n] = "joined"]
    /\ UNCHANGED <<lock, todo, threw, rules, missed, at, op>>

\* What a member leaves behind; only its store survives the last one.
Leave(n) ==
    /\ status' = [status EXCEPT ![n] = "down"]
    /\ rules' = [rules EXCEPT ![n] = NoVersion]
    /\ seen' = [seen EXCEPT ![n] = NoVersion]
    /\ cached' = IF Running \subseteq {n} THEN NoVersion ELSE cached
    /\ missed' = missed \ {n}

\* rulesManager.start; a version the node cannot load aborts the start and
\* leaves the cache running, without a listener.
StartRules(n) ==
    /\ status[n] = "joined"
    /\ \/ /\ <<n, seen[n]>> \in Missing
          /\ status' = [status EXCEPT ![n] = "failed"]
          /\ seen' = [seen EXCEPT ![n] = NoVersion]
          /\ missed' = missed \ {n}
          /\ UNCHANGED rules
       \/ /\ <<n, seen[n]>> \notin Missing
          /\ rules' = [rules EXCEPT ![n] = seen[n]]
          /\ status' = [status EXCEPT ![n] = "started"]
          /\ UNCHANGED <<seen, missed>>
    /\ UNCHANGED <<entry, at, op>>

\* addListener(new UpdateVersionListener(...))
AddListener(n) ==
    /\ status[n] = "started"
    /\ status' = [status EXCEPT ![n] = "up"]
    /\ UNCHANGED <<entry, seen, rules, missed, at, op>>

\* HACEPImpl.stop, or the end of a JVM whose start failed.
Stop(n) ==
    /\ status[n] \in {"up", "failed"}
    /\ \A o \in Operators : at[o] \in InProgress => op[o].host # n
    /\ Leave(n)
    /\ todo' = todo \ {n}
    /\ UNCHANGED <<lock, threw, stored, at, op>>

\* A node crashes and takes the updates it was executing with it.
Crash(n) ==
    /\ MayCrash
    /\ status[n] # "down"
    /\ Leave(n)
    /\ at' = [o \in Operators |->
                IF op[o].host = n /\ at[o] \in InProgress THEN "lost" ELSE at[o]]
    /\ UNCHANGED <<stored, op>>
    /\ IF lock \in Operators /\ at'[lock] = "lost"
         THEN lock' = NoOne /\ todo' = {} /\ threw' = FALSE
         ELSE todo' = todo \ {n} /\ UNCHANGED <<lock, threw>>

----------------------------------------------------------------------------
\* execute(releaseId), on the node that received the command: a release of
\* another group or artifact, or one that is not g:a:v, is refused.
Refuse(o, n) ==
    /\ at[o] \notin InProgress
    /\ n \in Up
    /\ at' = [at EXCEPT ![o] = "error"]
    /\ op' = [op EXCEPT ![o] = [asked |-> NoVersion, old |-> NoVersion, host |-> n]]
    /\ UNCHANGED <<entry, members>>

Execute(o, n, v) ==
    /\ at[o] \notin InProgress
    /\ n \in Up
    /\ at' = [at EXCEPT ![o] = "put"]
    /\ op' = [op EXCEPT ![o] = [asked |-> v, old |-> cached, host |-> n]]
    /\ UNCHANGED <<entry, members>>

\* replicatedCache.put(RULES_VERSION, ...), for the update or the rollback.
Put(o) ==
    /\ lock = NoOne
    /\ \/ /\ at[o] = "put"
          /\ cached' = op[o].asked
          /\ at' = [at EXCEPT ![o] = "putting"]
       \/ /\ at[o] = "rollback"
          /\ cached' = op[o].old
          /\ at' = [at EXCEPT ![o] = "rolling"]
    /\ stored' = [n \in Nodes |-> IF Persistence /\ n \in Running
                                   THEN stored[n] \cup {cached'} ELSE stored[n]]
    /\ lock' = o
    /\ todo' = Up
    /\ threw' = FALSE
    /\ missed' = missed \cup Starting
    /\ UNCHANGED <<status, seen, rules, op>>

\* UpdateVersionListener.eventReceived on one member: updateToVersion throws,
\* or returns false and the container may keep its release, or updates it.
UpdateToVersion(n) ==
    /\ n \in todo
    /\ todo' = todo \ {n}
    /\ \/ /\ <<n, cached>> \in Missing
          /\ threw' = TRUE
          /\ UNCHANGED <<rules, missed>>
       \/ /\ <<n, cached>> \notin Missing
          /\ rules' = [rules EXCEPT ![n] = cached]
          /\ missed' = missed \ {n}
          /\ UNCHANGED threw
       \/ /\ <<n, cached>> \in Broken \ Missing
          /\ UNCHANGED <<rules, missed, threw>>
    /\ UNCHANGED <<cached, lock, stored, status, seen, at, op>>

\* Mutant: the success is reported as soon as one member has the version.
PutReturnsEarly(o) ==
    /\ lock = o
    /\ todo # Up \/ threw
    /\ at' = [at EXCEPT ![o] = IF @ = "rolling" THEN "error"
                               ELSE IF threw THEN "rollback" ELSE "ok"]
    /\ UNCHANGED <<cached, members, op>>
    /\ IF threw THEN UNCHANGED stored ELSE Keep(Running)
    /\ lock' = NoOne /\ todo' = {} /\ threw' = FALSE

\* Mutant: the rollback is tried again until it succeeds.
RetryRollback(o) ==
    /\ lock = o
    /\ todo = {} \/ threw
    /\ at' = [at EXCEPT ![o] = IF threw THEN "rollback"
                               ELSE IF @ = "rolling" THEN "error" ELSE "ok"]
    /\ UNCHANGED <<cached, members, op>>
    /\ IF threw THEN UNCHANGED stored ELSE Keep(Running)
    /\ lock' = NoOne /\ todo' = {} /\ threw' = FALSE

\* put returns, and is in every store, or throws: success is reported, or the
\* old version is put back and the failure reported, however the rollback
\* ends.
PutReturns(o) ==
    /\ lock = o
    /\ todo = {} \/ threw
    /\ at' = [at EXCEPT ![o] = IF @ = "rolling" THEN "error"
                               ELSE IF threw THEN "rollback" ELSE "ok"]
    /\ UNCHANGED <<cached, members, op>>
    /\ IF threw THEN UNCHANGED stored ELSE Keep(Running)
    /\ lock' = NoOne /\ todo' = {} /\ threw' = FALSE

----------------------------------------------------------------------------
UpdateStep(o) == Put(o) \/ PutReturns(o)
Listen        == \E n \in Nodes : UpdateToVersion(n)

Next ==
    \/ \E n \in Nodes : JoinInfoCache(n) \/ StartRules(n) \/ AddListener(n)
                        \/ Stop(n) \/ Crash(n)
    \/ \E o \in Operators, n \in Nodes :
          Refuse(o, n) \/ \E v \in Versions : Execute(o, n, v)
    \/ \E o \in Operators : UpdateStep(o)
    \/ Listen

Spec == Init /\ [][Next]_vars

----------------------------------------------------------------------------
\* Every variable has its type; there is an entry while there is a node; a
\* node that starts or is up has read one, and runs one from StartRules on;
\* and the lock belongs to a put in progress.
TypeOK ==
    /\ cached \in Versions \cup {NoVersion}
    /\ status \in [Nodes -> {"down", "failed", "joined", "started", "up"}]
    /\ seen \in [Nodes -> Versions \cup {NoVersion}]
    /\ rules \in [Nodes -> Versions \cup {NoVersion}]
    /\ at \in [Operators -> InProgress \cup Answers \cup {"idle"}]
    /\ op \in [Operators -> Ops]
    /\ lock \in Operators \cup {NoOne}
    /\ todo \subseteq Nodes
    /\ threw \in BOOLEAN
    /\ stored \in [Nodes -> SUBSET Versions]
    /\ missed \subseteq Nodes
    /\ \A n \in Nodes : /\ seen[n] = NoVersion <=> status[n] \in {"down", "failed"}
                        /\ rules[n] = NoVersion <=>
                              status[n] \in {"down", "failed", "joined"}
    /\ \A o \in Operators : lock = o <=> at[o] \in {"putting", "rolling"}
    /\ todo \subseteq Up
    /\ cached = NoVersion <=> Running = {}

\* When no update is in progress every node runs the version in the cache:
\* the last update reached all of them, or its rollback did.
AllNodesAgree == ~Updating => \A n \in Up : rules[n] = cached

\* Success is answered only when every listening member runs the version that
\* was put, or has found errors in it, also when several operators update at
\* once: RulesUpdateVersionImpl.execute returned and did not throw.
ReportedWhenDone ==
    [][\A o \in Operators :
          at[o] = "putting" /\ at'[o] = "ok" =>
             \A n \in Up \ missed :
                rules[n] = op[o].asked \/ <<n, op[o].asked>> \in Broken]_vars
============================================================================
