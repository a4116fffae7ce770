# HACEP in TLA+

HACEP (Highly Available Complex Event Processing) runs Drools sessions on an
Infinispan cluster. Facts come in over JMS, are put into a distributed cache
and are inserted, on the primary owner of their group, into the KieSession of
that group; the other owners keep a serialized copy and a buffer of the facts
received since, from which the session is rebuilt when the primary owner goes.
The rules and the intake of facts are controlled cluster-wide through a
replicated cache.

This directory models the parts of it that are concurrent or distributed. It
abbreviates paths: `core/` is
`src/hacep-core/src/main/java/it/redhat/hacep/` and `camel/` is
`src/hacep-core-camel/src/main/java/it/redhat/hacep/`.

## 1. The system

| Component | State | Operations | Modules |
|---|---|---|---|
| Serialized session (`core/cache/session/HAKieSerializedSession.java`) | `saving`, `latch`, `version`, `session` (bytes), `size`, `buffer` | `add`, `createSnapshot` and its task, `waitForSnapshotToComplete`, `rebuild`, `rebuildSessionAndUpgrade`, `replayFacts`, externalizer | `SerializedSession`, `SessionTransfer` |
| Session replication (`KieSessionSaver`, `HAKieSession`, `HAKieSessionDeltaFact`, `HAKieSessionDeltaEmpty`, `HAKieSessionBuilder`, `FactListenerPost`, `PutterImpl`) | the fact cache, the session cache, `lastFact`, the locks of `KieSessionSaver` | `put`, `eventReceived`, `insert`, `delta`, `commit`, `merge`, externalizer | `SessionReplication`, `EventLog` |
| Rules upgrade (`RulesUpdateVersionImpl`, `UpdateVersionListener`, `RulesManager`) | the entry `RULES_VERSION` of `___infos`, each node's `releaseId` | `execute`, `eventReceived`, `updateToVersion`, `start` | `RulesUpgrade`, `CommandRoutes` |
| Node life cycle and router control (`HACEPImpl`, `CamelRouter`, `SuspendResumeListener`, `SessionListenerPre`, `SessionListenerPost`) | `started` of node and router, the route `facts`, the entries `SUSPEND_ROUTE`, `RESUME_ROUTE` | `start`, `stop`, `suspend`, `resume`, `eventReceived`, `rehash` | `RouterControl`, `RulesUpgrade` |
| Data grid manager (`DataGridManager`) | the two cache managers | `startCacheInfo`, `start`, `waitForMinimumOwners`, `stop` | assumptions of `SessionReplication`, `RulesUpgrade`, `RouterControl` |
| Camel command routes (`ExecuteCommandsFromJmsRoute`, `UpgradeCommandRoute`, `InfoCommandRoute`, `StatusCommandRoute`, `ResponseToJSONRoute`) | the queue of commands, what each consumer works on | a JSON command to its route and an answer | `CommandRoutes` |
| Fact route (`LoadFactFromJmsRoute`, `InsertFactInGridRoute`) | none | a queue to `insertFact` | not modelled: one call |
| `KieSessionByteArraySerializer`, `KieSessionUtils` | none | marshalling; pseudo clock; dispose | abstracted |
| Examples (rules, console, web page, load generator), test support | - | - | not modelled: see section 5 |

How they interact:

```
JMS "facts" -> CamelRouter route -> HACEPImpl.insertFact -> PutterImpl.put
   -> cache ___events -> FactListenerPost (primary owner) -> KieSessionSaver.insert
   -> HAKieSession.insert -> cache ___sessions.put -> delta() on the primary
   -> HAKieSessionDeltaFact.merge on each backup -> HAKieSerializedSession.add
   -> createSnapshot (executor)                      [other owners]
   -> HAKieSerializedSession.rebuild                 [a backup that became primary]

JMS "commands" -> ExecuteCommandsFromJmsRoute -> direct:<command>
   -> HACEPImpl.update / info / status -> ResponseToJSONRoute -> answer
a caller -> HACEPImpl.update / suspend / resume -> cache ___infos
   -> UpdateVersionListener / SuspendResumeListener on every node
rehash of ___sessions -> SessionListenerPre / Post -> router.suspend / resume
```

What is hard:

* Inside one serialized session: the thread that merges deltas, a task of the
  executor, the thread that rebuilds and the listener that changes the release
  share fields with no lock but a compare-and-set and a latch.
* Between owners: an insertion is a sequence of steps on the primary owner and
  a message to each backup, and a crash or a rule that throws may end it anywhere.
* Cluster-wide: read, put and rollback of the version are three operations of
  different nodes; a node that starts is in the cache before its listener is.
* Every node has a consumer of the one queue of commands, so several nodes may
  update the rules at once, and a node that crashes takes its command with it.
* The router is commanded by operators and by rehashes, which do not know of
  each other, and its own flag survives a start that failed.

What makes each part correct: a serialized session is the facts it was given,
once each, in order, and rebuilding it gives all of them; the owners of a group
have the same session; the rules that the nodes run are those that clients were
answered; a suspended cluster takes no facts and a resumed one does. `PROJECT.json` lists
under `hazards` each place where this could go wrong, and the properties for it.

## 2. The modules

### SerializedSession

One object, all threads. A step is one access to a shared field, so that
`size++`, the two tests `buffer.isEmpty()`, `saving.get()` and `latch.await()`,
and the two lines of the finally block of the snapshot task can interleave with
anything. A fact is its number in the order of arrival; a KieSession and its
bytes are the sequence of facts inserted. The channels, the clock and the rules
themselves are left out.

| Actions | Code |
|---|---|
| `Add`, `Offer`, `ReadSize`, `WriteSize`, `needToSave` | `add`, with `size++` in two |
| `CompareAndSet`, `Execute` | `createSnapshot` |
| `Rebuild`, `IsSaving`, `ReadLatch`, `Await`, `Rebuilt` | `rebuild`, `waitForSnapshotToComplete` |
| `CheckUpgrade`, `Load`, `IfNotEmpty`, `WhileNotEmpty`, `Remove`, `ResetSize` | `isUpgradeNeeded`, `buildSession`, `replayFacts`, by any thread |
| `SaveUpgraded`, `SetVersion` | `rebuildSessionAndUpgrade` |
| `SaveSnapshot`, `Unsave`, `CountDown` | the end of the snapshot task |
| `Fail` | the marshaller, the container or the rules throw |
| `UpdateRelease` | the node's `RulesManager` moves to another release |

All of them run beside each other. In particular nothing in the code keeps
`add` from running beside `rebuild`: `KieSessionSaver` takes a lock that `merge`
does not, and a node that takes over may still be merging a delta, for long if
that upgrades the session first. There is one thread that merges, because the
data grid applies the deltas of a key one after the other, and one rebuild,
after which the object is not in the cache any more. `MayFail` lets anything
that reads or writes a session throw.

`offered`, `due` (what had been offered when `rebuild` was called) and four marks
are history variables: `stolen`, a task counted down another latch than its
own; `joined`, a task started after the rebuild had looked for one; `clashed`,
two threads drained the buffer together; `dropped`, the facts in a session that
was thrown away by an exception.

### SessionTransfer

The same object while `HASerializedSessionExternalizer.writeObject` sends it to
a new owner. It extends `SerializedSession`, whose threads go on: the length of
the snapshot, the snapshot, its version, the size of the buffer and the buffer
are read in steps of their own (`WriteLength`, `WriteSession`, `WriteVersion`,
`NewArray`, `Take`, `WriteArray`), and `Restart` is what `toArray` of a
`ConcurrentLinkedQueue` does when the queue has outgrown the array. `Readable`
and `CopyOfSession` are `readObject`. `disturbed` is a history variable: the
buffer was being drained at some time during the write.

### SessionReplication and EventLog

The session of one group on all nodes. `KieSessionSaver.insert` is
`Lock`, then one of `Build`, `Rebuild` and `UseLive`, then `Insert`, a
`MergeDelta` for each other owner, and `PutBack`; where the code has no catch,
the alternative with `MayFail` releases the lock and leaves everything else as
it was. `Crash`, `Join` and `Rehash` are external. `EventLog` is what the
component promises: a log that only grows, by a fact that it does not have.
`LogKept` is that promise of the facts which every owner has (the shortest of
the owners' sessions), and `log` the refinement mapping.

Facts are put once: a second put of a key is a modification, which
`FactListenerPost` ignores. The caches are synchronous (`DIST_SYNC`, the
default of `grid.mode`), the backups apply a write before the primary owner
commits it, and a crash loses the insertions that the node was doing. A rehash
happens while nothing is inserted, which is what `SessionListenerPre` is for; a
fact being inserted when the route is suspended is not modelled.

### RulesUpgrade

Nodes start (`JoinInfoCache`, `StartRules`, `AddListener`: the three steps of
`HACEPImpl.start` between which something can happen), stop and crash;
operators send updates (`Execute`, `Refuse`), whose put holds the lock of the
entry (`Put`), reaches the members one by one in any order (`UpdateToVersion`)
and returns or throws (`PutReturns`), whereupon the old version is put the
same way. `Missing` are the versions that cannot be loaded on a node, `Broken`
those where `updateToVersion` logs errors and returns false. `MCRulesUpgrade`
gives them values. `missed` is a history variable: the nodes that were
starting when a version was put and have not taken one since. A version that
was read (`op[o].old`) may be stale when it is put back.

With `Persistence` every node has a file store of its own (`shared(false)`,
`preload(true)`), `stored`: what a node has there when it leaves is what it finds
when it is the first to start again, which may be older than the version the last
node had. A node that joins others takes the entry from them. While a put has
not returned, a store may hold either value; a node that crashes then keeps the
choice until it starts.

### CommandRoutes

The commands that clients send to the queue, on top of `RulesUpgrade`, which it
extends: a message is an operator of that module. `Consume` takes it from the
queue, `CallUpdate`, `RespondUpdate`, `RespondInfo` and `FailUnrouted` are the
routes with their `onException`, `StopNode` and `CrashNode` what becomes of a
message when its node goes. A message is acknowledged when it is taken (the
default of the JMS component), so that it is lost in a crash. `effective`, the
version last answered with success, `mixed`, the updates that overlapped with
another, `behind`, the nodes that are down and were while an update was worked
on, and `clean`, which an overlap, an update lost with its node, a rollback that
throws and a cluster that starts again with the old version of a node in
`behind` make false until an update succeeds alone, are history variables.
Every step of `CommandRoutes` is a step of `RulesUpgrade` or leaves its
variables alone, which is proved. `MCCommandRoutes` has the values.

### RouterControl

`HACEPImpl.start` and `stop` in the steps that matter to the router, SUSPEND and
RESUME as puts of two entries of `___infos`, which may be on their way at the
same time and are delivered to one member at a time, and the two events of a
rehash, which each member gets at its own time. `wanted` (the last command),
`crossed` (the other one was still on its way), `late`, `woken` and `botched`
are history variables.

## 3. The runs

| Run | Question | Result |
|---|---|---|
| `session_transfer` | deltas and a rebuild at any time, snapshots, and a write to a new owner: is anything lost? | not before the rebuild; in the rebuilt session only after a latch was stolen or a task started unseen; in the copy only if the buffer was drained meanwhile, and it is in order even then |
| `session_races` | deltas, snapshots, upgrades and a rebuild, failing anywhere | snapshots exclude each other; no fact twice or out of order; a fact vanishes only with a session thrown away or when two threads drain together |
| `session_returns` | a rebuild with deltas that replace the latch it awaits, and failing snapshots | its latch is open or will be, and it ends, unless a latch was stolen; only a fact that is offered puts that off, by two steps |
| `session_lost_facts` | is a rebuilt session complete, if no task started unseen? | **violated** by a stolen latch |
| `session_hangs` | does a rebuild always end? | **violated**: its latch may be replaced and never counted down |
| `replication_crashes` | two owners, nodes crash, join and take over | owners agree, `EventLog` is implemented, what was answered is kept |
| `replication_throws` | three owners, crashes and rules that throw | no copy has a fact twice, and no two have two facts in opposite orders |
| `commands_agree` | three updates, two nodes that consume them, crashes, a version missing on one node and broken on the other | a message is executed once, success means that every listening member took the version, and clients know what the nodes run, with the exceptions named |
| `commands_served` | all kinds of commands | none waits for ever while a node is up |
| `updates_collide` | do failed updates change nothing? | **violated** by two at once |
| `upgrade_join_race` | do all nodes agree? | **violated** by a put while a node starts |
| `router_flow` | commands, rehashes, starts and stops in any order | suspended or resumed, and with a route, with the exceptions named |

The four violated ones are findings in `PROJECT.json`, each with the line of the
documentation or the test it goes against.

* The stolen latch: the finally block of a snapshot task clears `saving` and
  then counts down `this.latch`; between the two, `add` may start the next task
  and install its latch, which is then released too early. `rebuild` does not
  wait for that task, the two empty the buffer together and the rebuilt session
  lacks the facts the task took.
* The latch that nobody counts down: a rebuild reads latch 1, task 1 clears
  `saving`, `add` installs latch 2, and task 1 counts that down. The rebuild
  waits for ever. It takes the same gap in the finally block, and
  `RebuildReturnsUnlessStolen` shows that nothing else makes a rebuild hang.
* Two updates that fail at once: `execute` reads the old version outside of the
  lock of its put. The consumer of a second node reads the version of the first
  update while that is failing, fails itself and rolls back to it. Both clients
  are told ERROR, and the nodes end with different rules.
* A put while a node starts: the node has read the version and does not listen
  yet, so that it keeps the rules it started with.

What the models also show, and what is therefore not stated as a property:

* The snapshot that was not seen: a rebuild looks for a snapshot once. An `add`
  that is still being merged when the node takes over may start one after
  `saving.get()` returned false, or may have set `saving` and not yet replaced
  the latch, so that the rebuild awaits the old one, which is open. Then too the two
  empty the buffer together (`joined`). `RebuiltCompleteUnlessRaced` shows that this
  and the stolen latch are the only two ways in which a rebuilt session lacks
  facts, when the rules are steady and nothing fails.
* With `MayFail`, a snapshot task that throws after it has emptied the buffer
  loses those facts: `NothingLost` holds only without failures. What does hold
  then is `NothingVanishes`, which names the two ways a fact can leave the object.
* A copy written while a snapshot, an upgrade or a rebuild drains the buffer may
  lack facts (the old snapshot with the drained buffer), and may be one that
  `readObject` refuses: an array with trailing nulls, or a length that is not
  that of the bytes behind it.
* With `MayFail`, a session whose rules throw on the primary owner has the fact
  and the backups do not: the put is never reached. A rebuild that throws has
  drained the buffer, so that facts whose put returned are gone from that copy.
  `OwnersAgree` and `DoneSurvive` hold only where nothing throws.
* With three owners, a crash in the middle of a put leaves the delta on some
  backups and nobody sends it to the others: `OwnersAgree` and `LogKept` are
  properties of two owners. What is left of them there is `CommonOrder`: the
  facts that two owners both have are in one order.
* After updates that overlapped, one whose node crashed, or one whose rollback
  could not be applied everywhere, the nodes may run something no client was told
  of until an update succeeds alone: that is what `clean` excludes from
  `AnswersTellTheRules`.
* With `Persistence` a cluster that stopped completely starts again with the
  version in the store of whichever node is first. One that had left before an
  update brings back the version from before it, although the update was answered
  with success. `clean` excludes that too, and only that: the version outlives
  the last node if the first to start was there for every update.
* The answer to a command whose node crashed is never given: `OneExecutor` says
  that it is not executed again either.
* A member where `updateToVersion` returns false keeps its rules, and the update
  is answered with success: `ReportedWhenDone` allows for members with errors.
* The end of a rehash resumes a route that an operator suspended: `woken` in
  `SuspendHolds`.
* SUSPEND and RESUME sent through the queue of commands are never executed nor
  answered, because `CamelRouter` adds no route for them; `CommandsServed` says
  that they do not block the queue.
* SUSPEND and RESUME that cross leave the nodes in either state, some in one and
  some in the other: `SuspendHolds` and `ResumeHolds` then say nothing until the
  next command.
* A router whose start failed is marked started, so that the node's next start
  does not start it: `UpHasRoute` shows that this is the only way a node is up
  without a route.
* `UpdateVersionListener` is given the router and never uses it: rules are
  updated while the route takes facts, although
  `src/docs/summit2017/HACEP-Hands-on-labs.txt:663` says that HACEP stops the
  flow of messages first.

### Bounds

* `SerializedSession`: with `MaxBuffer` 1 a snapshot starts at the second fact,
  which is when a rebuild can fail to see it. 3 facts give two tasks after one
  another, the second of which starts before the first has counted down: the
  stolen latch and the rebuild that hangs take that many. Their runs find them. In
  `session_transfer` the object starts with up to 2 facts in snapshot and
  buffer, as one read from the wire does, so that the queue outgrows the array
  that is being filled and a snapshot starts during the write. Its rules are
  steady: with upgrades, which drain the buffer beside a snapshot, `NothingLost`
  and `RebuiltCompleteUnlessRaced` do not hold. `session_races` has two
  releases, so that an upgrade happens during everything else, and with failures
  that is too much for 3 facts: it has `MaxBuffer` 0, a snapshot for every fact,
  which gives two tasks with 2 facts. `session_returns` has one: what upgrades add
  to a rebuild is a second pass over the buffer, and with two a liveness property
  is out of reach; that only offers prolong a rebuild is proved with upgrades too. As
  the facts are bounded, so is the number of deltas during a rebuild: a rebuild
  that deltas outrun for ever is not in the model, and `OnlyOffersProlong` says
  what each of them costs.
* `SessionReplication`: 3 nodes, 2 owners (the default of `grid.owners`), 3
  facts: one before, one during and one after a take-over, and a third node to
  take over to. `replication_throws` has 3 owners, so that a crash can leave a
  delta on some of them.
* `RulesUpgrade` and `CommandRoutes`: 2 nodes and the versions 1 and 2, of which
  2 cannot be loaded on one node (while that is up, updates to 2 fail after the
  other took it, or before) and has errors on the other; without the first node
  they succeed. 3 updates are two that collide and one that follows, which is
  how agreement is restored; for liveness 2 messages of any kind, one behind the
  other. Joining nodes meet a put in every state. Commands are interchangeable
  in the specification and in its safety properties, so that `commands_agree`
  uses symmetry; `commands_served`, a liveness property, does not.
  `commands_agree` has `Persistence`, with a store on each of two nodes, so that
  each may be the one that left before an update; in `commands_served` and
  `updates_collide` nothing is kept on disk and the version ends with the last node.
* `RouterControl`: 2 nodes and both commands; no step relates three nodes.

### Fairness

`SerializedSession!FairSpec` has weak fairness of the steps of a call that has
begun and of each snapshot task: threads are scheduled, and the executor has
four threads and an unbounded queue. Nothing obliges anyone to call `add` or
`rebuild` or to change the rules. `CommandRoutes!FairCommandSpec` has weak
fairness of the delivery of a message while some node has a free consumer, of
the thread of Camel that works on a message, of the delivery of a put to the
members and of its return, and strong fairness of the grant of the lock of the
entry, since several puts compete for it and the cache serves them in turn; no
fairness for clients, starts, stops or crashes. The other modules have only
safety properties.

## 4. The proofs

Proved by TLAPS for every value of the constants that the `ASSUME`s allow.
Each argument is an inductive invariant: it holds initially, every action
keeps it (one step of the proof per action), and it implies the property.

* `SerializedSessionProofs`
  * `TypeCorrect`: `TypeInv` adds to `TypeOK` that the number of latches made
    is at most the number of facts arrived, and less while an `add` has not
    made its own, without which `latch + 1` might name no task.
  * `SnapshotExclusion`: `ExclusionInv` adds that no task is active while `add`
    is between the compare-and-set and its `execute`.
  * `ReplayOrder`: `OrderInv` relates the end of every session being built to
    the facts still in the buffer: everything in any session is older than
    everything in the buffer, and the buffer is increasing. That the
    compare-and-set excludes is not needed, which is why the property holds
    with upgrades, snapshots and rebuilds that overlap.
  * `LatchWillOpen`: `WaitInv` says of every latch that was made, and not only of
    the one in the field, that it is open or that its own task is active or about
    to count down, which it will do through the finally block whatever throws. An
    `add` that replaces the latch in the field therefore disturbs nobody, as long
    as every task counts down its own: `stolen` is the exception.
  * `RebuildAdvances`, an action property: `StepsLeft` is the stage a thread has
    reached plus two steps for each fact in the queue, plus those of a second
    pass when it is upgrading. A step of the rebuild or of a task lowers its own
    count (`ReplayAdvances`); no step of another thread raises it (`OthersWait`)
    but `Offer`, by two.
    `LatchWillOpen` and this theorem are the safety part of
    `RebuildReturnsUnlessStolen`: what TLC adds is that fair threads do take the
    steps that are left, for the finitely many deltas of an instance.
  * `FactsVanishInTwoWays`: as long as no two threads have drained the buffer
    together, the one that drains it has everything of the snapshot it started
    from (`OneDrains`), so that storing its session loses nothing, and nobody
    else but a rebuild that has ended holds a session (`EmptyHands`).
* `SessionWholeProofs`, for rules that do not change and nothing that throws
  (`SteadyRules`), any buffer size and number of facts
  * `NothingIsLost`: `TaskOrder` says that tasks are made one after the other and
    only the last one is active; `Whole`, where the facts are until a rebuild
    drains the buffer, with the one task that may.
  * `RebuiltSessionComplete`, with deltas that go on arriving: `Latches` says that
    a latch at zero is that of a task that has ended, unless one was stolen;
    `SaverTurn`, that a rebuild awaits the latch of the last task unless another
    one has started since, and finds no task active when it has waited, unless
    it is raced. `Gathered` then says what the rebuild has of the snapshot and of
    a buffer to which only `add` appends, from the step in which it stops waiting
    to the end of the loop; the facts due are among those.
* `SessionTransferProofs`
  * `CopyOrdered`, with upgrades, rebuilds and failures alongside: what was
    written of the snapshot is older than everything in the buffer, then and
    later (`CopyInv`), because facts move from the buffer to the snapshot and
    the snapshot is read first.
  * `CopyIsWhole`, for rules that do not change and nothing that throws: while
    nobody drains the buffer the snapshot does not change, what was written of
    the object is still what it has, and the array that is being filled is the
    beginning of a buffer that only grows (`StillWhole`). The iteration has
    therefore passed exactly the facts in the array (`PassedThose`). That no task
    is draining when the write begins comes from `WholeInv` of
    `SessionWholeProofs`.
* `RulesUpgradeProofs`
  * `UpgradeTypes`: `VersionKnown` adds that the entry exists while any node is
    a member, that stores are empty without persistence and that an update in
    progress is on a node that is up.
  * `SuccessIsCommon`: `StartingMissed` says that nodes which start during a put
    are counted as having missed it, and `Reached` that a put that has not
    failed has reached every member but those still to do and those that missed
    it; a member that was reached runs the version or found errors in it.
  * `PutsInv`, an invariant for `CommandRoutesProofs`: only a put in progress has
    members to reach, a node that is starting has the version of the cache or is
    counted as having missed it, and a rollback in which no listener threw has
    reached every member but those still to do and those that missed it.
* `CommandRoutesProofs`
  * `RoutesImplementUpgrade`: a step of a route is a step of `RulesUpgrade` with
    the message as its operator, or changes none of its variables.
  * `SuccessOfCommand` follows from it and `SuccessIsCommon`.
  * `ExecutedByOne`: a message in the queue is there once (`QueuedOnce`), with no
    consumer and neither executed nor answered (`Queued`); that of a consumer is
    of no other consumer and not answered (`Consumed`).
  * `AnswersAreTrue`: while `clean`, at most one update is worked on. Before its
    put, and after a failure was rolled back, the cache and the members have what
    clients were told (`NothingGoesOn`); what it would put back is that version
    (`OldIsEffective`, which is where two colliding updates go wrong); and one
    that returned without an overlap has its version everywhere, also when it
    started from a cluster in disorder (`AloneSettles`). Each of these says of
    the stores of the members too that they have the entry (`Saved`), so that a
    node that leaves between updates, and is not in `behind`, would bring back
    what clients were told (`Remembered`). `KindsOfSteps` sorts the
    steps by what they do to the update that is worked on, and a lemma for each
    kind says what it leaves of `Working`.
* `RouterControlProofs`
  * `RouterTypes`, `SuspendSilences`, `ResumeWakes`: `Suspending` and
    `Resuming` say the property also for the time in which the command is on
    its way, with the members still to be reached as the exception.
  * `RouteOfEveryNode`: a router that is marked started and has no route is one
    whose start failed (`FlagWithoutRoute`).
* `SessionReplicationProofs`
  * `ReplicationTypes`: `PutState` adds that a put has only other owners to
    reach and that `lastFact` is still the fact being inserted.
  * `FactsOnce`, for any number of owners, with crashes and rules that throw:
    `Fresh` says that a fact whose insertion is still to come is in no session
    and no copy, and one that is being put is in no copy that its delta has
    still to reach; `Once`, that the snapshot, the buffer and the live session
    of every node have no fact twice and snapshot and buffer none in common, so
    that a rebuild concatenates them safely. The lemmas `AppendOnce` and
    `ConcatOnce` say so of sequences.
  * `OrderIsCommon`, also for any number of owners, with crashes and rules that
    throw: `OneOrder` says of all nodes together, nodes that have left and live
    sessions included, that no two facts are anywhere in both orders, and that
    nothing is anywhere behind the fact that is being inserted. A session that
    takes the delta gets only that fact, at its end (`OneMore`); every other step
    copies, joins or drops sessions (`NothingNew`).

* `SessionAgreementProofs`, for at most two owners and rules that do not throw
  (`TwoOwners`), any nodes and facts, with crashes
  * `OwnersStayEqual`: the primary owner is ahead of the other one by the fact
    that its put has still to send there, and by nothing else (`Ahead`).
  * `DoneStays`: a fact that is being put is in the primary owner's live session,
    and one whose put returned in the session of every owner (`Durable`).
  * `LogIsKept`: the refinement. The log is the session of the backup, which the
    delta reaches last, or of the only owner (`LogShape`); it grows when the delta
    is merged, when the only owner inserts, and when a backup crashes that the
    delta had not reached, and no other step changes it.

Every invariant and action property of a passing run is stated by a theorem.
Only model-checked are the liveness properties `RebuildReturnsUnlessStolen` and
`CommandsServed`: everything about fairness is out of the prover's reach.
The hypotheses `SteadyRules` and `TwoOwners` are those under which the runs
check the same properties; section 3 says what happens without them.

## 5. External, and not modelled

Infinispan is modelled from how the code uses it: a synchronous put of a
replicated entry excludes other puts of it, runs the listeners of every member
before it returns, and brings back their exceptions; a distributed cache
notifies the primary owner of a created entry and sends deltas to the others,
those of one key one after the other. A node that joins a replicated cache takes
its entries from the members, whatever is in its own store.
Drools is: sessions are restored from their bytes, or an exception. The
operations of Camel on a route that does not exist do nothing, an exception that
leaves a route is logged and sends no reply, and the broker gives a message to
one consumer. The iteration of a `ConcurrentLinkedQueue` meets its elements in
order and misses none that stays in it.

Not modelled: time (the pseudo clock of `KieSessionUtils.advanceClock`, the
expiry of facts after `maxIdle`), eviction and the file store of sessions,
channels and their replay variants, more than one group (groups share nothing
but the executor and the release), what `info` and `status` report (they change
nothing), a rehash while a fact is being inserted, the map of locks that only
grows, the configuration code of `DataGridManager`, and the minute after which
`waitForMinimumOwners` lets a node start anyway.

All of HACEP itself is Java. The only JavaScript of the repository belongs to
the web page of an example: copies of `d3.js`, `d3-scale-chromatic.js` and
`stomp.js`, and about a hundred lines that draw bubbles and convert numbers.
None of it is modelled; it has no part in what HACEP promises. The example
rules (`ConsecutiveDaysAccumulateFunction` among them), the console and the load
generator are not modelled for the same reason.

## 6. Order, and what is left

Written in this order, the most important behaviour first: `SerializedSession`;
`RulesUpgrade`; `SessionReplication` with `EventLog`; `RouterControl`; each with
its proofs; then `SessionTransfer`, `CommandRoutes`, and the proofs
`SessionAgreementProofs`, `SessionWholeProofs`, `CommandRoutesProofs`.

Left:

1. `SerializedSession` as the copy of `SessionReplication`: an abstract
   serialized session (image, buffer) that the detailed one implements between
   rebuilds.
2. The redelivery of facts by the broker against their expiry, which needs time;
   the side effects (channels) of a fact that is inserted, lost and redelivered.
3. Insertions that go on during a rehash.
4. How many deltas a rebuild can meet on a running cluster: those in flight
   when the node took over. The model lets them arrive for as long as there are
   facts; `SessionReplication` could bound them.
5. A measure for `CommandsServed` like the one of `OnlyOffersProlong`.
