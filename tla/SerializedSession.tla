------------------------ MODULE SerializedSession ------------------------
(***************************************************************************)
(* One HAKieSerializedSession: the copy of a Drools session that a backup  *)
(* owner keeps in the session cache.  It is a byte array (the last         *)
(* snapshot) and a queue of the facts received since, which are replayed   *)
(* into the snapshot either by a task of the executor (createSnapshot),    *)
(* by an upgrade of the rules (rebuildSessionAndUpgrade) or by the node    *)
(* that becomes the primary owner (rebuild).                               *)
(*                                                                         *)
(* Threads: the one that merges deltas (add), the one of KieSessionSaver   *)
(* (rebuild), one per snapshot task, and the listener that moves the       *)
(* RulesManager to another release.  A step is one access to a field that  *)
(* two threads share.  A fact is its position in the order of arrival and  *)
(* a KieSession, live or serialised, is the sequence of the facts inserted *)
(* in it.                                                                  *)
(***************************************************************************)
EXTENDS Integers, Sequences

CONSTANTS
    MaxBuffer,   \* RulesManager.getMaxBufferSize(), the property grid.buffer
    MaxFacts,    \* bound: facts the object ever sees
    MaxRelease,  \* bound: releases of the rules, 1..MaxRelease
    InitFacts,   \* bound: facts the object is created with
    MayFail      \* may the marshaller or the rule engine throw?

ASSUME BoundsAssumption ==
    /\ MaxBuffer \in Nat
    /\ MaxFacts \in Nat
    /\ MaxRelease \in Nat \ {0}
    /\ InitFacts \in 0..MaxFacts
    /\ MayFail \in BOOLEAN

VARIABLES
    saving,    \* AtomicBoolean: a snapshot is scheduled or running
    latch,     \* the field latch; the k-th latch is made for the k-th task
    count,     \* the count of every CountDownLatch
    session,   \* the snapshot; a null byte array is the session of no facts
    version,   \* the release the snapshot is labelled with
    buffer,    \* ConcurrentLinkedQueue of the facts to replay
    size,      \* plain long: the number of facts believed to be in buffer
    release,   \* rulesManager.getReleaseId()
    arrived,   \* the last fact that reached add
    offered,   \* history: every fact that entered buffer, in order
    pc,        \* where each thread is
    mode,      \* which of its two callers replayFacts returns to
    kie,       \* the KieSession each thread works on
    sizeRead,  \* the value add read for size++
    awaited,   \* the latch rebuild awaits
    due,       \* history: what had been offered when rebuild was called
    joined,    \* history: a task started after rebuild had looked for one
    stolen,    \* history: a task counted down a latch other than its own
    clashed,   \* history: two threads drained the buffer together
    dropped    \* history: facts in a session that was thrown away

gate  == <<saving, latch, count>>
image == <<session, version>>
queue == <<buffer, size>>
input == <<release, arrived, offered>>
aux   == <<sizeRead, awaited>>
marks    == <<due, joined, stolen, clashed>>
history  == <<marks, dropped>>
allButPc == <<gate, image, queue, input, aux, mode, kie, history>>
vars     == <<allButPc, pc>>

Saver   == -1
Delta   == 0
Tasks   == 1..MaxFacts       \* add makes at most one snapshot task per fact
Threads == {Saver, Delta} \cup Tasks

Facts    == 1..MaxFacts
Releases == 1..MaxRelease
Sessions == Seq(Facts)
NoSession == <<>>            \* null, and a session no fact was inserted in

\* Where a thread is inside replayFacts and its callers.
ReplayPCs == {"load", "replay", "while", "remove", "fired", "built",
              "label"}
PCs == ReplayPCs \cup
       {"idle", "offer", "readSize", "writeSize", "needToSave", "cas",
        "newLatch", "wait", "readLatch", "await", "check", "unsave",
        "countDown", "done", "failed"}

Upto(m, n) == [i \in 1..(n - m) |-> m + i]    \* the facts m+1, ..., n
Elems(s)   == {s[i] : i \in 1..Len(s)}        \* the facts in a session or queue

\* The thread has loaded the snapshot and may be taking facts from the buffer.
Draining(th) == pc[th] \in {"replay", "while", "remove", "fired", "built"}

----------------------------------------------------------------------------
\* A new object, one that wraps a live session, or one read from the wire,
\* whose buffer is not empty and whose transient size is 0.
Init ==
    /\ saving = FALSE
    /\ latch = 0
    /\ count = [l \in {0} \cup Tasks |-> IF l = 0 THEN 0 ELSE 1]
    /\ arrived \in 0..InitFacts
    /\ offered = Upto(0, arrived)
    /\ \E m \in 0..arrived : session = Upto(0, m) /\ buffer = Upto(m, arrived)
    /\ version \in Releases
    /\ size = 0
    /\ release \in Releases
    /\ pc = [th \in Threads |-> "idle"]
    /\ mode = [th \in Threads |-> "build"]
    /\ kie = [th \in Threads |-> NoSession]
    /\ sizeRead = 0
    /\ awaited = 0
    /\ due = <<>> /\ dropped = {}
    /\ joined = FALSE /\ stolen = FALSE /\ clashed = FALSE

Goto(th, label) == pc' = [pc EXCEPT ![th] = label]

isUpgradeNeeded == version # release

\* KieSessionUtils.dispose, in the finally blocks.
Dispose(th) == kie' = [kie EXCEPT ![th] = NoSession]

\* Enter rebuildSessionAndUpgrade or buildSession.
Enter(th, m) ==
    /\ Goto(th, "load")
    /\ mode' = [mode EXCEPT ![th] = m]

\* The session a thread has built so far is thrown away.
Discard(th) ==
    /\ Dispose(th)
    /\ dropped' = dropped \cup (Elems(kie[th]) \ Elems(session))

\* Mutant: the finally block of createSnapshot only follows success.
ThrowPastFinally(th) ==
    /\ Goto(th, IF th = Delta THEN "idle"
                ELSE IF th = Saver THEN "failed" ELSE "done")
    /\ Discard(th)

\* An exception leaves add and rebuild; a snapshot task catches it and
\* goes on with its finally block.
Throw(th) ==
    /\ Goto(th, IF th = Delta THEN "idle"
                ELSE IF th = Saver THEN "failed" ELSE "unsave")
    /\ Discard(th)

----------------------------------------------------------------------------
\* add(f), called by HAKieSessionDeltaFact.merge.  Nothing keeps it from
\* running beside rebuild: a node may become the primary owner while it is
\* still merging a delta, or before the last one has reached it.
Add ==
    /\ pc[Delta] = "idle"
    /\ arrived < MaxFacts
    /\ arrived' = arrived + 1
    /\ IF isUpgradeNeeded
         THEN Enter(Delta, "upgrade")
         ELSE Goto(Delta, "offer") /\ UNCHANGED mode
    /\ UNCHANGED <<gate, image, queue, aux, release, offered, kie, history>>

Offer ==
    /\ pc[Delta] = "offer"
    /\ buffer' = Append(buffer, arrived)
    /\ offered' = Append(offered, arrived)
    /\ Goto(Delta, "readSize")
    /\ UNCHANGED <<gate, image, aux, size, release, arrived, mode, kie, history>>

\* size++ on a plain field: a read, then a write.
ReadSize ==
    /\ pc[Delta] = "readSize"
    /\ sizeRead' = size
    /\ Goto(Delta, "writeSize")
    /\ UNCHANGED <<gate, image, queue, input, mode, kie, awaited, history>>

WriteSize ==
    /\ pc[Delta] = "writeSize"
    /\ size' = sizeRead + 1
    /\ sizeRead' = 0
    /\ Goto(Delta, "needToSave")
    /\ UNCHANGED <<gate, image, input, buffer, mode, kie, awaited, history>>

needToSave ==
    /\ pc[Delta] = "needToSave"
    /\ Goto(Delta, IF size > MaxBuffer THEN "cas" ELSE "idle")
    /\ UNCHANGED allButPc

\* Mutant: saving is set, not compared and set.
SetSaving ==
    /\ pc[Delta] = "cas"
    /\ saving' = TRUE
    /\ Goto(Delta, "newLatch")
    /\ UNCHANGED <<image, queue, input, aux, latch, count, mode, kie, history>>

\* createSnapshot: at most one snapshot at a time.
CompareAndSet ==
    /\ pc[Delta] = "cas"
    /\ saving' = TRUE
    /\ Goto(Delta, IF saving THEN "idle" ELSE "newLatch")
    /\ UNCHANGED <<image, queue, input, aux, latch, count, mode, kie, history>>

\* latch = new CountDownLatch(1); executor.execute(...)
Execute ==
    /\ pc[Delta] = "newLatch"
    /\ latch' = latch + 1
    /\ pc' = [pc EXCEPT ![Delta] = "idle", ![latch + 1] = "check"]
    /\ joined' = (joined \/ pc[Saver] \in ReplayPCs \cup {"await", "check"})
    /\ UNCHANGED <<image, queue, input, aux, saving, count, mode, kie, due, stolen,
                   clashed, dropped>>

----------------------------------------------------------------------------
\* rebuild(), called by KieSessionSaver.insert: first
\* waitForSnapshotToComplete.
Rebuild ==
    /\ pc[Saver] = "idle"
    /\ due' = offered
    /\ Goto(Saver, "wait")
    /\ UNCHANGED <<gate, image, queue, input, aux, mode, kie, joined, stolen, clashed,
                   dropped>>

\* Mutant: rebuild does not wait for the snapshot.
DontWait ==
    /\ pc[Saver] = "wait"
    /\ Goto(Saver, "check")
    /\ UNCHANGED allButPc

IsSaving ==
    /\ pc[Saver] = "wait"
    /\ Goto(Saver, IF saving THEN "readLatch" ELSE "check")
    /\ UNCHANGED allButPc

ReadLatch ==
    /\ pc[Saver] = "readLatch"
    /\ awaited' = latch
    /\ Goto(Saver, "await")
    /\ UNCHANGED <<gate, image, queue, input, mode, kie, sizeRead, history>>

Await ==
    /\ pc[Saver] = "await"
    /\ count[awaited] = 0
    /\ Goto(Saver, "check")
    /\ UNCHANGED allButPc

----------------------------------------------------------------------------
\* What rebuild and the snapshot task share: upgrade if needed, then build.
CheckUpgrade(th) ==
    /\ pc[th] = "check"
    /\ Enter(th, IF isUpgradeNeeded THEN "upgrade" ELSE "build")
    /\ UNCHANGED <<gate, image, queue, input, aux, kie, history>>

\* deserializeOrCreate(this.session).
Load(th) ==
    /\ pc[th] = "load"
    /\ kie' = [kie EXCEPT ![th] = session]
    /\ Goto(th, "replay")
    /\ clashed' = (clashed \/ \E u \in Threads \ {th} : Draining(u))
    /\ UNCHANGED <<gate, image, queue, input, aux, mode, due, joined, stolen, dropped>>

\* replayFacts: the outer test, the test of the loop, remove, size = 0.
IfNotEmpty(th) ==
    /\ pc[th] = "replay"
    /\ Goto(th, IF buffer = <<>> THEN "built" ELSE "while")
    /\ UNCHANGED allButPc

WhileNotEmpty(th) ==
    /\ pc[th] = "while"
    /\ Goto(th, IF buffer = <<>> THEN "fired" ELSE "remove")
    /\ UNCHANGED allButPc

\* Mutant: the queue is read with peek and the fact stays in it.
Peek(th) ==
    /\ pc[th] = "remove"
    /\ kie' = [kie EXCEPT ![th] = IF buffer = <<>> THEN @
                                  ELSE Append(@, Head(buffer))]
    /\ Goto(th, IF Len(kie[th]) < MaxFacts THEN "while" ELSE "fired")
    /\ UNCHANGED <<gate, image, queue, input, aux, mode, history>>

Remove(th) ==
    /\ pc[th] = "remove"
    /\ IF buffer = <<>>
         THEN Throw(th) /\ UNCHANGED buffer            \* NoSuchElementException
         ELSE /\ kie' = [kie EXCEPT ![th] = Append(@, Head(buffer))]
              /\ buffer' = Tail(buffer)
              /\ Goto(th, "while")
              /\ UNCHANGED dropped
    /\ UNCHANGED <<gate, image, input, aux, size, mode, marks>>

ResetSize(th) ==
    /\ pc[th] = "fired"
    /\ size' = 0
    /\ Goto(th, "built")
    /\ UNCHANGED <<gate, image, input, aux, buffer, mode, kie, history>>

\* Mutant: the upgraded session is only labelled, not stored.
LabelOnly(th) ==
    /\ pc[th] = "built" /\ mode[th] = "upgrade"
    /\ Dispose(th)
    /\ Goto(th, "label")
    /\ UNCHANGED <<gate, image, queue, input, aux, mode, history>>

\* rebuildSessionAndUpgrade: updateToVersion and this.session = ..., then
\* this.version = ...
SaveUpgraded(th) ==
    /\ pc[th] = "built" /\ mode[th] = "upgrade"
    /\ session' = kie[th]
    /\ Dispose(th)
    /\ Goto(th, "label")
    /\ UNCHANGED <<gate, queue, input, aux, version, mode, history>>

SetVersion(th) ==
    /\ pc[th] = "label"
    /\ version' = release
    /\ IF th = Delta THEN Goto(th, "offer") /\ UNCHANGED mode
                     ELSE Enter(th, "build")
    /\ UNCHANGED <<gate, queue, input, aux, session, kie, history>>

\* The end of rebuild: the session is handed to a new HAKieSession.
Rebuilt ==
    /\ pc[Saver] = "built" /\ mode[Saver] = "build"
    /\ Goto(Saver, "done")
    /\ UNCHANGED allButPc

----------------------------------------------------------------------------
\* Mutant: the snapshot built from the buffer is thrown away.
DropSnapshot(t) ==
    /\ pc[t] = "built" /\ mode[t] = "build"
    /\ Dispose(t)
    /\ Goto(t, "unsave")
    /\ UNCHANGED <<gate, image, queue, input, aux, mode, history>>

\* The end of a snapshot task: session = serialize(localSession), then the
\* finally block.
SaveSnapshot(t) ==
    /\ pc[t] = "built" /\ mode[t] = "build"
    /\ session' = kie[t]
    /\ Dispose(t)
    /\ Goto(t, "unsave")
    /\ UNCHANGED <<gate, queue, input, aux, version, mode, history>>

Unsave(t) ==
    /\ pc[t] = "unsave"
    /\ saving' = FALSE
    /\ Goto(t, "countDown")
    /\ UNCHANGED <<image, queue, input, aux, latch, count, mode, kie, history>>

\* Mutant: a hand-written latch that counts below zero.
CountBelowZero(t) ==
    /\ pc[t] = "countDown"
    /\ count' = [count EXCEPT ![latch] = @ - 1]
    /\ stolen' = (stolen \/ latch # t)
    /\ Goto(t, "done")
    /\ UNCHANGED <<image, queue, input, aux, saving, latch, mode, kie, due, joined, clashed,
                   dropped>>

\* latch.countDown() on the latch the field holds now.
CountDown(t) ==
    /\ pc[t] = "countDown"
    /\ count' = [count EXCEPT ![latch] = 0]
    /\ stolen' = (stolen \/ latch # t)
    /\ Goto(t, "done")
    /\ UNCHANGED <<image, queue, input, aux, saving, latch, mode, kie, due, joined, clashed,
                   dropped>>

----------------------------------------------------------------------------
\* The marshaller, the container or fireAllRules throws.
Fail(th) ==
    /\ MayFail
    /\ pc[th] \in {"load", "built"}
    /\ Throw(th)
    /\ UNCHANGED <<gate, image, queue, input, aux, mode, marks>>

\* UpdateVersionListener moves the node's container to another release, an
\* earlier one when an update is rolled back.
UpdateRelease ==
    /\ release' \in Releases \ {release}
    /\ UNCHANGED <<gate, image, queue, aux, arrived, offered, pc, mode, kie, history>>

Replay(th) ==
    \/ CheckUpgrade(th) \/ Load(th) \/ IfNotEmpty(th) \/ WhileNotEmpty(th)
    \/ Remove(th) \/ ResetSize(th)
    \/ SaveUpgraded(th) \/ SetVersion(th) \/ Fail(th)

AddStep     == Offer \/ ReadSize \/ WriteSize \/ needToSave \/ CompareAndSet
               \/ Execute \/ Replay(Delta)
RebuildStep == IsSaving \/ ReadLatch \/ Await \/ Rebuilt \/ Replay(Saver)
TaskStep(t) == SaveSnapshot(t) \/ Unsave(t) \/ CountDown(t) \/ Replay(t)

Next ==
    \/ Add \/ AddStep
    \/ Rebuild \/ RebuildStep
    \/ \E t \in Tasks : TaskStep(t)
    \/ UpdateRelease

Spec == Init /\ [][Next]_vars

\* A thread that can run does run, the four threads of the executor
\* included; nothing obliges a caller to call or the rules to change.
FairSpec ==
    /\ Spec
    /\ WF_vars(AddStep)
    /\ WF_vars(RebuildStep)
    /\ \A t \in Tasks : WF_vars(TaskStep(t))

----------------------------------------------------------------------------
\* Every field has its type.
TypeOK ==
    /\ saving \in BOOLEAN
    /\ latch \in {0} \cup Tasks
    /\ count \in [{0} \cup Tasks -> {0, 1}]
    /\ session \in Sessions
    /\ version \in Releases
    /\ buffer \in Seq(Facts)
    /\ size \in Nat
    /\ release \in Releases
    /\ arrived \in 0..MaxFacts
    /\ offered \in Seq(Facts)
    /\ pc \in [Threads -> PCs]
    /\ mode \in [Threads -> {"build", "upgrade"}]
    /\ kie \in [Threads -> Sessions]
    /\ sizeRead \in Nat
    /\ awaited \in {0} \cup Tasks
    /\ due \in Seq(Facts)
    /\ joined \in BOOLEAN /\ stolen \in BOOLEAN /\ clashed \in BOOLEAN
    /\ dropped \in SUBSET Facts

\* A task is active from execute to saving.set(false).
Active(t) == pc[t] \in ReplayPCs \cup {"check", "unsave"}

\* createSnapshot's compareAndSet serialises the snapshots: whatever the
\* deltas, upgrades and failures, no two tasks are ever active at once, and
\* saving is true exactly while one is (or is about to be).
OneSnapshotAtATime ==
    /\ \A t, u \in Tasks : Active(t) /\ Active(u) => t = u
    /\ saving <=> \/ pc[Delta] = "newLatch"
                  \/ \E t \in Tasks : Active(t)

Increasing(s) == \A i, j \in 1..Len(s) : i < j => s[i] < s[j]

\* Even when the snapshot, an upgrade and a rebuild drain the buffer
\* together, no session - stored, being built or handed to the primary -
\* ever holds a fact twice or holds two facts in another order than the one
\* they arrived in.
ReplayedInOrder ==
    /\ Increasing(session)
    /\ \A th \in Threads : Increasing(kie[th])

\* Between rebuilds every fact added is in the snapshot, in the hands of the
\* thread that replays it or in the buffer, and in that order: the snapshot
\* and the queue together are the whole session.
NothingLost ==
    pc[Saver] = "idle" =>
        IF \E th \in Threads : Draining(th)
          THEN \A th \in Threads : Draining(th) =>
                  kie[th] \o buffer = offered
          ELSE session \o buffer = offered

\* Whoever drains the buffer, upgrades or fails, and whether or not a delta
\* arrives meanwhile, a fact leaves the object in two ways only: with the
\* session of a thread that throws, or when two threads drain the buffer
\* together.  Until then it is in the snapshot, the buffer or a thread's hands.
NothingVanishes ==
    clashed \/ Elems(offered) \subseteq
                 dropped \cup Elems(session) \cup Elems(buffer)
                         \cup UNION {Elems(kie[th]) : th \in Threads}

\* The session rebuild hands to the primary has every fact that was in the
\* object when rebuild was called.
RebuiltComplete ==
    pc[Saver] = "done" => Elems(due) \subseteq Elems(kie[Saver])

\* ... at least if no snapshot task started after rebuild had looked for one.
RebuiltCompleteUnlessJoined == joined \/ RebuiltComplete

\* While rules are steady and nothing throws these are the only two ways:
\* between its saving.set(false) and its latch.countDown() a task finds the
\* latch of the next one, or add starts a task that rebuild did not see
\* coming, because it saw saving before compareAndSet or the latch before its
\* replacement.
RebuiltCompleteUnlessRaced == stolen \/ joined \/ RebuiltComplete

\* A task is still to count a latch down.
WillCountDown(t) == Active(t) \/ pc[t] = "countDown"

\* rebuild never waits for a latch that nobody is going to count down, unless
\* a task counted down the latch of another: though deltas arrive and the
\* latch in the field is replaced, snapshots fail or upgrades come first, the
\* task of the latch that rebuild read is on its way.
NeverWaitsInVain ==
    pc[Saver] = "await" => stolen \/ count[awaited] = 0 \/ WillCountDown(awaited)

\* How far a thread of rebuild or of a snapshot is from its end.
Stage(th) ==
    CASE pc[th] \in {"done", "failed"} -> 0
      [] pc[th] = "countDown" -> 1
      [] pc[th] = "unsave"    -> 2
      [] pc[th] = "built"     -> 3
      [] pc[th] = "fired"     -> 4
      [] pc[th] = "remove"    -> 5
      [] pc[th] = "while"     -> 6
      [] pc[th] = "replay"    -> 7
      [] pc[th] = "load"      -> 8
      [] pc[th] = "label"     -> 9
      [] pc[th] = "check"     -> 17
      [] pc[th] = "await"     -> 18
      [] pc[th] = "readLatch" -> 19
      [] pc[th] = "wait"      -> 20
      [] OTHER                -> 21

\* An upgrade replays the queue before the session is built.
Again(th) == IF mode[th] = "upgrade" /\ pc[th] \in ReplayPCs \ {"label"} THEN 8 ELSE 0

\* It takes no more steps than these: two for each fact in the queue, and
\* those of an upgrade.
StepsLeft(th) == Stage(th) + 2 * Len(buffer) + Again(th)

\* Only a fact that add offers prolongs a rebuild or a snapshot, by the two
\* steps it takes to replay it: each step of theirs brings the thread closer to
\* its end, and no other thread puts it back, whoever else drains the queue,
\* upgrades, fails, or starts another snapshot.
OnlyOffersProlong ==
    [][\A th \in Threads \ {Delta} :
          /\ StepsLeft(th)' <= StepsLeft(th) + 2 * (Len(offered') - Len(offered))
          /\ pc'[th] # pc[th] => StepsLeft(th)' < StepsLeft(th)]_vars

\* rebuild returns, or throws, although deltas arrive meanwhile and the
\* snapshot it waits for may fail, ...
RebuildReturns ==
    (pc[Saver] = "wait") ~> (pc[Saver] \in {"done", "failed"})

\* ... unless a task counted down another latch than its own.
RebuildReturnsUnlessStolen ==
    (pc[Saver] = "wait") ~> (pc[Saver] \in {"done", "failed"} \/ stolen)
============================================================================
