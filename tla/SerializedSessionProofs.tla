--------------------- MODULE SerializedSessionProofs ---------------------
(***************************************************************************)
(* Proofs about SerializedSession, for every buffer size, every number of  *)
(* facts and releases, with upgrades that overlap and with failures.       *)
(***************************************************************************)
EXTENDS SerializedSession, SequenceTheorems, TLAPS

----------------------------------------------------------------------------
(* Type correctness.  That a latch exists for every task needs one fact    *)
(* more than the types: add makes at most one task per fact.               *)

\* Every task was made by the add of a fact of its own, and an add that has
\* not finished has not made its task yet.
TaskPerFact ==
    /\ latch <= arrived
    /\ pc[Delta] # "idle" => latch < arrived

TypeInv == TypeOK /\ TaskPerFact

\* The three kinds of threads are different threads.
LEMMA Distinct == Saver # Delta /\ Saver \notin Tasks /\ Delta \notin Tasks
  BY BoundsAssumption DEF Saver, Delta, Tasks

LEMMA NoSessionType == NoSession \in Sessions
  BY DEF NoSession, Sessions

LEMMA ElemsType == \A s \in Seq(Facts) : Elems(s) \in SUBSET Facts
  BY DEF Elems

\* An exception leaves a thread in a well-typed state; if it is a task, in
\* its finally block.
LEMMA ThrowType ==
    ASSUME TypeInv, NEW th \in Threads, Throw(th)
    PROVE  /\ pc' \in [Threads -> PCs]
           /\ kie' \in [Threads -> Sessions] /\ dropped' \in SUBSET Facts
           /\ pc'[Delta] = IF th = Delta THEN "idle" ELSE pc[Delta]
<1>1. pc' \in [Threads -> PCs] /\ pc'[Delta] = IF th = Delta THEN "idle" ELSE pc[Delta]
  <2>1. CASE th = Delta
    BY <2>1 DEF TypeInv, TypeOK, Throw, Goto, PCs, Threads
  <2>2. CASE th = Saver
    BY <2>2 DEF TypeInv, TypeOK, Throw, Goto, PCs, Threads, Delta, Saver
  <2>3. CASE th \in Tasks
    <3>1. pc' = [pc EXCEPT ![th] = "unsave"]
      BY <2>3, Distinct DEF Throw, Goto
    <3> QED BY <2>3, <3>1, Distinct DEF TypeInv, TypeOK, PCs, Threads
  <2> QED BY <2>1, <2>2, <2>3 DEF Threads
<1>2. kie' \in [Threads -> Sessions]
  BY NoSessionType DEF TypeInv, TypeOK, Throw, Discard, Dispose
<1>3. dropped' \in SUBSET Facts
  <2>1. dropped' = dropped \cup (Elems(kie[th]) \ Elems(session))
    BY DEF Throw, Discard
  <2>2. kie[th] \in Seq(Facts) /\ dropped \in SUBSET Facts
    BY DEF TypeInv, TypeOK, Sessions
  <2> QED BY <2>1, <2>2, ElemsType
<1> QED BY <1>1, <1>2, <1>3

LEMMA InitTypeInv == Init => TypeInv
<1> SUFFICES ASSUME Init PROVE TypeInv
  OBVIOUS
<1> USE BoundsAssumption
<1>1. arrived \in 0..MaxFacts
  BY DEF Init
<1>2. \A m \in 0..arrived : Upto(m, arrived) \in Seq(Facts) /\ Upto(0, m) \in Seq(Facts)
  BY <1>1 DEF Upto, Facts
<1>3. TypeOK
  <2>1. session \in Sessions /\ buffer \in Seq(Facts) /\ offered \in Seq(Facts)
    BY <1>1, <1>2 DEF Init, Sessions
  <2>2. kie \in [Threads -> Sessions]
    BY NoSessionType DEF Init
  <2>3. pc \in [Threads -> PCs] /\ mode \in [Threads -> {"build", "upgrade"}]
    BY DEF Init, PCs
  <2>4. count \in [{0} \cup Tasks -> {0, 1}]
    BY DEF Init
  <2>5. due \in Seq(Facts) /\ dropped \in SUBSET Facts
    BY DEF Init
  <2>6. saving = FALSE /\ joined = FALSE /\ stolen = FALSE /\ clashed = FALSE
    BY DEF Init
  <2>7. /\ latch = 0 /\ awaited = 0 /\ sizeRead = 0 /\ size = 0
        /\ version \in Releases /\ release \in Releases
    BY DEF Init
  <2> QED BY <1>1, <2>1, <2>2, <2>3, <2>4, <2>5, <2>6, <2>7 DEF TypeOK
<1>4. TaskPerFact
  BY <1>1 DEF Init, TaskPerFact, Threads, Delta
<1> QED BY <1>3, <1>4 DEF TypeInv

\* The threads that replay facts respect the types.
LEMMA ReplayTypeInv ==
    ASSUME TypeInv, NEW th \in Threads, Replay(th)
    PROVE  TypeInv'
<1> USE BoundsAssumption DEF TypeInv, TypeOK, TaskPerFact, Goto, gate, image, queue, input, aux, marks, history, allButPc,
        PCs, ReplayPCs,
        Sessions
<1>1. CASE CheckUpgrade(th)
  BY <1>1 DEF CheckUpgrade, Enter, Threads, Delta, Saver, Tasks
<1>2. CASE Load(th)
  BY <1>2 DEF Load, Threads, Delta, Saver, Tasks
<1>3. CASE IfNotEmpty(th)
  BY <1>3 DEF IfNotEmpty, Threads, Delta, Saver, Tasks
<1>4. CASE WhileNotEmpty(th)
  BY <1>4 DEF WhileNotEmpty, Threads, Delta, Saver, Tasks
<1>5. CASE Remove(th)
  <2>1. CASE buffer = <<>>
    BY <1>5, <2>1, ThrowType DEF Remove
  <2>2. CASE buffer # <<>>
    <3>1. Head(buffer) \in Facts /\ Tail(buffer) \in Seq(Facts)
      BY <2>2
    <3>2. Append(kie[th], Head(buffer)) \in Seq(Facts)
      BY <3>1
    <3> QED BY <1>5, <2>2, <3>1, <3>2 DEF Remove, Threads, Delta, Saver, Tasks
  <2> QED BY <2>1, <2>2
<1>6. CASE ResetSize(th)
  BY <1>6 DEF ResetSize, Threads, Delta, Saver, Tasks
<1>7. CASE SaveUpgraded(th)
  BY <1>7 DEF SaveUpgraded, Dispose, NoSession, Threads, Delta, Saver, Tasks
<1>8. CASE SetVersion(th)
  BY <1>8 DEF SetVersion, Enter, Threads, Delta, Saver, Tasks
<1>9. CASE Fail(th)
  BY <1>9, ThrowType DEF Fail
<1> QED
  BY <1>1, <1>2, <1>3, <1>4, <1>5, <1>6, <1>7, <1>8, <1>9 DEF Replay

LEMMA NextTypeInv == TypeInv /\ [Next]_vars => TypeInv'
<1> SUFFICES ASSUME TypeInv, [Next]_vars PROVE TypeInv'
  OBVIOUS
<1> USE BoundsAssumption DEF TypeInv, TypeOK, TaskPerFact, Goto, gate, image, queue, input, aux, marks, history, allButPc,
        PCs, ReplayPCs,
        Sessions
<1>1. CASE Add
  BY <1>1 DEF Add, Enter, Threads, Delta, Saver, Tasks
<1>2. CASE Offer
  <2>1. arrived \in Facts
    BY <1>2 DEF Offer, Facts, Tasks
  <2> QED BY <1>2, <2>1 DEF Offer, Threads, Delta, Saver, Tasks
<1>3. CASE ReadSize \/ WriteSize \/ needToSave
  <2>1. CASE ReadSize
    BY <2>1 DEF ReadSize, Threads, Delta, Saver, Tasks
  <2>2. CASE WriteSize
    BY <2>2 DEF WriteSize, Threads, Delta, Saver, Tasks
  <2>3. CASE needToSave
    BY <2>3 DEF needToSave, Threads, Delta, Saver, Tasks
  <2> QED BY <1>3, <2>1, <2>2, <2>3
<1>4. CASE CompareAndSet
  BY <1>4 DEF CompareAndSet, Threads, Delta, Saver, Tasks
<1>5. CASE Execute
  <2>1. latch + 1 \in Tasks
    BY <1>5 DEF Execute, Tasks
  <2>2. pc' \in [Threads -> PCs] /\ pc'[Delta] = "idle"
    BY <1>5, <2>1, Distinct DEF Execute, Threads
  <2>3. latch' = latch + 1 /\ latch < arrived
    BY <1>5 DEF Execute
  <2>4. TaskPerFact'
    <3>1. arrived' = arrived /\ arrived \in Nat /\ latch \in Nat
      BY <1>5 DEF Execute, Tasks
    <3> QED BY <2>2, <2>3, <3>1
  <2>5. joined' \in BOOLEAN
    <3>1. joined' = (joined \/ pc[Saver] \in ReplayPCs \cup {"await", "check"})
      BY <1>5 DEF Execute
    <3> QED BY <3>1
  <2>6. /\ UNCHANGED <<saving, count, session, version, buffer, size, release, arrived,
                       offered, mode, kie, sizeRead, awaited, due, stolen, clashed, dropped>>
        /\ latch' \in {0} \cup Tasks
    BY <1>5, <2>1 DEF Execute
  <2>7. TypeOK'
    BY <2>2, <2>5, <2>6
  <2> QED BY <2>4, <2>7
<1>6. CASE Rebuild \/ IsSaving \/ ReadLatch \/ Await \/ Rebuilt
  <2>1. pc' \in [Threads -> PCs] /\ pc'[Delta] = pc[Delta]
    BY <1>6, Distinct DEF Rebuild, IsSaving, ReadLatch, Await, Rebuilt, Threads
  <2>2. awaited' \in {0} \cup Tasks
    BY <1>6 DEF Rebuild, IsSaving, ReadLatch, Await, Rebuilt
  <2> QED BY <1>6, <2>1, <2>2 DEF Rebuild, IsSaving, ReadLatch, Await, Rebuilt
<1>7. CASE \E t \in Tasks : SaveSnapshot(t)
  BY <1>7 DEF SaveSnapshot, Dispose, NoSession, Threads, Delta, Saver, Tasks
<1>8. CASE \E t \in Tasks : Unsave(t) \/ CountDown(t)
  <2>1. pc' \in [Threads -> PCs] /\ pc'[Delta] = pc[Delta]
    <3>1. PICK t \in Tasks, l \in PCs : pc' = [pc EXCEPT ![t] = l]
      BY <1>8 DEF Unsave, CountDown
    <3> QED BY <3>1, Distinct DEF Threads
  <2>2. count' \in [{0} \cup Tasks -> {0, 1}]
    BY <1>8 DEF Unsave, CountDown
  <2>3. stolen' \in BOOLEAN
    <3>1. stolen' = stolen \/ \E t \in Tasks : stolen' = (stolen \/ latch # t)
      BY <1>8 DEF Unsave, CountDown
    <3> QED BY <3>1
  <2> QED BY <1>8, <2>1, <2>2, <2>3 DEF Unsave, CountDown
<1>9. CASE \E th \in Threads : Replay(th)
  BY <1>9, ReplayTypeInv
<1>10. CASE UpdateRelease
  BY <1>10 DEF UpdateRelease
<1>11. CASE UNCHANGED vars
  BY <1>11 DEF vars
<1> QED
  BY <1>1, <1>2, <1>3, <1>4, <1>5, <1>6, <1>7, <1>8, <1>9, <1>10, <1>11
     DEF Next, AddStep, RebuildStep, TaskStep, Threads

\* Every field keeps its type, and every snapshot task has a latch.
THEOREM TypeCorrect == Spec => []TypeOK
<1>1. Spec => []TypeInv
  BY InitTypeInv, NextTypeInv, PTL DEF Spec
<1> QED BY <1>1, PTL DEF TypeInv
----------------------------------------------------------------------------
(* Snapshots exclude each other.  The invariant of the runs is inductive   *)
(* once it says that add is between compareAndSet and execute only while   *)
(* no task is active.                                                      *)

ExclusionInv ==
    /\ OneSnapshotAtATime
    /\ pc[Delta] = "newLatch" => \A t \in Tasks : ~Active(t)

\* Replaying facts, with or without an exception, moves only the thread that
\* does it, keeps an active task active and does not touch saving.
LEMMA ReplayMoves ==
    ASSUME TypeInv, NEW th \in Threads, Replay(th)
    PROVE  /\ saving' = saving
           /\ pc[th] \in ReplayPCs \cup {"check"}
           /\ \E l \in PCs \ {"newLatch"} :
                 /\ pc' = [pc EXCEPT ![th] = l]
                 /\ th \in Tasks => l \in ReplayPCs \cup {"unsave"}
<1> USE DEF Goto, gate, image, queue, input, aux, marks, history, allButPc,
        PCs, ReplayPCs
<1>1. CASE CheckUpgrade(th) \/ Load(th) \/ IfNotEmpty(th) \/ WhileNotEmpty(th)
  BY <1>1 DEF CheckUpgrade, Enter, Load, IfNotEmpty, WhileNotEmpty
<1>2. CASE Remove(th) \/ Fail(th)
  <2>1. pc[th] \in ReplayPCs /\ saving' = saving
    BY <1>2 DEF Remove, Fail
  <2>2. pc' = [pc EXCEPT ![th] = "while"] \/ Throw(th)
    BY <1>2 DEF Remove, Fail
  <2>3. CASE Throw(th) /\ th \in Tasks
    BY <2>1, <2>3, Distinct DEF Throw
  <2>4. CASE Throw(th) /\ th \notin Tasks
    BY <2>1, <2>4 DEF Throw
  <2> QED BY <2>1, <2>2, <2>3, <2>4
<1>3. CASE ResetSize(th) \/ SaveUpgraded(th)
  BY <1>3 DEF ResetSize, SaveUpgraded
<1>4. CASE SetVersion(th)
  BY <1>4, Distinct DEF SetVersion, Enter
<1> QED BY <1>1, <1>2, <1>3, <1>4 DEF Replay

LEMMA NextExclusion == TypeInv /\ ExclusionInv /\ [Next]_vars => ExclusionInv'
<1> SUFFICES ASSUME TypeInv, ExclusionInv, [Next]_vars PROVE ExclusionInv'
  OBVIOUS
<1> USE Distinct DEF ExclusionInv, OneSnapshotAtATime, Active, ReplayPCs, Goto, gate, image, queue, input, aux, marks, history,
        allButPc
<1>0. pc \in [Threads -> PCs] /\ Delta \in Threads /\ Saver \in Threads
        /\ \A t \in Tasks : t \in Threads
  BY DEF TypeInv, TypeOK, Threads
\* Steps of add and rebuild that move no task and leave saving alone.
<1>1. CASE Add \/ Offer \/ ReadSize \/ WriteSize \/ needToSave
  <2>1. saving' = saving /\ pc[Delta] # "newLatch"
    BY <1>1 DEF Add, Offer, ReadSize, WriteSize, needToSave
  <2>2. \E l : l # "newLatch" /\ pc' = [pc EXCEPT ![Delta] = l]
    BY <1>1 DEF Add, Enter, Offer, ReadSize, WriteSize, needToSave
  <2> QED BY <1>0, <2>1, <2>2
<1>2. CASE Rebuild \/ IsSaving \/ ReadLatch \/ Await \/ Rebuilt
  <2>1. saving' = saving
    BY <1>2 DEF Rebuild, IsSaving, ReadLatch, Await, Rebuilt
  <2>2. \E l : pc' = [pc EXCEPT ![Saver] = l]
    BY <1>2 DEF Rebuild, IsSaving, ReadLatch, Await, Rebuilt
  <2> QED BY <1>0, <2>1, <2>2
\* saving is taken when it was free, so no task was active ...
<1>3. CASE CompareAndSet
  BY <1>0, <1>3 DEF CompareAndSet
\* ... and handed to the one task that starts.
<1>4. CASE Execute
  <2>1. latch + 1 \in Tasks
    BY <1>4, BoundsAssumption DEF Execute, TypeInv, TypeOK, TaskPerFact, Tasks
  <2>2. \A t \in Tasks : pc'[t] = IF t = latch + 1 THEN "check" ELSE pc[t]
    BY <1>0, <1>4, <2>1 DEF Execute
  <2>3. pc'[Delta] = "idle" /\ saving' /\ saving
    BY <1>0, <1>4, <2>1 DEF Execute
  <2>4. \A t \in Tasks : Active(t)' <=> t = latch + 1
    BY <1>4, <2>2 DEF Execute
  <2> QED BY <2>1, <2>3, <2>4
<1>5. CASE \E t \in Tasks : SaveSnapshot(t)
  <2>1. PICK t \in Tasks : SaveSnapshot(t)
    BY <1>5
  <2>2. saving' = saving /\ pc[t] = "built" /\ pc' = [pc EXCEPT ![t] = "unsave"]
    BY <2>1 DEF SaveSnapshot
  <2> QED BY <1>0, <2>2
<1>6. CASE \E t \in Tasks : Unsave(t)
  <2>1. PICK t \in Tasks : Unsave(t)
    BY <1>6
  <2>2. saving' = FALSE /\ pc[t] = "unsave" /\ pc' = [pc EXCEPT ![t] = "countDown"]
    BY <2>1 DEF Unsave
  <2>3. \A u \in Tasks : ~Active(u)'
    BY <1>0, <2>2
  <2> QED BY <1>0, <2>2, <2>3
<1>7. CASE \E t \in Tasks : CountDown(t)
  <2>1. PICK t \in Tasks : CountDown(t)
    BY <1>7
  <2>2. saving' = saving /\ pc[t] = "countDown" /\ pc' = [pc EXCEPT ![t] = "done"]
    BY <2>1 DEF CountDown
  <2> QED BY <1>0, <2>2
<1>8. CASE \E th \in Threads : Replay(th)
  <2>1. PICK th \in Threads : Replay(th)
    BY <1>8
  <2>2. /\ saving' = saving
        /\ pc[th] \in ReplayPCs \cup {"check"}
        /\ \E l \in PCs \ {"newLatch"} :
              /\ pc' = [pc EXCEPT ![th] = l]
              /\ th \in Tasks => l \in ReplayPCs \cup {"unsave"}
    BY <2>1, ReplayMoves
  <2>3. \A t \in Tasks : Active(t)' <=> Active(t)
    BY <1>0, <2>2
  <2>4. pc'[Delta] = "newLatch" <=> pc[Delta] = "newLatch"
    BY <1>0, <2>2
  <2> QED BY <2>2, <2>3, <2>4
<1>9. CASE UpdateRelease \/ UNCHANGED vars
  BY <1>9 DEF UpdateRelease, vars
<1> QED
  BY <1>1, <1>2, <1>3, <1>4, <1>5, <1>6, <1>7, <1>8, <1>9
     DEF Next, AddStep, RebuildStep, TaskStep, Threads

\* createSnapshot's compareAndSet keeps two snapshot tasks of one session
\* from ever draining its buffer together, whatever else happens to it.
THEOREM SnapshotExclusion == Spec => []OneSnapshotAtATime
<1>1. Init => ExclusionInv
  BY Distinct DEF Init, ExclusionInv, OneSnapshotAtATime, Active, ReplayPCs, Threads
<1>2. Spec => []ExclusionInv
  BY <1>1, InitTypeInv, NextTypeInv, NextExclusion, PTL DEF Spec
<1> QED BY <1>2, PTL DEF ExclusionInv
----------------------------------------------------------------------------
(* rebuild never waits in vain.  add may replace the latch that rebuild has *)
(* read, but as long as every task counts down its own, each latch is open *)
(* or its task is on its way to it, whichever exceptions it meets.         *)

MadeInOrder == \A t \in Tasks : pc[t] # "idle" => t <= latch

LatchesOpen == ~stolen => \A t \in Tasks : t <= latch => count[t] = 0 \/ WillCountDown(t)

WaitInv ==
    /\ MadeInOrder
    /\ LatchesOpen
    /\ awaited <= latch
    /\ count[0] = 0

\* Steps of add, rebuild and replay, apart from execute, move one thread.  A
\* task that is not replaying stays where it is, and one that is stays active.
LEMMA OtherSteps ==
    ASSUME TypeInv, [Next]_vars, ~Execute, ~\E t \in Tasks : CountDown(t) \/ Unsave(t)
    PROVE  /\ latch' = latch /\ count' = count /\ stolen' = stolen
           /\ awaited' \in {awaited, latch}
           /\ \A t \in Tasks : /\ Active(t)' <=> Active(t)
                               /\ ~Active(t) => pc'[t] = pc[t]
<1> USE Distinct DEF Active, ReplayPCs, Goto, gate, image, queue, input, aux, marks, history, allButPc
<1>0. /\ pc \in [Threads -> PCs]
      /\ Delta \in Threads /\ Saver \in Threads /\ \A t \in Tasks : t \in Threads
  BY DEF TypeInv, TypeOK, Threads
<1>1. CASE Add \/ Offer \/ ReadSize \/ WriteSize \/ needToSave \/ CompareAndSet
  <2>1. UNCHANGED <<latch, count, stolen>> /\ awaited' \in {awaited, latch} /\ \E l : pc' = [pc EXCEPT ![Delta] = l]
    BY <1>1 DEF Add, Enter, Offer, ReadSize, WriteSize, needToSave, CompareAndSet
  <2> QED BY <1>0, <2>1
<1>2. CASE Rebuild \/ IsSaving \/ ReadLatch \/ Await \/ Rebuilt
  <2>1. UNCHANGED <<latch, count, stolen>> /\ awaited' \in {awaited, latch} /\ \E l : pc' = [pc EXCEPT ![Saver] = l]
    BY <1>2 DEF Rebuild, IsSaving, ReadLatch, Await, Rebuilt
  <2> QED BY <1>0, <2>1
<1>3. CASE \E t \in Tasks : SaveSnapshot(t)
  BY <1>0, <1>3 DEF SaveSnapshot
<1>4. CASE \E th \in Threads : Replay(th)
  <2>1. PICK th \in Threads : Replay(th)
    BY <1>4
  <2>2. /\ pc[th] \in ReplayPCs \cup {"check"}
        /\ \E l \in PCs \ {"newLatch"} :
              /\ pc' = [pc EXCEPT ![th] = l]
              /\ th \in Tasks => l \in ReplayPCs \cup {"unsave"}
    BY <2>1, ReplayMoves
  <2>3. UNCHANGED <<latch, count, stolen, awaited>>
    BY <2>1 DEF Replay, CheckUpgrade, Load, IfNotEmpty, WhileNotEmpty, Remove, ResetSize,
       SaveUpgraded, SetVersion, Fail
  <2> QED BY <1>0, <2>2, <2>3
<1>5. CASE UpdateRelease \/ UNCHANGED vars
  BY <1>5 DEF UpdateRelease, vars
<1> QED
  BY <1>1, <1>2, <1>3, <1>4, <1>5 DEF Next, AddStep, RebuildStep, TaskStep, Threads

LEMMA WaitStep == TypeInv /\ ExclusionInv /\ WaitInv /\ [Next]_vars => WaitInv'
<1> SUFFICES ASSUME TypeInv, ExclusionInv, WaitInv, [Next]_vars PROVE WaitInv'
  OBVIOUS
<1> USE Distinct DEF WaitInv, MadeInOrder, LatchesOpen, WillCountDown, Goto
<1>0. /\ pc \in [Threads -> PCs] /\ latch \in {0} \cup Tasks /\ latch \in Nat
      /\ count \in [{0} \cup Tasks -> {0, 1}] /\ awaited \in {0} \cup Tasks /\ awaited \in Nat
      /\ 0 \notin Tasks /\ (\A t \in Tasks : t \in Threads /\ t \in Nat)
  BY BoundsAssumption DEF TypeInv, TypeOK, Threads, Tasks
\* The task that starts is active.
<1>1. CASE Execute
  <2>1. latch + 1 \in Tasks /\ latch' = latch + 1
          /\ UNCHANGED <<count, awaited, stolen>>
    BY <1>1, BoundsAssumption DEF Execute, TypeInv, TypeOK, TaskPerFact, Tasks, aux
  <2>2. \A t \in Tasks : pc'[t] = IF t = latch + 1 THEN "check" ELSE pc[t]
    BY <1>0, <1>1, <2>1 DEF Execute, Threads
  <2>3. \A t \in Tasks : t <= latch + 1 => t <= latch \/ t = latch + 1
    BY <1>0
  <2> QED BY <1>0, <2>1, <2>2, <2>3 DEF Active
<1>2. CASE \E t \in Tasks : Unsave(t)
  <2>1. PICK t \in Tasks : Unsave(t)
    BY <1>2
  <2>2. /\ UNCHANGED <<latch, count, awaited, stolen>>
        /\ pc[t] = "unsave" /\ pc' = [pc EXCEPT ![t] = "countDown"]
    BY <2>1 DEF Unsave, aux, marks, history
  <2>3. \A u \in Tasks : WillCountDown(u) => WillCountDown(u)'
    BY <1>0, <2>2 DEF Active, ReplayPCs
  <2> QED BY <1>0, <2>2, <2>3
\* A task opens its own latch, or one is stolen.
<1>3. CASE \E t \in Tasks : CountDown(t)
  <2>1. PICK t \in Tasks : CountDown(t)
    BY <1>3
  <2>2. /\ UNCHANGED <<latch, awaited>> /\ stolen' = (stolen \/ latch # t)
        /\ count' = [count EXCEPT ![latch] = 0]
        /\ pc[t] = "countDown" /\ pc' = [pc EXCEPT ![t] = "done"]
    BY <2>1 DEF CountDown, aux
  <2>3. \A u \in Tasks \ {t} : WillCountDown(u) => WillCountDown(u)'
    BY <1>0, <2>2 DEF Active, ReplayPCs
  <2>4. \A u \in Tasks : count[u] = 0 => count'[u] = 0
    BY <1>0, <2>2
  <2>5. ~stolen' => ~stolen /\ count'[t] = 0
    BY <1>0, <2>2
  <2> QED BY <1>0, <2>2, <2>3, <2>4, <2>5
\* Every other step leaves the latches alone and keeps a task on its way.
<1>4. CASE ~Execute /\ ~\E t \in Tasks : CountDown(t) \/ Unsave(t)
  <2>1. /\ latch' = latch /\ count' = count /\ stolen' = stolen
        /\ awaited' \in {awaited, latch}
        /\ \A t \in Tasks : /\ Active(t)' <=> Active(t)
                            /\ ~Active(t) => pc'[t] = pc[t]
    BY <1>4, OtherSteps
  <2>2. \A t \in Tasks : WillCountDown(t) => WillCountDown(t)'
    BY <2>1
  <2>3. \A t \in Tasks : pc'[t] # "idle" => pc[t] # "idle"
    BY <2>1 DEF Active, ReplayPCs
  <2> QED BY <1>0, <2>1, <2>2, <2>3
<1> QED BY <1>1, <1>2, <1>3, <1>4

LEMMA InitWait == Init => WaitInv
<1> SUFFICES ASSUME Init PROVE WaitInv
  OBVIOUS
<1>1. \A t \in Tasks : pc[t] = "idle" /\ t \in Nat /\ t > 0
  BY BoundsAssumption DEF Init, Threads, Tasks
<1> QED BY <1>1 DEF Init, WaitInv, MadeInOrder, LatchesOpen

LEMMA InitExclusion == Init => ExclusionInv
  BY Distinct DEF Init, ExclusionInv, OneSnapshotAtATime, Active, ReplayPCs, Threads

\* The latch rebuild waits for is always open or about to be opened by its
\* own snapshot task, for every number of facts, upgrades and failures, unless
\* a task counted down the latch of another: what is not a matter of fairness
\* in rebuild's returning.
THEOREM LatchWillOpen == Spec => []NeverWaitsInVain
<1>1. Spec => [](TypeInv /\ WaitInv)
  BY InitExclusion, InitWait, InitTypeInv, NextTypeInv, NextExclusion, WaitStep, PTL DEF Spec
<1>2. TypeInv /\ WaitInv => NeverWaitsInVain
  <2> SUFFICES ASSUME TypeInv, WaitInv PROVE NeverWaitsInVain
    OBVIOUS
  <2>1. awaited \in {0} \cup Tasks
    BY DEF TypeInv, TypeOK
  <2> QED BY <2>1 DEF WaitInv, LatchesOpen, NeverWaitsInVain
<1> QED BY <1>1, <1>2, PTL
----------------------------------------------------------------------------
(* Only a fact that is offered prolongs a rebuild.  A thread that loops    *)
(* takes a fact with each turn.                                            *)

\* The thread th moves on by one step that puts no fact into the queue; so
\* may the thread of add.
Advances(th) ==
    /\ Len(buffer') <= Len(buffer) /\ Len(offered') = Len(offered)
    /\ \A u \in Threads \ {th, Delta} : pc'[u] = pc[u] /\ mode'[u] = mode[u]
    /\ th \in Threads \ {Delta} => StepsLeft(th)' < StepsLeft(th)

LEMMA FewerFacts ==
    ASSUME NEW s \in 0..21, NEW a \in 0..8, NEW m \in Nat, NEW n \in Nat, n <= m
    PROVE  /\ s + 2 * m + a \in Nat /\ s + 2 * n + a \in Nat
           /\ s + 2 * n + a <= s + 2 * m + a
OBVIOUS

LEMMA StepsLeftType ==
    TypeInv => /\ Len(buffer) \in Nat
               /\ \A x \in Threads : Stage(x) \in 0..21 /\ Again(x) \in 0..8
<1> SUFFICES ASSUME TypeInv, NEW u \in Threads
             PROVE  Len(buffer) \in Nat /\ Stage(u) \in 0..21 /\ Again(u) \in 0..8
  OBVIOUS
<1>1. Len(buffer) \in Nat
  BY DEF TypeInv, TypeOK
<1>2. Stage(u) \in 0..21
  BY DEF Stage
<1>3. Again(u) \in 0..8
  BY DEF Again
<1> QED BY <1>1, <1>2, <1>3

\* What a thread has left depends on where it is and on the queue.
LEMMA OthersWait ==
    ASSUME TypeInv, TypeInv', NEW th \in Threads, Advances(th)
    PROVE  \A u \in Threads \ {Delta} :
              /\ StepsLeft(u)' <= StepsLeft(u) + 2 * (Len(offered') - Len(offered))
              /\ pc'[u] # pc[u] => StepsLeft(u)' < StepsLeft(u)
<1>0. Len(offered') - Len(offered) = 0 /\ Len(offered) \in Nat
  BY DEF Advances, TypeInv, TypeOK
<1> SUFFICES ASSUME NEW u \in Threads \ {Delta}
             PROVE  /\ StepsLeft(u)' <= StepsLeft(u) + 0
                    /\ pc'[u] # pc[u] => StepsLeft(u)' < StepsLeft(u)
  BY <1>0
<1>1. Len(buffer) \in Nat /\ Stage(u) \in 0..21 /\ Again(u) \in 0..8
  BY StepsLeftType
<1>2. Len(buffer)' \in Nat /\ Stage(u)' \in 0..21 /\ Again(u)' \in 0..8
  <2>1. (/\ Len(buffer) \in Nat
         /\ \A x \in Threads : Stage(x) \in 0..21 /\ Again(x) \in 0..8)'
    BY StepsLeftType, PTL
  <2> QED BY <2>1
<1>3. CASE u = th
  <2>1. StepsLeft(u)' < StepsLeft(u)
    BY <1>3 DEF Advances
  <2>2. StepsLeft(u) \in Nat /\ StepsLeft(u)' \in Nat
    <3>1. StepsLeft(u) = Stage(u) + 2 * Len(buffer) + Again(u)
      BY DEF StepsLeft
    <3>2. StepsLeft(u)' = Stage(u)' + 2 * Len(buffer)' + Again(u)'
      BY DEF StepsLeft
    <3>3. Len(buffer) <= Len(buffer) /\ Len(buffer)' <= Len(buffer)'
      BY <1>1, <1>2
    <3>4. StepsLeft(u) \in Nat
      BY <1>1, <3>1, <3>3, FewerFacts
    <3>5. StepsLeft(u)' \in Nat
      BY <1>2, <3>2, <3>3, FewerFacts
    <3> QED BY <3>4, <3>5
  <2> QED BY <2>1, <2>2
<1>4. CASE u # th
  <2>1. pc'[u] = pc[u] /\ mode'[u] = mode[u] /\ Len(buffer') <= Len(buffer)
    BY <1>4 DEF Advances
  <2>2. Stage(u)' = Stage(u)
    BY <2>1 DEF Stage
  <2>3. Again(u)' = Again(u)
    BY <2>1 DEF Again
  <2>4. StepsLeft(u) = Stage(u) + 2 * Len(buffer) + Again(u)
    BY DEF StepsLeft
  <2>5. StepsLeft(u)' = Stage(u) + 2 * Len(buffer)' + Again(u)
    BY <2>2, <2>3 DEF StepsLeft
  <2>6. StepsLeft(u)' <= StepsLeft(u) /\ StepsLeft(u) \in Nat
    BY <1>1, <1>2, <2>1, <2>4, <2>5, FewerFacts
  <2> QED BY <2>1, <2>6
<1> QED BY <1>3, <1>4

LEMMA ReplayAdvances ==
    ASSUME TypeInv, NEW th \in Threads, Replay(th)
    PROVE  Advances(th)
<1> USE Distinct DEF Goto, gate, image, queue, input, aux, marks, history, allButPc, ReplayPCs, Stage,
        Again, StepsLeft, Advances
<1>0. /\ pc \in [Threads -> PCs] /\ mode \in [Threads -> {"build", "upgrade"}]
      /\ buffer \in Seq(Facts) /\ Len(buffer) \in Nat
  BY DEF TypeInv, TypeOK
<1>1. CASE CheckUpgrade(th)
  BY <1>0, <1>1 DEF CheckUpgrade, Enter
<1>2. CASE Load(th) \/ IfNotEmpty(th) \/ WhileNotEmpty(th) \/ ResetSize(th)
  BY <1>0, <1>2 DEF Load, IfNotEmpty, WhileNotEmpty, ResetSize
<1>3. CASE Remove(th)
  <2>1. CASE buffer = <<>>
    BY <1>0, <1>3, <2>1 DEF Remove, Throw
  <2>2. CASE buffer # <<>>
    <3>1. Len(Tail(buffer)) = Len(buffer) - 1
      BY <1>0, <2>2
    <3> QED BY <1>0, <1>3, <2>2, <3>1 DEF Remove
  <2> QED BY <2>1, <2>2
<1>4. CASE SaveUpgraded(th)
  BY <1>0, <1>4 DEF SaveUpgraded
<1>5. CASE SetVersion(th)
  BY <1>0, <1>5 DEF SetVersion, Enter
<1>6. CASE Fail(th)
  BY <1>0, <1>6 DEF Fail, Throw
<1> QED BY <1>1, <1>2, <1>3, <1>4, <1>5, <1>6 DEF Replay

\* A fact that is offered costs every thread that drains the queue two steps.
LEMMA OneMoreFact ==
    ASSUME NEW s \in 0..21, NEW a \in 0..8, NEW m \in Nat, NEW k \in Nat
    PROVE  s + 2 * (m + 1) + a <= s + 2 * m + a + 2 * ((k + 1) - k)
OBVIOUS

LEMMA OfferProlongs ==
    ASSUME TypeInv, Offer
    PROVE  \A u \in Threads \ {Delta} :
              /\ StepsLeft(u)' <= StepsLeft(u) + 2 * (Len(offered') - Len(offered))
              /\ pc'[u] = pc[u]
<1> SUFFICES ASSUME NEW u \in Threads \ {Delta}
             PROVE  /\ StepsLeft(u)' <= StepsLeft(u) + 2 * (Len(offered') - Len(offered))
                    /\ pc'[u] = pc[u]
  OBVIOUS
<1>1. pc'[u] = pc[u] /\ mode' = mode
  BY DEF Offer, Goto, TypeInv, TypeOK
<1>2. Stage(u)' = Stage(u) /\ Again(u)' = Again(u)
  BY <1>1 DEF Stage, Again
<1>3. Len(buffer') = Len(buffer) + 1 /\ Len(offered') = Len(offered) + 1
        /\ Len(offered) \in Nat
  BY DEF Offer, TypeInv, TypeOK
<1>4. Len(buffer) \in Nat /\ Stage(u) \in 0..21 /\ Again(u) \in 0..8
  BY StepsLeftType
<1>5. /\ StepsLeft(u) = Stage(u) + 2 * Len(buffer) + Again(u)
      /\ StepsLeft(u)' = Stage(u) + 2 * (Len(buffer) + 1) + Again(u)
  BY <1>2, <1>3 DEF StepsLeft
<1>6. Stage(u) + 2 * (Len(buffer) + 1) + Again(u)
        <= Stage(u) + 2 * Len(buffer) + Again(u) + 2 * ((Len(offered) + 1) - Len(offered))
  BY <1>3, <1>4, OneMoreFact
<1> QED BY <1>1, <1>3, <1>5, <1>6

LEMMA RebuildProgress ==
    ASSUME TypeInv, WaitInv, [Next]_vars
    PROVE  \A th \in Threads \ {Delta} :
              /\ StepsLeft(th)' <= StepsLeft(th) + 2 * (Len(offered') - Len(offered))
              /\ pc'[th] # pc[th] => StepsLeft(th)' < StepsLeft(th)
<1>0. /\ pc \in [Threads -> PCs] /\ mode \in [Threads -> {"build", "upgrade"}]
      /\ Len(buffer) \in Nat /\ Len(offered) \in Nat
      /\ Delta \in Threads /\ Saver \in Threads /\ (\A t \in Tasks : t \in Threads)
      /\ TypeInv'
  BY NextTypeInv DEF TypeInv, TypeOK, Threads
<1>1. CASE Offer
  BY <1>1, OfferProlongs
\* The other steps of add move no other thread, ...
<1>2. CASE Add \/ ReadSize \/ WriteSize \/ needToSave \/ CompareAndSet
  <2>1. Advances(Delta)
    BY <1>0, <1>2
       DEF Add, Enter, ReadSize, WriteSize, needToSave, CompareAndSet, Goto, queue, input,
           allButPc, Advances
  <2> QED BY <1>0, <2>1, OthersWait
\* ... but for the task that starts.
<1>3. CASE Execute
  <2>1. latch + 1 \in Tasks /\ latch \in Nat
    BY <1>3, BoundsAssumption DEF Execute, TypeInv, TypeOK, TaskPerFact, Tasks
  <2>2. PICK t \in Tasks : t = latch + 1
    BY <2>1
  <2>3. pc[t] = "idle"
    BY <1>0, <2>1, <2>2 DEF WaitInv, MadeInOrder
  <2>4. pc'[t] = "check" /\ \A u \in Threads \ {t, Delta} : pc'[u] = pc[u]
    BY <1>0, <1>3, <2>2, Distinct DEF Execute
  <2>5. UNCHANGED <<buffer, offered, mode>>
    BY <1>3 DEF Execute, queue, input
  <2>6. StepsLeft(t)' < StepsLeft(t)
    <3>1. Stage(t) = 21 /\ Again(t) = 0
      BY <2>3 DEF Stage, Again, ReplayPCs
    <3>2. Stage(t)' = 17 /\ Again(t)' = 0
      BY <2>4 DEF Stage, Again, ReplayPCs
    <3>3. StepsLeft(t) = 21 + 2 * Len(buffer) + 0
      BY <3>1 DEF StepsLeft
    <3>4. StepsLeft(t)' = 17 + 2 * Len(buffer) + 0
      BY <2>5, <3>2 DEF StepsLeft
    <3> QED BY <1>0, <3>3, <3>4
  <2>7. Advances(t)
    BY <1>0, <2>4, <2>5, <2>6 DEF Advances
  <2> QED BY <1>0, <2>7, OthersWait
<1>4. CASE Rebuild \/ IsSaving \/ ReadLatch \/ Await \/ Rebuilt
  <2>1. Advances(Saver)
    BY <1>0, <1>4, Distinct
       DEF Rebuild, IsSaving, ReadLatch, Await, Rebuilt, Goto, queue, input, allButPc, Stage,
           Again, StepsLeft, ReplayPCs, Advances
  <2> QED BY <1>0, <2>1, OthersWait
<1>5. CASE \E t \in Tasks : SaveSnapshot(t) \/ Unsave(t) \/ CountDown(t)
  <2>1. PICK t \in Tasks : SaveSnapshot(t) \/ Unsave(t) \/ CountDown(t)
    BY <1>5
  <2>2. Advances(t)
    BY <1>0, <2>1, Distinct
       DEF SaveSnapshot, Unsave, CountDown, Goto, queue, input, Stage, Again, StepsLeft,
           ReplayPCs, Advances
  <2> QED BY <1>0, <2>2, OthersWait
<1>6. CASE \E th \in Threads : Replay(th)
  <2>1. PICK th \in Threads : Replay(th)
    BY <1>6
  <2>2. Advances(th)
    BY <2>1, ReplayAdvances
  <2> QED BY <1>0, <2>2, OthersWait
<1>7. CASE UpdateRelease \/ UNCHANGED vars
  <2>1. UNCHANGED <<pc, mode, buffer, offered>>
    BY <1>7 DEF UpdateRelease, vars, allButPc, queue, input
  <2>2. Advances(Delta)
    BY <1>0, <2>1 DEF Advances
  <2> QED BY <1>0, <2>2, OthersWait
<1> QED
  BY <1>1, <1>2, <1>3, <1>4, <1>5, <1>6, <1>7
     DEF Next, AddStep, RebuildStep, TaskStep, Threads

\* A rebuild, and the snapshot it waits for, end after as many steps as they
\* have left and two more for each fact that is offered meanwhile, however
\* many upgrades and failures there are and whatever else add starts.
THEOREM RebuildAdvances == Spec => OnlyOffersProlong
<1>1. Spec => [](TypeInv /\ WaitInv)
  BY InitExclusion, InitWait, InitTypeInv, NextTypeInv, NextExclusion, WaitStep, PTL DEF Spec
<1>2. TypeInv /\ WaitInv /\ [Next]_vars =>
        [\A th \in Threads \ {Delta} :
            /\ StepsLeft(th)' <= StepsLeft(th) + 2 * (Len(offered') - Len(offered))
            /\ pc'[th] # pc[th] => StepsLeft(th)' < StepsLeft(th)]_vars
  BY RebuildProgress
<1> QED BY <1>1, <1>2, PTL DEF Spec, OnlyOffersProlong
----------------------------------------------------------------------------
(* Facts are replayed once and in order.  Whoever removes a fact from the  *)
(* queue gets one that is later than every fact removed before, by any     *)
(* thread: that is the strengthening.                                      *)

Below(s, b)   == \A i \in 1..Len(s), j \in 1..Len(b) : s[i] < b[j]
UpTo(s, n)    == \A i \in 1..Len(s) : s[i] <= n

\* The last fact that can be in the object: the one add is working on is not
\* until it is offered.
Pending == pc[Delta] \in ReplayPCs \cup {"check", "offer"}
Latest  == IF Pending THEN arrived - 1 ELSE arrived

OrderInv ==
    /\ ReplayedInOrder
    /\ Increasing(buffer)
    /\ Below(session, buffer)
    /\ \A th \in Threads : Below(kie[th], buffer)
    /\ UpTo(buffer, Latest)
    /\ UpTo(session, Latest)
    /\ \A th \in Threads : UpTo(kie[th], Latest)

LEMMA AppendOrder ==
    ASSUME NEW s \in Seq(Facts), NEW x \in Facts, Increasing(s),
           \A i \in 1..Len(s) : s[i] < x
    PROVE  Increasing(Append(s, x))
<1>1. Len(s) \in Nat /\ Len(Append(s, x)) = Len(s) + 1 /\ Append(s, x)[Len(s) + 1] = x
  OBVIOUS
<1>2. \A i \in 1..Len(s) : Append(s, x)[i] = s[i]
  OBVIOUS
<1> SUFFICES ASSUME NEW i \in 1..(Len(s) + 1), NEW j \in 1..(Len(s) + 1), i < j
             PROVE  Append(s, x)[i] < Append(s, x)[j]
  BY <1>1 DEF Increasing
<1>3. i \in 1..Len(s)
  BY <1>1
<1>4. CASE j \in 1..Len(s)
  BY <1>2, <1>3, <1>4 DEF Increasing
<1>5. CASE j = Len(s) + 1
  BY <1>1, <1>2, <1>3, <1>5
<1> QED BY <1>1, <1>4, <1>5

LEMMA TailOrder ==
    ASSUME NEW b \in Seq(Facts), b # <<>>, Increasing(b)
    PROVE  /\ Increasing(Tail(b))
           /\ \A j \in 1..Len(Tail(b)) : Head(b) < Tail(b)[j]
           /\ \A j \in 1..Len(Tail(b)) : \E k \in 1..Len(b) : Tail(b)[j] = b[k]
<1>1. /\ Len(b) \in Nat \ {0} /\ Len(Tail(b)) = Len(b) - 1 /\ Head(b) = b[1]
      /\ \A j \in 1..Len(Tail(b)) : Tail(b)[j] = b[j + 1]
  BY HeadTailProperties
<1>2. \A j \in 1..Len(Tail(b)) : j + 1 \in 1..Len(b)
  BY <1>1
<1>3. Increasing(Tail(b))
  BY <1>1, <1>2 DEF Increasing
<1>4. \A j \in 1..Len(Tail(b)) : Head(b) < Tail(b)[j]
  <2> SUFFICES ASSUME NEW j \in 1..Len(Tail(b)) PROVE Head(b) < Tail(b)[j]
    OBVIOUS
  <2>1. 1 \in 1..Len(b) /\ 1 < j + 1
    BY <1>1
  <2> QED BY <1>1, <1>2, <2>1 DEF Increasing
<1> QED BY <1>1, <1>2, <1>3, <1>4

LEMMA AppendBelow ==
    ASSUME NEW s \in Seq(Facts), NEW b \in Seq(Facts), NEW x \in Facts,
           Below(s, b), \A i \in 1..Len(s) : s[i] < x
    PROVE  Below(s, Append(b, x))
  BY BoundsAssumption DEF Below, Facts

\* Taking the head of the queue keeps a session in order and below the rest.
LEMMA RemoveOrder ==
    ASSUME NEW s \in Seq(Facts), NEW b \in Seq(Facts), b # <<>>,
           Increasing(s), Increasing(b), Below(s, b)
    PROVE  /\ Increasing(Append(s, Head(b)))
           /\ Below(Append(s, Head(b)), Tail(b))
<1>1. Head(b) \in Facts /\ Head(b) = b[1] /\ 1 \in 1..Len(b) /\ Tail(b) \in Seq(Facts)
  OBVIOUS
<1>2. \A i \in 1..Len(s) : s[i] < Head(b)
  BY <1>1 DEF Below
<1>3. Increasing(Append(s, Head(b)))
  BY <1>1, <1>2, AppendOrder
<1>4. Below(Append(s, Head(b)), Tail(b))
  <2> SUFFICES ASSUME NEW i \in 1..Len(Append(s, Head(b))), NEW j \in 1..Len(Tail(b))
               PROVE  Append(s, Head(b))[i] < Tail(b)[j]
    BY DEF Below
  <2>1. PICK k \in 1..Len(b) : Tail(b)[j] = b[k]
    BY TailOrder
  <2>2. CASE i \in 1..Len(s)
    BY <2>1, <2>2, <1>1 DEF Below
  <2>3. CASE i = Len(s) + 1
    BY <2>3, <1>1, TailOrder
  <2> QED BY <2>2, <2>3, <1>1
<1> QED BY <1>3, <1>4

LEMMA UpToMonotone ==
    ASSUME NEW s \in Seq(Facts), NEW m \in Int, NEW n \in Int, m <= n, UpTo(s, m)
    PROVE  UpTo(s, n)
<1> SUFFICES ASSUME NEW i \in 1..Len(s) PROVE s[i] <= n
  BY DEF UpTo
<1>1. s[i] \in Int /\ s[i] <= m
  BY BoundsAssumption DEF UpTo, Facts
<1> QED BY <1>1

LEMMA UpToBelow ==
    ASSUME NEW s \in Seq(Facts), NEW n \in Int, UpTo(s, n - 1)
    PROVE  \A i \in 1..Len(s) : s[i] < n
<1> SUFFICES ASSUME NEW i \in 1..Len(s) PROVE s[i] < n
  OBVIOUS
<1>1. s[i] \in Int /\ s[i] <= n - 1
  BY BoundsAssumption DEF UpTo, Facts
<1> QED BY <1>1

LEMMA LatestType == TypeInv => Latest \in Int
  BY BoundsAssumption DEF TypeInv, TypeOK, Latest

\* What may be in the object only grows.
LEMMA LatestGrows ==
    ASSUME TypeInv, [Next]_vars
    PROVE  Latest <= Latest'
<1> USE Distinct DEF Goto, PCs, ReplayPCs
<1>0. pc \in [Threads -> PCs] /\ Delta \in Threads /\ Saver \in Threads
        /\ (\A t \in Tasks : t \in Threads) /\ arrived \in Int
  BY BoundsAssumption DEF TypeInv, TypeOK, Threads
<1>1. CASE Add
  <2>1. arrived' = arrived + 1 /\ ~Pending /\ Pending'
    BY <1>0, <1>1 DEF Add, Enter, Pending
  <2> QED BY <1>0, <2>1 DEF Latest
<1>2. CASE ~Add
  <2>1. arrived' = arrived
    BY <1>2 DEF Next, AddStep, RebuildStep, TaskStep, Replay, Offer, ReadSize, WriteSize,
       needToSave, CompareAndSet, Execute, Rebuild, IsSaving, ReadLatch, Await, Rebuilt,
       SaveSnapshot, Unsave, CountDown, UpdateRelease, CheckUpgrade, Load, IfNotEmpty,
       WhileNotEmpty, Remove, ResetSize, SaveUpgraded, SetVersion, Fail, vars, allButPc,
       input
  <2>2. Pending' => Pending
    <3>1. CASE Offer \/ ReadSize \/ WriteSize \/ needToSave \/ CompareAndSet
      BY <1>0, <3>1 DEF Offer, ReadSize, WriteSize, needToSave, CompareAndSet, Pending
    <3>2. CASE Execute
      <4>1. latch + 1 \in Tasks
        BY <3>2, BoundsAssumption DEF Execute, TypeInv, TypeOK, TaskPerFact, Tasks
      <4> QED BY <1>0, <3>2, <4>1 DEF Execute, Pending
    <3>3. CASE Rebuild \/ IsSaving \/ ReadLatch \/ Await \/ Rebuilt
      BY <1>0, <3>3 DEF Rebuild, IsSaving, ReadLatch, Await, Rebuilt, Pending
    <3>4. CASE \E t \in Tasks : SaveSnapshot(t) \/ Unsave(t) \/ CountDown(t)
      BY <1>0, <3>4 DEF SaveSnapshot, Unsave, CountDown, Pending
    <3>5. CASE \E th \in Threads : Replay(th)
      <4>1. PICK th \in Threads : Replay(th)
        BY <3>5
      <4>2. pc[th] \in ReplayPCs \cup {"check"} /\ \E l \in PCs : pc' = [pc EXCEPT ![th] = l]
        BY <4>1, ReplayMoves
      <4> QED BY <1>0, <4>2 DEF Pending
    <3>6. CASE UpdateRelease \/ UNCHANGED vars
      BY <3>6 DEF UpdateRelease, vars, allButPc, Pending
    <3> QED
      BY <1>2, <3>1, <3>2, <3>3, <3>4, <3>5, <3>6
         DEF Next, AddStep, RebuildStep, TaskStep, Threads
  <2> QED BY <1>0, <2>1, <2>2 DEF Latest
<1> QED BY <1>1, <1>2

\* A step that leaves the queue alone and only copies sessions between the
\* threads and the field, or disposes of them, keeps the order.
LEMMA CopyOrder ==
    ASSUME TypeInv, TypeInv', OrderInv, Latest <= Latest', buffer' = buffer,
           session' = session \/ \E th \in Threads : session' = kie[th],
           \A th \in Threads : kie'[th] \in {kie[th], session, NoSession}
    PROVE  OrderInv'
<1> USE DEF OrderInv, ReplayedInOrder
<1>1. Latest \in Int /\ Latest' \in Int
  BY LatestType, BoundsAssumption DEF TypeInv, TypeOK, Latest
<1>2. \A s \in Seq(Facts) : UpTo(s, Latest) => UpTo(s, Latest')
  BY <1>1, UpToMonotone
<1>3. Increasing(NoSession) /\ Below(NoSession, buffer) /\ UpTo(NoSession, Latest)
  BY DEF NoSession, Increasing, Below, UpTo
<1>4. session \in Seq(Facts) /\ buffer \in Seq(Facts) /\ NoSession \in Seq(Facts)
        /\ \A th \in Threads : kie[th] \in Seq(Facts)
  BY NoSessionType DEF TypeInv, TypeOK, Sessions
<1>5. Increasing(session') /\ Below(session', buffer') /\ UpTo(session', Latest')
  BY <1>2, <1>4
<1>6. \A th \in Threads : /\ Increasing(kie'[th]) /\ Below(kie'[th], buffer')
                          /\ UpTo(kie'[th], Latest')
  BY <1>2, <1>3, <1>4
<1>7. Increasing(buffer') /\ UpTo(buffer', Latest')
  BY <1>2, <1>4
<1> QED BY <1>5, <1>6, <1>7

LEMMA InitOrder == Init => OrderInv
<1> SUFFICES ASSUME Init PROVE OrderInv
  OBVIOUS
<1>1. PICK m \in 0..arrived : session = Upto(0, m) /\ buffer = Upto(m, arrived)
  BY DEF Init
<1>2. arrived \in Nat /\ Latest = arrived
  BY BoundsAssumption DEF Init, Latest, Pending, ReplayPCs, Threads
<1>3. /\ Len(session) = m /\ \A i \in 1..m : session[i] = i
      /\ Len(buffer) = arrived - m /\ \A i \in 1..(arrived - m) : buffer[i] = m + i
  BY <1>1, <1>2 DEF Upto
<1>4. \A th \in Threads : kie[th] = <<>>
  BY DEF Init, NoSession
<1>5. Increasing(session) /\ Increasing(buffer) /\ Below(session, buffer)
  BY <1>2, <1>3 DEF Increasing, Below
<1>6. UpTo(session, Latest) /\ UpTo(buffer, Latest)
  BY <1>2, <1>3 DEF UpTo
<1>7. \A th \in Threads : /\ Increasing(kie[th]) /\ Below(kie[th], buffer)
                          /\ UpTo(kie[th], Latest)
  BY <1>4 DEF Increasing, Below, UpTo
<1> QED BY <1>5, <1>6, <1>7 DEF OrderInv, ReplayedInOrder

LEMMA NextOrder == TypeInv /\ OrderInv /\ [Next]_vars => OrderInv'
<1> SUFFICES ASSUME TypeInv, OrderInv, [Next]_vars PROVE OrderInv'
  OBVIOUS
<1> USE DEF gate, image, queue, input, aux, marks, history,
        allButPc
<1>1. TypeInv' /\ Latest <= Latest'
  BY NextTypeInv, LatestGrows
<1>2. /\ session \in Seq(Facts) /\ buffer \in Seq(Facts)
      /\ kie \in [Threads -> Seq(Facts)] /\ Latest \in Int
  BY LatestType DEF TypeInv, TypeOK, Sessions
\* Offer: the new fact is later than everything in the object.
<1>3. CASE Offer
  <2>1. arrived \in Facts /\ Latest = arrived - 1
    BY <1>3, BoundsAssumption DEF Offer, Pending, Latest, TypeInv, TypeOK, TaskPerFact,
       Facts, Tasks
  <2>2. /\ \A i \in 1..Len(buffer) : buffer[i] < arrived
        /\ \A i \in 1..Len(session) : session[i] < arrived
        /\ \A th \in Threads : \A i \in 1..Len(kie[th]) : kie[th][i] < arrived
    BY <1>2, <2>1, UpToBelow DEF OrderInv, Facts
  <2>3. buffer' = Append(buffer, arrived) /\ session' = session /\ kie' = kie
    BY <1>3 DEF Offer
  <2>4. Latest' = arrived
    BY <1>3, <1>2 DEF Offer, Goto, Pending, Latest, ReplayPCs, TypeInv, TypeOK, Threads
  <2>5. Increasing(buffer')
    BY <1>2, <2>1, <2>2, <2>3, AppendOrder DEF OrderInv
  <2>6. Below(session', buffer') /\ \A th \in Threads : Below(kie'[th], buffer')
    BY <1>2, <2>1, <2>2, <2>3, AppendBelow DEF OrderInv
  <2>7. UpTo(buffer', Latest')
    <3>1. UpTo(buffer, Latest')
      BY <1>1, <1>2, <2>1, <2>4, UpToMonotone, BoundsAssumption DEF OrderInv, Facts
    <3>2. arrived <= Latest'
      BY <2>1, <2>4, BoundsAssumption DEF Facts
    <3> QED BY <1>2, <2>1, <2>3, <3>1, <3>2 DEF UpTo
  <2>8. UpTo(session', Latest') /\ \A th \in Threads : UpTo(kie'[th], Latest')
    BY <1>1, <1>2, <2>1, <2>3, <2>4, UpToMonotone, BoundsAssumption DEF OrderInv, Facts
  <2> QED BY <2>3, <2>5, <2>6, <2>7, <2>8 DEF OrderInv, ReplayedInOrder
\* Remove: the head of the queue goes to the session of one thread.
<1>4. CASE \E th \in Threads : Remove(th) /\ buffer # <<>>
  <2>1. PICK th \in Threads : Remove(th) /\ buffer # <<>>
    BY <1>4
  <2>2. /\ kie' = [kie EXCEPT ![th] = Append(kie[th], Head(buffer))]
        /\ buffer' = Tail(buffer) /\ session' = session
    BY <2>1 DEF Remove
  <2>3. kie'[th] = Append(kie[th], Head(buffer)) /\ \A u \in Threads \ {th} : kie'[u] = kie[u]
    BY <1>2, <2>2
  <2>4. Increasing(kie'[th]) /\ Below(kie'[th], buffer')
    BY <1>2, <2>1, <2>2, <2>3, RemoveOrder DEF OrderInv, ReplayedInOrder
  <2>5. /\ Increasing(Tail(buffer))
        /\ \A j \in 1..Len(Tail(buffer)) : \E k \in 1..Len(buffer) : Tail(buffer)[j] = buffer[k]
    BY <1>2, <2>1, TailOrder DEF OrderInv
  <2>6. Below(session', buffer') /\ \A u \in Threads \ {th} : Below(kie'[u], buffer')
    BY <2>2, <2>3, <2>5 DEF OrderInv, Below
  <2>7. UpTo(buffer', Latest)
    BY <2>2, <2>5 DEF OrderInv, UpTo
  <2>8. UpTo(kie'[th], Latest)
    <3>1. Head(buffer) = buffer[1] /\ 1 \in 1..Len(buffer) /\ Head(buffer) <= Latest
      BY <1>2, <2>1 DEF OrderInv, UpTo
    <3> QED BY <1>2, <2>1, <2>3, <3>1 DEF OrderInv, UpTo
  <2>9. \A s \in Seq(Facts) : UpTo(s, Latest) => UpTo(s, Latest')
    <3>1. Latest' \in Int
      BY <1>1, BoundsAssumption DEF TypeInv, TypeOK, Latest
    <3> QED BY <1>1, <1>2, <3>1, UpToMonotone
  <2>10. UpTo(session', Latest') /\ UpTo(buffer', Latest')
           /\ \A u \in Threads : UpTo(kie'[u], Latest')
    <3>1. session' \in Seq(Facts) /\ buffer' \in Seq(Facts)
            /\ \A u \in Threads : kie'[u] \in Seq(Facts)
      BY <1>1 DEF TypeInv, TypeOK, Sessions
    <3>2. UpTo(session', Latest) /\ \A u \in Threads : UpTo(kie'[u], Latest)
      BY <2>2, <2>3, <2>8 DEF OrderInv
    <3> QED BY <2>7, <2>9, <3>1, <3>2
  <2> QED
    BY <2>2, <2>3, <2>4, <2>5, <2>6, <2>10 DEF OrderInv, ReplayedInOrder
\* Every other step copies or disposes of sessions, or does not touch them.
<1>5. CASE ~Offer /\ ~(\E th \in Threads : Remove(th) /\ buffer # <<>>)
  <2>1. CASE \E th \in Threads : Load(th)
    BY <1>1, <1>2, <2>1, CopyOrder DEF Load
  <2>2. CASE \E th \in Threads : SaveUpgraded(th)
    BY <1>1, <1>2, <2>2, CopyOrder DEF SaveUpgraded, Dispose
  <2>3. CASE \E t \in Tasks : SaveSnapshot(t)
    BY <1>1, <1>2, <2>3, CopyOrder DEF SaveSnapshot, Dispose, Threads
  <2>4. CASE \E th \in Threads : Remove(th) \/ Fail(th)
    BY <1>1, <1>2, <1>5, <2>4, CopyOrder DEF Remove, Fail, Throw, Discard, Dispose
  <2>5. CASE UNCHANGED <<session, buffer, kie>>
    BY <1>1, <2>5, CopyOrder
  <2> QED
    BY <1>5, <2>1, <2>2, <2>3, <2>4, <2>5
       DEF Next, AddStep, RebuildStep, TaskStep, Replay, Threads, Add, ReadSize, WriteSize,
       needToSave, CompareAndSet, Execute, Rebuild, IsSaving, ReadLatch, Await, Rebuilt,
       Unsave, CountDown, UpdateRelease, CheckUpgrade, IfNotEmpty,
       WhileNotEmpty, ResetSize, SetVersion, vars
<1> QED BY <1>3, <1>4, <1>5

\* However many threads drain the buffer together, no session ever holds a
\* fact twice or out of the order of arrival.
THEOREM ReplayOrder == Spec => []ReplayedInOrder
<1>1. Spec => []OrderInv
  BY InitTypeInv, NextTypeInv, InitOrder, NextOrder, PTL DEF Spec
<1> QED BY <1>1, PTL DEF OrderInv
----------------------------------------------------------------------------
(* Facts vanish only with a session that is thrown away or when two        *)
(* threads drain the queue together.  The one thread that drains it has    *)
(* all that is in the snapshot, and no other thread but one that has       *)
(* rebuilt holds a session.                                                *)

Held(x) ==
    \/ x \in dropped \/ x \in Elems(session) \/ x \in Elems(buffer)
    \/ \E th \in Threads : x \in Elems(kie[th])

EmptyHands == \A th \in Threads : Draining(th) \/ pc[th] = "done" \/ kie[th] = NoSession

OneDrains ==
    ~clashed =>
        /\ \A th, u \in Threads : Draining(th) /\ Draining(u) => th = u
        /\ \A th \in Threads : Draining(th) => Elems(session) \subseteq Elems(kie[th])

AllHeld == ~clashed => \A x \in Elems(offered) : Held(x)

VanishInv == EmptyHands /\ OneDrains /\ AllHeld

LEMMA ElemsAppend ==
    ASSUME NEW s \in Seq(Facts), NEW x \in Facts
    PROVE  Elems(Append(s, x)) = Elems(s) \cup {x}
<1>1. /\ Len(Append(s, x)) = Len(s) + 1 /\ Append(s, x)[Len(s) + 1] = x /\ Len(s) \in Nat
      /\ \A i \in 1..Len(s) : Append(s, x)[i] = s[i]
  OBVIOUS
<1>2. 1..(Len(s) + 1) = (1..Len(s)) \cup {Len(s) + 1}
  BY <1>1
<1> QED BY <1>1, <1>2 DEF Elems

LEMMA ElemsTail ==
    ASSUME NEW b \in Seq(Facts), b # <<>>
    PROVE  Elems(b) = Elems(Tail(b)) \cup {Head(b)}
<1>1. /\ Len(b) \in Nat \ {0} /\ Len(Tail(b)) = Len(b) - 1 /\ Head(b) = b[1]
      /\ \A i \in 1..Len(Tail(b)) : Tail(b)[i] = b[i + 1]
  BY HeadTailProperties
<1>2. ASSUME NEW x \in Elems(b) PROVE x = Head(b) \/ x \in Elems(Tail(b))
  <2>1. PICK i \in 1..Len(b) : x = b[i]
    BY DEF Elems
  <2>2. CASE i = 1
    BY <1>1, <2>1, <2>2
  <2>3. CASE i # 1
    <3>1. i - 1 \in 1..Len(Tail(b)) /\ (i - 1) + 1 = i
      BY <1>1, <2>3
    <3> QED BY <1>1, <2>1, <3>1 DEF Elems
  <2> QED BY <2>2, <2>3
<1>3. ASSUME NEW x \in Elems(Tail(b)) PROVE x \in Elems(b)
  <2>1. PICK i \in 1..Len(Tail(b)) : x = Tail(b)[i]
    BY DEF Elems
  <2>2. i + 1 \in 1..Len(b) /\ x = b[i + 1]
    BY <1>1, <2>1
  <2> QED BY <2>2 DEF Elems
<1>4. Head(b) \in Elems(b)
  BY <1>1 DEF Elems
<1> QED BY <1>2, <1>3, <1>4

LEMMA UptoElems ==
    ASSUME NEW k \in Nat, NEW l \in Nat, k <= l
    PROVE  Elems(Upto(k, l)) = {x \in 1..l : x > k}
<1>1. /\ Len(Upto(k, l)) = l - k /\ l - k \in Nat
      /\ \A i \in 1..(l - k) : Upto(k, l)[i] = k + i
  BY DEF Upto
<1>2. ASSUME NEW x \in 1..l, x > k PROVE x \in Elems(Upto(k, l))
  <2>1. x - k \in 1..(l - k) /\ k + (x - k) = x
    BY <1>2
  <2>2. Upto(k, l)[x - k] = x
    BY <1>1, <2>1
  <2> QED BY <1>1, <2>1, <2>2 DEF Elems
<1>3. ASSUME NEW x \in Elems(Upto(k, l)) PROVE x \in 1..l /\ x > k
  <2>1. PICK i \in 1..(l - k) : x = Upto(k, l)[i]
    BY <1>1 DEF Elems
  <2>2. x = k + i
    BY <1>1, <2>1
  <2> QED BY <2>2
<1> QED BY <1>2, <1>3

LEMMA UptoSplit ==
    ASSUME NEW m \in Nat, NEW n \in Nat, m <= n
    PROVE  Elems(Upto(0, n)) \subseteq Elems(Upto(0, m)) \cup Elems(Upto(m, n))
<1>1. /\ Elems(Upto(0, n)) = {x \in 1..n : x > 0}
      /\ Elems(Upto(0, m)) = {x \in 1..m : x > 0}
      /\ Elems(Upto(m, n)) = {x \in 1..n : x > m}
  BY UptoElems
<1> QED BY <1>1

\* No thread starts to drain the queue, and one that does, or has rebuilt,
\* goes on or has rebuilt.
Onward ==
    \A th \in Threads :
        /\ Draining(th)' => Draining(th)
        /\ Draining(th) \/ pc[th] = "done" => Draining(th)' \/ pc'[th] = "done"

LEMMA NoFactMoves ==
    ASSUME VanishInv, Onward, UNCHANGED <<session, buffer, kie, offered, clashed, dropped>>
    PROVE  VanishInv'
<1>1. EmptyHands'
  BY DEF VanishInv, EmptyHands, Onward
<1>2. OneDrains'
  BY DEF VanishInv, OneDrains, Onward
<1>3. AllHeld'
  BY DEF VanishInv, AllHeld, Held
<1> QED BY <1>1, <1>2, <1>3 DEF VanishInv

LEMMA VanishStep == TypeInv /\ MadeInOrder /\ VanishInv /\ [Next]_vars => VanishInv'
<1> SUFFICES ASSUME TypeInv, MadeInOrder, VanishInv, [Next]_vars PROVE VanishInv'
  OBVIOUS
<1> USE Distinct DEF VanishInv, EmptyHands, OneDrains, AllHeld, Held, Draining, Goto
<1>0. /\ pc \in [Threads -> PCs] /\ session \in Seq(Facts) /\ buffer \in Seq(Facts)
      /\ kie \in [Threads -> Seq(Facts)] /\ offered \in Seq(Facts)
      /\ Delta \in Threads /\ Saver \in Threads /\ (\A t \in Tasks : t \in Threads)
  BY DEF TypeInv, TypeOK, Threads, Sessions
<1>00. Elems(NoSession) = {}
  BY DEF Elems, NoSession
\* A new fact goes into the queue.
<1>1. CASE Offer
  <2>1. arrived \in Facts
    BY <1>1, BoundsAssumption DEF Offer, TypeInv, TypeOK, TaskPerFact, Facts, Tasks
  <2>2. /\ Elems(buffer') = Elems(buffer) \cup {arrived}
        /\ Elems(offered') = Elems(offered) \cup {arrived}
    BY <1>0, <1>1, <2>1, ElemsAppend DEF Offer
  <2>3. UNCHANGED <<session, kie, clashed, dropped>> /\ pc' = [pc EXCEPT ![Delta] = "readSize"]
          /\ pc[Delta] = "offer"
    BY <1>1 DEF Offer, image, marks, history
  <2> QED BY <1>0, <2>2, <2>3
\* A thread loads the snapshot: alone, or there is a clash.
<1>2. CASE \E th \in Threads : Load(th)
  <2>1. PICK th \in Threads : Load(th)
    BY <1>2
  <2>2. /\ UNCHANGED <<session, buffer, offered, dropped>> /\ kie' = [kie EXCEPT ![th] = session]
        /\ pc[th] = "load" /\ pc' = [pc EXCEPT ![th] = "replay"]
        /\ clashed' = (clashed \/ \E u \in Threads \ {th} : Draining(u))
    BY <2>1 DEF Load, image, queue, input
  <2>3. kie[th] = NoSession /\ kie'[th] = session /\ pc'[th] = "replay"
          /\ \A u \in Threads \ {th} : kie'[u] = kie[u] /\ pc'[u] = pc[u]
    BY <1>0, <2>2
  <2>4. EmptyHands'
    BY <2>3
  <2>5. OneDrains'
    BY <2>2, <2>3
  <2>6. AllHeld'
    BY <1>00, <2>2, <2>3
  <2> QED BY <2>4, <2>5, <2>6
\* A fact goes from the queue into a thread's hands.
<1>3. CASE \E th \in Threads : Remove(th) /\ buffer # <<>>
  <2>1. PICK th \in Threads : Remove(th) /\ buffer # <<>>
    BY <1>3
  <2>2. /\ kie' = [kie EXCEPT ![th] = Append(kie[th], Head(buffer))]
        /\ buffer' = Tail(buffer) /\ pc' = [pc EXCEPT ![th] = "while"] /\ pc[th] = "remove"
        /\ UNCHANGED <<session, offered, clashed, dropped>>
    BY <2>1 DEF Remove, image, input, marks
  <2>3. Head(buffer) \in Facts
    BY <1>0, <2>1
  <2>4. Elems(kie'[th]) = Elems(kie[th]) \cup {Head(buffer)}
          /\ Elems(buffer) = Elems(buffer') \cup {Head(buffer)}
    BY <1>0, <2>1, <2>2, <2>3, ElemsAppend, ElemsTail
  <2>5. pc'[th] = "while" /\ \A u \in Threads \ {th} : kie'[u] = kie[u] /\ pc'[u] = pc[u]
    BY <1>0, <2>2
  <2>6. EmptyHands' /\ OneDrains'
    BY <2>2, <2>4, <2>5
  <2>7. AllHeld'
    BY <2>2, <2>4, <2>5
  <2> QED BY <2>6, <2>7
\* A thread stores what it holds: that contains the snapshot it replaces.
<1>4. CASE (\E th \in Threads : SaveUpgraded(th)) \/ (\E t \in Tasks : SaveSnapshot(t))
  <2>1. PICK th \in Threads, l \in {"label", "unsave"} :
           /\ UNCHANGED <<buffer, offered, clashed, dropped>> /\ session' = kie[th]
           /\ kie' = [kie EXCEPT ![th] = NoSession]
           /\ pc[th] = "built" /\ pc' = [pc EXCEPT ![th] = l]
    <3>1. CASE \E th \in Threads : SaveUpgraded(th)
      BY <3>1 DEF SaveUpgraded, Dispose, queue, input, marks, history
    <3>2. CASE \E t \in Tasks : SaveSnapshot(t)
      BY <1>0, <3>2 DEF SaveSnapshot, Dispose, queue, input, marks, history
    <3> QED BY <1>4, <3>1, <3>2
  <2>2. pc'[th] = l /\ kie'[th] = NoSession
          /\ \A u \in Threads \ {th} : kie'[u] = kie[u] /\ pc'[u] = pc[u]
    BY <1>0, <2>1
  <2>3. EmptyHands'
    BY <2>2
  <2>4. OneDrains'
    BY <2>1, <2>2
  <2>5. AllHeld'
    BY <2>1, <2>2
  <2> QED BY <2>3, <2>4, <2>5
\* A thread throws what it holds away.
<1>5. CASE \E th \in Threads : Fail(th) \/ (Remove(th) /\ buffer = <<>>)
  <2>1. PICK th \in Threads : Throw(th) /\ UNCHANGED <<session, buffer, offered, clashed>>
    BY <1>5 DEF Fail, Remove, image, queue, input, marks
  <2>2. PICK l \in {"idle", "failed", "unsave"} : pc' = [pc EXCEPT ![th] = l]
    BY <2>1 DEF Throw
  <2>3. kie' = [kie EXCEPT ![th] = NoSession]
          /\ dropped' = dropped \cup (Elems(kie[th]) \ Elems(session))
    BY <2>1 DEF Throw, Discard, Dispose
  <2>4. pc'[th] = l /\ kie'[th] = NoSession
          /\ \A u \in Threads \ {th} : kie'[u] = kie[u] /\ pc'[u] = pc[u]
    BY <1>0, <2>2, <2>3
  <2>5. EmptyHands' /\ OneDrains'
    BY <2>1, <2>4
  <2>6. AllHeld'
    BY <2>1, <2>3, <2>4
  <2> QED BY <2>5, <2>6
\* The other steps move no fact, and a thread only on its way.
<1>6. CASE Add \/ ReadSize \/ WriteSize \/ needToSave \/ CompareAndSet
  <2>1. UNCHANGED <<session, buffer, kie, offered, clashed, dropped>>
    BY <1>6 DEF Add, ReadSize, WriteSize, needToSave, CompareAndSet, image, queue, input,
       marks, history, allButPc
  <2>2. pc[Delta] \in {"idle", "readSize", "writeSize", "needToSave", "cas"}
          /\ \E l \in {"load", "offer", "writeSize", "needToSave", "cas", "idle", "newLatch"} :
                pc' = [pc EXCEPT ![Delta] = l]
    BY <1>6 DEF Add, Enter, ReadSize, WriteSize, needToSave, CompareAndSet
  <2>3. Onward
    BY <1>0, <2>2 DEF Onward
  <2> QED BY <2>1, <2>3, NoFactMoves
<1>7. CASE Execute
  <2>1. PICK t \in Tasks : t = latch + 1
    BY <1>7, BoundsAssumption DEF Execute, TypeInv, TypeOK, TaskPerFact, Tasks
  <2>2. pc[t] = "idle"
    <3>1. latch \in Nat /\ ~(t <= latch)
      BY <2>1, BoundsAssumption DEF TypeInv, TypeOK, Tasks
    <3> QED BY <3>1 DEF MadeInOrder
  <2>3. UNCHANGED <<session, buffer, kie, offered, clashed, dropped>>
    BY <1>7 DEF Execute, image, queue, input
  <2>4. pc' = [pc EXCEPT ![Delta] = "idle", ![t] = "check"] /\ pc[Delta] = "newLatch"
    BY <1>7, <2>1 DEF Execute
  <2>5. Onward
    BY <1>0, <2>2, <2>4 DEF Onward
  <2> QED BY <2>3, <2>5, NoFactMoves
<1>8. CASE Rebuild \/ IsSaving \/ ReadLatch \/ Await \/ Rebuilt
  <2>1. UNCHANGED <<session, buffer, kie, offered, clashed, dropped>>
    BY <1>8 DEF Rebuild, IsSaving, ReadLatch, Await, Rebuilt, image, queue, input,
       marks, history, allButPc
  <2>2. \/ /\ pc[Saver] \in {"idle", "wait", "readLatch", "await"}
           /\ \E l \in {"wait", "readLatch", "await", "check"} : pc' = [pc EXCEPT ![Saver] = l]
        \/ pc[Saver] = "built" /\ pc' = [pc EXCEPT ![Saver] = "done"]
    BY <1>8 DEF Rebuild, IsSaving, ReadLatch, Await, Rebuilt
  <2>3. Onward
    BY <1>0, <2>2 DEF Onward
  <2> QED BY <2>1, <2>3, NoFactMoves
<1>9. CASE \E t \in Tasks : Unsave(t) \/ CountDown(t)
  <2>1. PICK t \in Tasks : Unsave(t) \/ CountDown(t)
    BY <1>9
  <2>2. UNCHANGED <<session, buffer, kie, offered, clashed, dropped>>
    BY <2>1 DEF Unsave, CountDown, image, queue, input, marks, history
  <2>3. pc[t] \in {"unsave", "countDown"}
          /\ \E l \in {"countDown", "done"} : pc' = [pc EXCEPT ![t] = l]
    BY <2>1 DEF Unsave, CountDown
  <2>4. Onward
    BY <1>0, <2>3 DEF Onward
  <2> QED BY <2>2, <2>4, NoFactMoves
<1>10. CASE \E th \in Threads : \/ CheckUpgrade(th) \/ IfNotEmpty(th) \/ WhileNotEmpty(th)
                               \/ ResetSize(th) \/ SetVersion(th)
  <2>1. PICK th \in Threads : \/ CheckUpgrade(th) \/ IfNotEmpty(th) \/ WhileNotEmpty(th)
                              \/ ResetSize(th) \/ SetVersion(th)
    BY <1>10
  <2>2. UNCHANGED <<session, buffer, kie, offered, clashed, dropped>>
    BY <2>1 DEF CheckUpgrade, IfNotEmpty, WhileNotEmpty, ResetSize, SetVersion, image, queue,
       input, marks, history, allButPc
  <2>3. \/ /\ pc[th] \in {"check", "label"}
           /\ \E l \in {"load", "offer"} : pc' = [pc EXCEPT ![th] = l]
        \/ /\ Draining(th)
           /\ \E l \in {"while", "remove", "fired", "built"} : pc' = [pc EXCEPT ![th] = l]
    BY <2>1 DEF CheckUpgrade, Enter, IfNotEmpty, WhileNotEmpty, ResetSize, SetVersion
  <2>4. Onward
    BY <1>0, <2>3 DEF Onward
  <2> QED BY <2>2, <2>4, NoFactMoves
<1>11. CASE UpdateRelease \/ UNCHANGED vars
  <2>1. UNCHANGED <<pc, session, buffer, kie, offered, clashed, dropped>>
    BY <1>11 DEF UpdateRelease, vars, allButPc, image, queue, input, marks, history
  <2>2. Onward
    BY <2>1 DEF Onward
  <2> QED BY <2>1, <2>2, NoFactMoves
<1> QED
  BY <1>1, <1>2, <1>3, <1>4, <1>5, <1>6, <1>7, <1>8, <1>9, <1>10, <1>11
     DEF Next, AddStep, RebuildStep, TaskStep, Replay, Threads

\* Whoever drains the queue, upgrades or fails, and whether or not deltas
\* arrive, facts vanish only with a session that is thrown away or when two
\* threads drain the queue together.
THEOREM FactsVanishInTwoWays == Spec => []NothingVanishes
<1>1. Init => VanishInv
  <2> SUFFICES ASSUME Init PROVE VanishInv
    OBVIOUS
  <2>1. PICK m \in 0..arrived : session = Upto(0, m) /\ buffer = Upto(m, arrived)
    BY DEF Init
  <2>2. /\ arrived \in Nat /\ m \in Nat /\ m <= arrived /\ offered = Upto(0, arrived)
    BY <2>1, BoundsAssumption DEF Init
  <2>3. Elems(Upto(0, arrived)) \subseteq Elems(Upto(0, m)) \cup Elems(Upto(m, arrived))
    BY <2>2, UptoSplit
  <2>4. AllHeld
    BY <2>1, <2>2, <2>3 DEF AllHeld, Held
  <2> QED BY <2>4 DEF Init, VanishInv, EmptyHands, OneDrains, Draining
<1>2. Spec => []VanishInv
  BY <1>1, InitTypeInv, NextTypeInv, InitExclusion, NextExclusion, InitWait, WaitStep,
     VanishStep, PTL DEF Spec, WaitInv
<1>3. VanishInv => NothingVanishes
  BY DEF VanishInv, AllHeld, Held, NothingVanishes
<1> QED BY <1>2, <1>3, PTL
============================================================================
