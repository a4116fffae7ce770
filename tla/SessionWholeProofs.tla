------------------------ MODULE SessionWholeProofs ------------------------
(***************************************************************************)
(* Proofs about SerializedSession for a node whose rules do not change and *)
(* whose rules and marshaller do not throw, for every buffer size and      *)
(* number of facts: no fact is lost before a rebuild, and a rebuild gives  *)
(* back all of them, though deltas arrive meanwhile, unless a task counted *)
(* down the latch of another or started after rebuild had looked for one.  *)
(***************************************************************************)
EXTENDS SerializedSessionProofs

SteadyRules == MaxRelease = 1 /\ ~MayFail

\* Nothing is upgraded.
Steady ==
    /\ version = release
    /\ \A th \in Threads : mode[th] = "build" /\ pc[th] # "label"
    /\ pc[Delta] \notin ReplayPCs \cup {"check"}

\* Tasks are made one after the other, and only the last one can be active.
TaskOrder ==
    \A t \in Tasks : /\ pc[t] # "idle" => t <= latch
                     /\ Active(t) => t = latch

\* A latch at zero is that of a task that has ended, unless one was stolen.
Latches == stolen \/ \A t \in Tasks : count[t] = 0 => pc[t] = "done"

\* rebuild awaits the latch of the last task, unless another one has started
\* since, and drains the buffer alone, unless a latch was stolen or a task
\* started since it looked for one.
Waits  == pc[Saver] \in {"idle", "wait", "readLatch", "await"}
Drains == pc[Saver] \in ReplayPCs \cup {"check"}
Raced  == stolen \/ joined

SaverTurn ==
    /\ pc[Saver] = "await" => joined \/ awaited = latch
    /\ Drains => Raced \/ \A t \in Tasks : ~Active(t)

OrderOfTasks == TaskOrder /\ Latches /\ SaverTurn
Known == TypeInv /\ ExclusionInv /\ Steady /\ OrderOfTasks

----------------------------------------------------------------------------
LEMMA SteadyStep == SteadyRules /\ TypeInv /\ Steady /\ [Next]_vars => Steady'
<1> SUFFICES ASSUME SteadyRules, TypeInv, Steady, [Next]_vars PROVE Steady'
  OBVIOUS
<1> USE Distinct DEF Steady, ReplayPCs, Goto, gate, image, queue, input, aux, marks, history, allButPc
<1>0. /\ pc \in [Threads -> PCs] /\ mode \in [Threads -> {"build", "upgrade"}]
      /\ Delta \in Threads /\ Saver \in Threads /\ \A t \in Tasks : t \in Threads
      /\ ~isUpgradeNeeded
  BY DEF TypeInv, TypeOK, Threads, isUpgradeNeeded
<1>1. CASE Add \/ Offer \/ ReadSize \/ WriteSize \/ needToSave \/ CompareAndSet
  BY <1>0, <1>1 DEF Add, Offer, ReadSize, WriteSize, needToSave, CompareAndSet
<1>2. CASE Execute
  <2>1. latch + 1 \in Tasks
    BY <1>2, BoundsAssumption DEF Execute, TypeInv, TypeOK, TaskPerFact, Tasks
  <2> QED BY <1>0, <1>2, <2>1 DEF Execute
<1>3. CASE Rebuild \/ IsSaving \/ ReadLatch \/ Await \/ Rebuilt
  BY <1>0, <1>3 DEF Rebuild, IsSaving, ReadLatch, Await, Rebuilt
<1>4. CASE \E t \in Tasks : SaveSnapshot(t) \/ Unsave(t) \/ CountDown(t)
  BY <1>0, <1>4 DEF SaveSnapshot, Unsave, CountDown
<1>5. CASE \E th \in Threads : Replay(th)
  <2>1. PICK th \in Threads : Replay(th)
    BY <1>5
  <2>2. th # Delta
    BY <2>1, ReplayMoves
  <2>3. CASE CheckUpgrade(th)
    BY <1>0, <2>2, <2>3 DEF CheckUpgrade, Enter
  <2>4. CASE Load(th) \/ IfNotEmpty(th) \/ WhileNotEmpty(th) \/ ResetSize(th)
    BY <1>0, <2>2, <2>4 DEF Load, IfNotEmpty, WhileNotEmpty, ResetSize
  <2>5. CASE Remove(th)
    BY <1>0, <2>2, <2>5 DEF Remove, Throw
  <2>6. ~SaveUpgraded(th) /\ ~SetVersion(th) /\ ~Fail(th)
    BY <1>0 DEF SaveUpgraded, SetVersion, Fail, SteadyRules
  <2> QED BY <2>1, <2>3, <2>4, <2>5, <2>6 DEF Replay
<1>6. ~UpdateRelease
  <2>1. release = 1 /\ Releases = {1}
    BY DEF SteadyRules, Releases, TypeInv, TypeOK
  <2> QED BY <2>1 DEF UpdateRelease
<1>7. CASE UNCHANGED vars
  BY <1>7 DEF vars
<1> QED
  BY <1>1, <1>2, <1>3, <1>4, <1>5, <1>6, <1>7
     DEF Next, AddStep, RebuildStep, TaskStep, Threads

LEMMA TaskOrderStep ==
    ASSUME TypeInv, ExclusionInv, TaskOrder, Latches, [Next]_vars
    PROVE  TaskOrder' /\ Latches' /\ (stolen => stolen')
<1> USE Distinct DEF TaskOrder, Latches
<1>0. /\ pc \in [Threads -> PCs] /\ latch \in Int
      /\ count \in [{0} \cup Tasks -> {0, 1}] /\ latch \in {0} \cup Tasks
      /\ Delta \in Threads /\ (\A t \in Tasks : t \in Threads /\ t \in Int)
  BY BoundsAssumption DEF TypeInv, TypeOK, Threads, Tasks
<1>1. CASE Execute
  <2>1. latch + 1 \in Tasks /\ latch' = latch + 1 /\ UNCHANGED <<count, stolen>>
    BY <1>1, BoundsAssumption DEF Execute, TypeInv, TypeOK, TaskPerFact, Tasks
  <2>2. \A t \in Tasks : pc'[t] = IF t = latch + 1 THEN "check" ELSE pc[t]
    BY <1>0, <1>1, <2>1 DEF Execute
  <2>3. \A t \in Tasks : ~Active(t)
    BY <1>1 DEF Execute, ExclusionInv
  <2>4. pc[latch + 1] = "idle"
    BY <1>0, <2>1
  <2> QED BY <1>0, <2>1, <2>2, <2>3, <2>4 DEF Active
<1>2. CASE \E t \in Tasks : Unsave(t)
  <2>1. PICK t \in Tasks : Unsave(t)
    BY <1>2
  <2>2. UNCHANGED <<latch, count, stolen>> /\ pc[t] = "unsave"
          /\ pc' = [pc EXCEPT ![t] = "countDown"]
    BY <2>1 DEF Unsave, Goto, marks, history
  <2> QED BY <1>0, <2>2 DEF Active, ReplayPCs
<1>3. CASE \E t \in Tasks : CountDown(t)
  <2>1. PICK t \in Tasks : CountDown(t)
    BY <1>3
  <2>2. /\ latch' = latch /\ count' = [count EXCEPT ![latch] = 0]
        /\ stolen' = (stolen \/ latch # t)
        /\ pc[t] = "countDown" /\ pc' = [pc EXCEPT ![t] = "done"]
    BY <2>1 DEF CountDown, Goto
  <2>3. Latches'
    <3> SUFFICES ASSUME ~stolen', NEW u \in Tasks, count'[u] = 0 PROVE pc'[u] = "done"
      OBVIOUS
    <3>1. ~stolen /\ latch = t
      BY <2>2
    <3> QED BY <1>0, <2>2, <3>1
  <2>4. TaskOrder'
    BY <1>0, <2>2 DEF Active, ReplayPCs
  <2> QED BY <2>2, <2>3, <2>4
<1>4. CASE ~Execute /\ ~\E t \in Tasks : CountDown(t) \/ Unsave(t)
  <2>1. /\ latch' = latch /\ count' = count /\ stolen' = stolen
        /\ awaited' \in {awaited, latch}
        /\ \A t \in Tasks : /\ Active(t)' <=> Active(t)
                            /\ ~Active(t) => pc'[t] = pc[t]
    BY <1>4, OtherSteps
  <2>2. \A t \in Tasks : pc'[t] = "done" <=> pc[t] = "done"
    BY <2>1 DEF Active, ReplayPCs
  <2>3. \A t \in Tasks : pc'[t] # "idle" => pc[t] # "idle"
    BY <2>1 DEF Active, ReplayPCs
  <2> QED BY <2>1, <2>2, <2>3
<1> QED BY <1>1, <1>2, <1>3, <1>4

\* joined changes with the start of a task only.
LEMMA JoinedStep ==
    ASSUME [Next]_vars, ~Execute
    PROVE  joined' = joined
<1> USE DEF allButPc, marks, history
<1>1. CASE Add \/ Offer \/ ReadSize \/ WriteSize \/ needToSave \/ CompareAndSet
  BY <1>1 DEF Add, Offer, ReadSize, WriteSize, needToSave, CompareAndSet
<1>2. CASE Rebuild \/ IsSaving \/ ReadLatch \/ Await \/ Rebuilt
  BY <1>2 DEF Rebuild, IsSaving, ReadLatch, Await, Rebuilt
<1>3. CASE \E t \in Tasks : SaveSnapshot(t) \/ Unsave(t) \/ CountDown(t)
  BY <1>3 DEF SaveSnapshot, Unsave, CountDown
<1>4. CASE \E th \in Threads : Replay(th)
  BY <1>4 DEF Replay, CheckUpgrade, Load, IfNotEmpty, WhileNotEmpty, Remove, ResetSize,
     SaveUpgraded, SetVersion, Fail
<1>5. CASE UpdateRelease \/ UNCHANGED vars
  BY <1>5 DEF UpdateRelease, vars
<1> QED
  BY <1>1, <1>2, <1>3, <1>4, <1>5 DEF Next, AddStep, RebuildStep, TaskStep, Threads

\* With steady rules replaying is loading, reading the queue and removing
\* from it: add never does, and nothing is stored or labelled by the way.
LEMMA SteadyReplay ==
    ASSUME SteadyRules, TypeInv, Steady, NEW th \in Threads, Replay(th)
    PROVE  /\ th # Delta
           /\ \/ CheckUpgrade(th) \/ Load(th) \/ IfNotEmpty(th) \/ WhileNotEmpty(th)
              \/ Remove(th) \/ ResetSize(th)
<1>1. ~SaveUpgraded(th) /\ ~SetVersion(th) /\ ~Fail(th)
  BY DEF Steady, SaveUpgraded, SetVersion, Fail, SteadyRules
<1>2. th # Delta
  BY ReplayMoves DEF Steady
<1> QED BY <1>1, <1>2 DEF Replay

\* The thread of rebuild stays inside replayFacts, ends or throws.
LEMMA SaverReplay ==
    ASSUME SteadyRules, TypeInv, Steady, Replay(Saver)
    PROVE  /\ pc[Saver] \in ReplayPCs \cup {"check"}
           /\ \E l \in ReplayPCs \cup {"failed"} : pc' = [pc EXCEPT ![Saver] = l]
           /\ awaited' = awaited
<1> USE Distinct DEF Goto, aux, allButPc, ReplayPCs
<1>0. Saver \in Threads
  BY DEF Threads
<1>1. CASE CheckUpgrade(Saver) \/ Load(Saver) \/ IfNotEmpty(Saver) \/ WhileNotEmpty(Saver)
  BY <1>1 DEF CheckUpgrade, Enter, Load, IfNotEmpty, WhileNotEmpty
<1>2. CASE Remove(Saver) \/ ResetSize(Saver)
  BY <1>2 DEF Remove, Throw, ResetSize
<1> QED BY <1>0, <1>1, <1>2, SteadyReplay

\* Where rebuild is, what it awaits and the session it builds change with its
\* own steps only, and a task becomes active with Execute only.
LEMMA OthersTurn ==
    ASSUME SteadyRules, TypeInv, Steady, [Next]_vars, ~Execute,
           ~(Rebuild \/ IsSaving \/ ReadLatch \/ Await \/ Rebuilt \/ Replay(Saver))
    PROVE  /\ UNCHANGED <<latch, awaited, due, pc[Saver], kie[Saver]>>
           /\ \A t \in Tasks : Active(t)' => Active(t)
<1> USE Distinct DEF Active, ReplayPCs, Goto, Dispose, gate, image, queue, input, aux, marks,
    history, allButPc
<1>0. /\ pc \in [Threads -> PCs] /\ kie \in [Threads -> Sessions]
      /\ Delta \in Threads /\ Saver \in Threads /\ \A t \in Tasks : t \in Threads
  BY DEF TypeInv, TypeOK, Threads
<1>1. CASE Add \/ Offer \/ ReadSize \/ WriteSize \/ needToSave \/ CompareAndSet
  <2>1. UNCHANGED <<latch, awaited, due, kie>> /\ \E l : pc' = [pc EXCEPT ![Delta] = l]
    BY <1>1 DEF Add, Enter, Offer, ReadSize, WriteSize, needToSave, CompareAndSet
  <2> QED BY <1>0, <2>1
<1>2. CASE \E t \in Tasks : SaveSnapshot(t) \/ Unsave(t) \/ CountDown(t)
  <2>1. PICK t \in Tasks : SaveSnapshot(t) \/ Unsave(t) \/ CountDown(t)
    BY <1>2
  <2>2. UNCHANGED <<latch, awaited, due>> /\ kie' \in {kie, [kie EXCEPT ![t] = NoSession]}
    BY <2>1 DEF SaveSnapshot, Unsave, CountDown
  <2>3. \/ pc[t] = "built" /\ pc' = [pc EXCEPT ![t] = "unsave"]
        \/ pc[t] = "unsave" /\ pc' = [pc EXCEPT ![t] = "countDown"]
        \/ pc[t] = "countDown" /\ pc' = [pc EXCEPT ![t] = "done"]
    BY <2>1 DEF SaveSnapshot, Unsave, CountDown
  <2> QED BY <1>0, <2>2, <2>3
<1>3. CASE \E th \in Threads \ {Saver} : Replay(th)
  <2>1. PICK th \in Threads \ {Saver} : Replay(th)
    BY <1>3
  <2>2. /\ th # Delta
        /\ \/ CheckUpgrade(th) \/ Load(th) \/ IfNotEmpty(th) \/ WhileNotEmpty(th)
           \/ Remove(th) \/ ResetSize(th)
    BY <2>1, SteadyReplay
  <2>3. th \in Tasks /\ pc[th] \in ReplayPCs \cup {"check"}
    BY <2>1, <2>2, ReplayMoves DEF Threads
  <2>4. \E l : pc' = [pc EXCEPT ![th] = l]
    BY <2>1, ReplayMoves
  <2>5. UNCHANGED <<latch, awaited, due>> /\ (kie' = kie \/ \E k : kie' = [kie EXCEPT ![th] = k])
    <3>1. CASE CheckUpgrade(th) \/ Load(th) \/ IfNotEmpty(th) \/ WhileNotEmpty(th)
      BY <3>1 DEF CheckUpgrade, Load, IfNotEmpty, WhileNotEmpty
    <3>2. CASE Remove(th) \/ ResetSize(th)
      BY <3>2 DEF Remove, Throw, Discard, ResetSize
    <3> QED BY <2>2, <3>1, <3>2
  <2> QED BY <1>0, <2>1, <2>3, <2>4, <2>5
<1>4. CASE UpdateRelease \/ UNCHANGED vars
  BY <1>4 DEF UpdateRelease, vars
<1> QED
  BY <1>1, <1>2, <1>3, <1>4 DEF Next, AddStep, RebuildStep, TaskStep, Threads

LEMMA SaverTurnStep ==
    ASSUME SteadyRules, TypeInv, ExclusionInv, Steady, OrderOfTasks, [Next]_vars
    PROVE  SaverTurn' /\ (Raced => Raced')
<1> USE Distinct DEF Drains, Raced, ReplayPCs, Goto
<1>0. /\ pc \in [Threads -> PCs] /\ latch \in {0} \cup Tasks /\ 0 \notin Tasks
      /\ count \in [{0} \cup Tasks -> {0, 1}]
      /\ Delta \in Threads /\ Saver \in Threads /\ (\A t \in Tasks : t \in Threads)
      /\ TaskOrder /\ Latches /\ SaverTurn
  BY DEF TypeInv, TypeOK, Threads, OrderOfTasks, Tasks
<1>00. stolen => stolen'
  BY <1>0, TaskOrderStep
\* A task that starts while rebuild awaits a latch or drains the buffer joins.
<1>1. CASE Execute
  <2>1. latch + 1 \in Tasks
    BY <1>1, BoundsAssumption DEF Execute, TypeInv, TypeOK, TaskPerFact, Tasks
  <2>2. pc'[Saver] = pc[Saver]
          /\ joined' = (joined \/ pc[Saver] \in ReplayPCs \cup {"await", "check"})
    BY <1>0, <1>1, <2>1 DEF Execute
  <2>3. CASE pc[Saver] \in ReplayPCs \cup {"await", "check"}
    BY <1>00, <2>2, <2>3 DEF SaverTurn
  <2>4. CASE pc[Saver] \notin ReplayPCs \cup {"await", "check"}
    BY <1>00, <2>2, <2>4 DEF SaverTurn
  <2> QED BY <2>3, <2>4
<1>2. CASE ~Execute
  <2>0. joined' = joined /\ (Raced => Raced')
    BY <1>00, <1>2, JoinedStep
  \* The steps of rebuild: it starts to drain when no task is active.
  <2>1. CASE Rebuild \/ IsSaving \/ ReadLatch \/ Await \/ Rebuilt
    <3>1. latch' = latch /\ count' = count /\ \E l : pc' = [pc EXCEPT ![Saver] = l]
      BY <2>1 DEF Rebuild, IsSaving, ReadLatch, Await, Rebuilt, gate, allButPc
    <3>2. \A t \in Tasks : Active(t)' <=> Active(t)
      BY <1>0, <3>1 DEF Active
    <3>3. CASE Rebuild
      BY <1>0, <3>3 DEF Rebuild, SaverTurn
    <3>4. CASE IsSaving
      <4>1. ~saving => \A t \in Tasks : ~Active(t)
        BY DEF ExclusionInv, OneSnapshotAtATime
      <4>2. pc'[Saver] = IF saving THEN "readLatch" ELSE "check"
        BY <1>0, <3>4 DEF IsSaving
      <4>3. CASE saving
        BY <2>0, <4>2, <4>3 DEF SaverTurn
      <4>4. CASE ~saving
        BY <2>0, <3>2, <4>1, <4>2, <4>4 DEF SaverTurn
      <4> QED BY <4>3, <4>4
    <3>5. CASE ReadLatch
      <4>1. pc'[Saver] = "await" /\ awaited' = latch'
        BY <1>0, <3>1, <3>5 DEF ReadLatch
      <4> QED BY <2>0, <4>1 DEF SaverTurn
    <3>6. CASE Await
      <4>1. pc[Saver] = "await" /\ pc'[Saver] = "check" /\ count[awaited] = 0
        BY <1>0, <3>6 DEF Await
      <4>2. ~Raced => latch = 0 \/ pc[latch] = "done"
        BY <1>0, <4>1 DEF SaverTurn, Latches
      <4>3. ~Raced => \A t \in Tasks : ~Active(t)
        BY <1>0, <4>2 DEF TaskOrder, Active
      <4> QED BY <2>0, <3>2, <4>1, <4>3 DEF SaverTurn
    <3>7. CASE Rebuilt
      BY <1>0, <2>0, <3>2, <3>7 DEF Rebuilt, SaverTurn
    <3> QED BY <2>0, <2>1, <3>3, <3>4, <3>5, <3>6, <3>7
  <2>2. CASE Replay(Saver)
    <3>1. pc[Saver] \in ReplayPCs \cup {"check"} /\ awaited' = awaited
      BY <2>2, SaverReplay
    <3>2. PICK l \in ReplayPCs \cup {"failed"} : pc' = [pc EXCEPT ![Saver] = l]
      BY <2>2, SaverReplay
    <3>3. pc'[Saver] = l /\ \A t \in Tasks : Active(t)' <=> Active(t)
      BY <1>0, <3>2 DEF Active
    <3> QED BY <1>0, <2>0, <3>1, <3>3 DEF SaverTurn
  \* A snapshot task can only stop being active.
  <2>3. CASE ~(Rebuild \/ IsSaving \/ ReadLatch \/ Await \/ Rebuilt \/ Replay(Saver))
    <3>1. UNCHANGED <<latch, awaited>> /\ pc'[Saver] = pc[Saver]
            /\ \A t \in Tasks : Active(t)' => Active(t)
      BY <1>2, <2>3, OthersTurn
    <3> QED BY <1>0, <2>0, <3>1 DEF SaverTurn
  <2> QED BY <2>0, <2>1, <2>2, <2>3
<1> QED BY <1>00, <1>1, <1>2

----------------------------------------------------------------------------
(* Where the facts are.                                                    *)

\* While no rebuild drains the queue, the one task that may drain it has
\* removed from it what it has added to the snapshot.
Whole ==
    Waits =>
      /\ \A t \in Tasks : /\ pc[t] = "remove" => buffer # <<>>
                          /\ Draining(t) => kie[t] \o buffer = offered
      /\ session \o buffer = offered \/ \E t \in Tasks : Draining(t)

\* Once a rebuild drains it, unless it is raced, no task does: what rebuild
\* has not taken from the queue yet is in it, and it leaves the loop with all
\* that was there when it was called.
Gathered ==
    Drains /\ ~Raced =>
      /\ pc[Saver] \in {"check", "load"} => session \o buffer = offered
      /\ Draining(Saver) => kie[Saver] \o buffer = offered
      /\ pc[Saver] = "remove" => buffer # <<>>
      /\ pc[Saver] \in {"fired", "built"} => Elems(due) \subseteq Elems(kie[Saver])

DueOffered == Elems(due) \subseteq Elems(offered)

Own == DueOffered /\ Gathered /\ RebuiltCompleteUnlessRaced

LEMMA OfferAtEnd ==
    ASSUME NEW k \in Seq(Facts), NEW b \in Seq(Facts), NEW x \in Facts
    PROVE  k \o Append(b, x) = Append(k \o b, x)
<1>1. Append(b, x) = b \o <<x>> /\ <<x>> \in Seq(Facts)
  BY AppendIsConcat
<1>2. Append(k \o b, x) = (k \o b) \o <<x>>
  BY ConcatProperties, AppendIsConcat
<1> QED BY <1>1, <1>2, ConcatAssociative

LEMMA RemoveFromHead ==
    ASSUME NEW k \in Seq(Facts), NEW b \in Seq(Facts), b # <<>>
    PROVE  Append(k, Head(b)) \o Tail(b) = k \o b
<1>1. Head(b) \in Facts /\ Tail(b) \in Seq(Facts) /\ <<Head(b)>> \in Seq(Facts)
  BY HeadTailProperties
<1>2. Append(k, Head(b)) = k \o <<Head(b)>>
  BY <1>1, AppendIsConcat
<1>3. <<Head(b)>> \o Tail(b) = b
  <2>1. Len(b) \in Nat \ {0} /\ Len(Tail(b)) = Len(b) - 1 /\ Head(b) = b[1]
          /\ \A i \in 1..Len(Tail(b)) : Tail(b)[i] = b[i + 1]
    BY HeadTailProperties
  <2>2. /\ <<Head(b)>> \o Tail(b) \in Seq(Facts)
        /\ Len(<<Head(b)>> \o Tail(b)) = Len(b)
        /\ \A i \in 1..Len(b) : (<<Head(b)>> \o Tail(b))[i] = b[i]
    BY <1>1, <2>1
  <2> QED BY <2>2, SeqEqual
<1> QED BY <1>1, <1>2, <1>3, ConcatAssociative

\* A step that moves no fact and puts no thread inside replayFacts.
LEMMA DataKept ==
    ASSUME TypeInv, Whole, UNCHANGED <<session, buffer, offered, kie>>, Waits' => Waits,
           \A t \in Tasks : /\ Draining(t)' <=> Draining(t)
                            /\ pc'[t] = "remove" => pc[t] = "remove" \/ buffer # <<>>
    PROVE  Whole'
BY DEF Whole, Draining

LEMMA WholeStep ==
    ASSUME SteadyRules, TypeInv, Steady, OrderOfTasks, Whole, [Next]_vars
    PROVE  Whole'
<1> USE Distinct DEF ReplayPCs, Goto, Waits, Draining
<1>0. /\ pc \in [Threads -> PCs] /\ latch \in {0} \cup Tasks
      /\ Delta \in Threads /\ Saver \in Threads /\ \A t \in Tasks : t \in Threads
      /\ session \in Seq(Facts) /\ buffer \in Seq(Facts) /\ kie \in [Threads -> Seq(Facts)]
      /\ TaskOrder /\ SaverTurn
  BY DEF TypeInv, TypeOK, Threads, Sessions, OrderOfTasks
<1>1. CASE Offer
  <2>1. arrived \in Facts
    BY <1>1, BoundsAssumption DEF Offer, TypeInv, TypeOK, TaskPerFact, Facts, Tasks
  <2>2. /\ buffer' = Append(buffer, arrived) /\ offered' = Append(offered, arrived)
        /\ session' = session /\ kie' = kie
        /\ pc' = [pc EXCEPT ![Delta] = "readSize"]
    BY <1>1 DEF Offer, image
  <2>3. \A k \in Seq(Facts) : k \o buffer = offered => k \o buffer' = offered'
    <3> SUFFICES ASSUME NEW k \in Seq(Facts), k \o buffer = offered
                 PROVE  k \o buffer' = offered'
      OBVIOUS
    <3>1. k \o Append(buffer, arrived) = Append(k \o buffer, arrived)
      BY <1>0, <2>1, OfferAtEnd
    <3> QED BY ONLY <2>2, <3>1, k \o buffer = offered
  <2>4. buffer' # <<>>
    <3>1. Append(buffer, arrived) # <<>>
      BY <1>0, <2>1, AppendProperties
    <3> QED BY ONLY <2>2, <3>1
  <2>5. pc'[Saver] = pc[Saver] /\ \A t \in Tasks : pc'[t] = pc[t]
    BY <1>0, <2>2
  <2> QED BY <1>0, <2>2, <2>3, <2>4, <2>5 DEF Whole
\* Steps that move no fact.
<1>2. CASE Add \/ ReadSize \/ WriteSize \/ needToSave \/ CompareAndSet
  <2>1. UNCHANGED <<session, buffer, offered, kie>> /\ \E l : pc' = [pc EXCEPT ![Delta] = l]
    BY <1>2 DEF Add, Enter, ReadSize, WriteSize, needToSave, CompareAndSet, image, queue,
       input, allButPc
  <2>2. pc'[Saver] = pc[Saver] /\ \A t \in Tasks : pc'[t] = pc[t]
    BY <1>0, <2>1
  <2> QED BY <2>1, <2>2, DataKept
<1>3. CASE Execute
  <2>1. latch + 1 \in Tasks
    BY <1>3, BoundsAssumption DEF Execute, TypeInv, TypeOK, TaskPerFact, Tasks
  <2>2. pc[latch + 1] = "idle"
    BY <1>0, <2>1, BoundsAssumption DEF TaskOrder, Tasks
  <2>3. UNCHANGED <<session, buffer, offered, kie>> /\ pc'[Saver] = pc[Saver]
          /\ \A t \in Tasks : pc'[t] = IF t = latch + 1 THEN "check" ELSE pc[t]
    BY <1>0, <1>3, <2>1 DEF Execute, image, queue, input
  <2> QED BY <2>2, <2>3, DataKept
<1>4. CASE Rebuild \/ IsSaving \/ ReadLatch \/ Await \/ Rebuilt
  <2>1. UNCHANGED <<session, buffer, offered, kie>> /\ \E l : pc' = [pc EXCEPT ![Saver] = l]
    BY <1>4 DEF Rebuild, IsSaving, ReadLatch, Await, Rebuilt, image, queue, input, allButPc
  <2>2. \A t \in Tasks : pc'[t] = pc[t]
    BY <1>0, <2>1
  <2>3. pc'[Saver] # pc[Saver] /\ (Waits' => Waits)
    BY <1>0, <1>4, <2>1 DEF Rebuild, IsSaving, ReadLatch, Await, Rebuilt
  <2> QED BY <2>1, <2>2, <2>3, DataKept
<1>5. CASE \E t \in Tasks : Unsave(t) \/ CountDown(t)
  <2>1. PICK t \in Tasks : Unsave(t) \/ CountDown(t)
    BY <1>5
  <2>2. /\ UNCHANGED <<session, buffer, offered, kie>>
        /\ \/ pc[t] = "unsave" /\ pc' = [pc EXCEPT ![t] = "countDown"]
           \/ pc[t] = "countDown" /\ pc' = [pc EXCEPT ![t] = "done"]
    BY <2>1 DEF Unsave, CountDown, image, queue, input
  <2>3. pc'[Saver] = pc[Saver]
    BY <1>0, <2>2
  <2>4. \A u \in Tasks : /\ Draining(u)' <=> Draining(u)
                         /\ pc'[u] = "remove" => pc[u] = "remove"
    BY <1>0, <2>2
  <2> QED BY <2>2, <2>3, <2>4, DataKept
\* A task stores the snapshot it has built.
<1>6. CASE \E t \in Tasks : SaveSnapshot(t)
  <2>1. PICK t \in Tasks : SaveSnapshot(t)
    BY <1>6
  <2>2. /\ UNCHANGED <<buffer, offered>> /\ session' = kie[t]
        /\ pc[t] = "built" /\ pc' = [pc EXCEPT ![t] = "unsave"]
    BY <2>1 DEF SaveSnapshot, queue, input
  <2>3. pc'[Saver] = pc[Saver]
    BY <1>0, <2>2
  <2>4. \A u \in Tasks : Active(u) => u = t
    BY <1>0, <2>2 DEF TaskOrder, Active
  <2>5. \A u \in Tasks : ~Draining(u)' /\ pc'[u] # "remove"
    BY <1>0, <2>2, <2>4 DEF Active
  <2>6. Waits => session' \o buffer' = offered'
    BY <2>2 DEF Whole
  <2> QED BY <2>3, <2>5, <2>6 DEF Whole
<1>7. CASE Replay(Saver)
  BY <1>0, <1>7, SaverReplay DEF Whole
\* A task replays facts: no other one does.
<1>8. CASE \E t \in Tasks : Replay(t)
  <2>1. PICK t \in Tasks : Replay(t)
    BY <1>8
  <2>2. \A u \in Tasks : Active(u) => u = t
    BY <1>0, <2>1, ReplayMoves DEF TaskOrder, Active
  <2>3. \A u \in Tasks \ {t} : ~Draining(u)
    BY <2>2 DEF Active
  <2>4. CASE CheckUpgrade(t) \/ IfNotEmpty(t) \/ WhileNotEmpty(t) \/ ResetSize(t)
    <3>1. /\ UNCHANGED <<session, buffer, offered, kie>>
          /\ \/ pc[t] = "check" /\ pc' = [pc EXCEPT ![t] = "load"]
             \/ pc[t] = "replay" /\ pc' = [pc EXCEPT ![t] = IF buffer = <<>> THEN "built" ELSE "while"]
             \/ pc[t] = "while" /\ pc' = [pc EXCEPT ![t] = IF buffer = <<>> THEN "fired" ELSE "remove"]
             \/ pc[t] = "fired" /\ pc' = [pc EXCEPT ![t] = "built"]
      BY <2>4 DEF CheckUpgrade, Enter, IfNotEmpty, WhileNotEmpty, ResetSize, image, queue,
         input, allButPc
    <3>2. pc'[Saver] = pc[Saver]
      BY <1>0, <3>1
    <3>3. \A u \in Tasks : /\ Draining(u)' <=> Draining(u)
                           /\ pc'[u] = "remove" => pc[u] = "remove" \/ buffer # <<>>
      BY <1>0, <3>1
    <3> QED BY <3>1, <3>2, <3>3, DataKept
  <2>5. CASE Load(t)
    <3>1. /\ UNCHANGED <<session, buffer, offered>> /\ kie' = [kie EXCEPT ![t] = session]
          /\ pc[t] = "load" /\ pc' = [pc EXCEPT ![t] = "replay"]
      BY <2>5 DEF Load, image, queue, input
    <3>2. \A u \in Tasks : ~Draining(u)
      BY <2>3, <3>1
    <3>3. Waits => session \o buffer = offered
      BY <3>2 DEF Whole
    <3>4. kie'[t] = session /\ pc'[t] = "replay" /\ pc'[Saver] = pc[Saver]
            /\ \A u \in Tasks \ {t} : pc'[u] = pc[u] /\ kie'[u] = kie[u]
      BY <1>0, <3>1
    <3> QED BY <3>1, <3>2, <3>3, <3>4 DEF Whole
  <2>6. CASE Remove(t)
    <3>1. pc[t] = "remove" /\ UNCHANGED <<session, offered>>
      BY <2>6 DEF Remove, image, input
    <3>2. SUFFICES ASSUME Waits' PROVE Whole'
      BY DEF Whole
    <3>3. \E l : pc' = [pc EXCEPT ![t] = l]
      BY <1>0, <2>1, ReplayMoves
    <3>4. Waits
      BY <1>0, <3>2, <3>3
    <3>5. buffer # <<>> /\ kie[t] \o buffer = offered
      BY <3>1, <3>4 DEF Whole
    <3>6. /\ kie' = [kie EXCEPT ![t] = Append(kie[t], Head(buffer))]
          /\ buffer' = Tail(buffer) /\ pc' = [pc EXCEPT ![t] = "while"]
      BY <2>6, <3>5 DEF Remove
    <3>7. kie'[t] \o buffer' = offered'
      BY <1>0, <3>1, <3>5, <3>6, RemoveFromHead
    <3>8. pc'[t] = "while" /\ \A u \in Tasks \ {t} : ~Draining(u)' /\ pc'[u] # "remove"
      BY <1>0, <2>3, <3>6
    <3> QED BY <3>7, <3>8 DEF Whole
  <2> QED BY <1>0, <2>1, <2>4, <2>5, <2>6, SteadyReplay
<1>9. CASE UpdateRelease \/ UNCHANGED vars
  <2>1. UNCHANGED <<session, buffer, offered, kie, pc>>
    BY <1>9 DEF UpdateRelease, vars, allButPc, image, queue, input
  <2> QED BY <2>1, DataKept
<1> QED
  BY <1>1, <1>2, <1>3, <1>4, <1>5, <1>6, <1>7, <1>8, <1>9, SteadyReplay
     DEF Next, AddStep, RebuildStep, TaskStep, Threads

LEMMA DueStep == TypeInv /\ DueOffered /\ [Next]_vars => DueOffered'
<1> SUFFICES ASSUME TypeInv, DueOffered, [Next]_vars PROVE DueOffered'
  OBVIOUS
<1> USE DEF DueOffered, Goto, aux, input, marks, history, allButPc
<1>1. CASE Offer
  <2>1. arrived \in Facts
    BY <1>1, BoundsAssumption DEF Offer, TypeInv, TypeOK, TaskPerFact, Facts, Tasks
  <2>2. offered' = Append(offered, arrived) /\ due' = due /\ offered \in Seq(Facts)
    BY <1>1 DEF Offer, TypeInv, TypeOK
  <2>3. Elems(offered) \subseteq Elems(Append(offered, arrived))
    BY <2>1, <2>2, ElemsAppend
  <2>4. Elems(due)' = Elems(due) /\ Elems(offered)' = Elems(Append(offered, arrived))
    BY <2>2 DEF Elems
  <2> QED BY <2>3, <2>4
<1>2. CASE Rebuild
  <2>1. due' = offered /\ offered' = offered
    BY <1>2 DEF Rebuild
  <2> QED BY <2>1 DEF Elems
<1>3. CASE ~Offer /\ ~Rebuild
  <2>1. UNCHANGED <<due, offered>>
    <3>1. CASE Add \/ ReadSize \/ WriteSize \/ needToSave \/ CompareAndSet \/ Execute
      BY <3>1 DEF Add, ReadSize, WriteSize, needToSave, CompareAndSet, Execute
    <3>2. CASE IsSaving \/ ReadLatch \/ Await \/ Rebuilt
      BY <3>2 DEF IsSaving, ReadLatch, Await, Rebuilt
    <3>3. CASE \E t \in Tasks : SaveSnapshot(t) \/ Unsave(t) \/ CountDown(t)
      BY <3>3 DEF SaveSnapshot, Unsave, CountDown
    <3>4. CASE \E th \in Threads : Replay(th)
      BY <3>4 DEF Replay, CheckUpgrade, Load, IfNotEmpty, WhileNotEmpty, Remove, ResetSize,
         SaveUpgraded, SetVersion, Fail
    <3>5. CASE UpdateRelease \/ UNCHANGED vars
      BY <3>5 DEF UpdateRelease, vars
    <3> QED
      BY <1>3, <3>1, <3>2, <3>3, <3>4, <3>5 DEF Next, AddStep, RebuildStep, TaskStep, Threads
  <2> QED BY <2>1 DEF Elems
<1> QED BY <1>1, <1>2, <1>3

\* A step that moves no fact and leaves rebuild where it is.
LEMMA OwnKept ==
    ASSUME Gathered, UNCHANGED <<session, buffer, offered, due, kie[Saver], pc[Saver]>>,
           Raced => Raced'
    PROVE  Gathered'
BY DEF Gathered, Drains, Draining, Elems

LEMMA GatheredStep ==
    ASSUME SteadyRules, TypeInv, ExclusionInv, Steady, OrderOfTasks, Whole, DueOffered,
           Gathered, [Next]_vars
    PROVE  Gathered'
<1> USE Distinct DEF ReplayPCs, Goto, Drains, Draining
<1>0. /\ pc \in [Threads -> PCs] /\ Saver \in Threads /\ Delta \in Threads
      /\ (\A t \in Tasks : t \in Threads)
      /\ session \in Seq(Facts) /\ buffer \in Seq(Facts) /\ kie \in [Threads -> Seq(Facts)]
      /\ TaskOrder /\ Latches /\ SaverTurn
  BY DEF TypeInv, TypeOK, Threads, Sessions, OrderOfTasks
<1>1. SaverTurn' /\ (Raced => Raced')
  BY <1>0, TaskOrderStep, SaverTurnStep
<1>2. SUFFICES ASSUME Drains', ~Raced' PROVE Gathered'
  BY DEF Gathered
\* The saver starts to drain: everything is in the snapshot and the queue.
<1>3. CASE IsSaving \/ Await
  <2>1. /\ UNCHANGED <<session, buffer, offered, kie>> /\ \E l : pc' = [pc EXCEPT ![Saver] = l]
        /\ Waits
    BY <1>3 DEF IsSaving, Await, image, queue, input, allButPc, Waits
  <2>2. pc'[Saver] = "check"
    BY <1>0, <1>2, <1>3 DEF IsSaving, Await
  <2>3. \A t \in Tasks : pc'[t] = pc[t]
    BY <1>0, <2>1
  <2>4. \A t \in Tasks : ~Active(t)'
    BY <1>1, <1>2 DEF SaverTurn
  <2>5. \A t \in Tasks : ~Draining(t)
    BY <2>3, <2>4 DEF Active
  <2>6. session \o buffer = offered
    BY <2>1, <2>5 DEF Whole
  <2> QED BY <2>1, <2>2, <2>6 DEF Gathered
\* It drains alone.
<1>4. CASE Replay(Saver)
  <2>1. Drains
    BY <1>0, <1>4, ReplayMoves
  <2>0. due' = due
    BY <1>4 DEF Replay, CheckUpgrade, Load, IfNotEmpty, WhileNotEmpty, Remove, ResetSize,
       SaveUpgraded, SetVersion, Fail, marks, history, allButPc
  <2>2. CASE CheckUpgrade(Saver)
    <3>1. UNCHANGED <<session, buffer, offered, kie>> /\ pc[Saver] = "check"
            /\ pc' = [pc EXCEPT ![Saver] = "load"]
      BY <2>2 DEF CheckUpgrade, Enter, image, queue, input
    <3>2. pc'[Saver] = "load"
      BY <1>0, <3>1
    <3> QED BY <1>1, <1>2, <2>1, <3>1, <3>2 DEF Gathered
  <2>3. CASE Load(Saver)
    <3>1. UNCHANGED <<session, buffer, offered>> /\ kie' = [kie EXCEPT ![Saver] = session]
            /\ pc[Saver] = "load" /\ pc' = [pc EXCEPT ![Saver] = "replay"]
      BY <2>3 DEF Load, image, queue, input
    <3>2. pc'[Saver] = "replay" /\ kie'[Saver] = session
      BY <1>0, <3>1
    <3> QED BY <1>1, <1>2, <2>1, <3>1, <3>2 DEF Gathered
  <2>4. CASE IfNotEmpty(Saver) \/ WhileNotEmpty(Saver) \/ ResetSize(Saver)
    <3>1. /\ UNCHANGED <<session, buffer, offered, kie>>
          /\ \/ pc[Saver] = "replay" /\ pc' = [pc EXCEPT ![Saver] = IF buffer = <<>> THEN "built" ELSE "while"]
             \/ pc[Saver] = "while" /\ pc' = [pc EXCEPT ![Saver] = IF buffer = <<>> THEN "fired" ELSE "remove"]
             \/ pc[Saver] = "fired" /\ pc' = [pc EXCEPT ![Saver] = "built"]
      BY <2>4 DEF IfNotEmpty, WhileNotEmpty, ResetSize, image, queue, input, allButPc
    <3>2. \/ pc[Saver] = "replay" /\ pc'[Saver] = IF buffer = <<>> THEN "built" ELSE "while"
          \/ pc[Saver] = "while" /\ pc'[Saver] = IF buffer = <<>> THEN "fired" ELSE "remove"
          \/ pc[Saver] = "fired" /\ pc'[Saver] = "built"
      BY <1>0, <3>1
    <3>3. kie[Saver] \o buffer = offered
      BY <1>1, <1>2, <2>1, <3>2 DEF Gathered
    \* With the queue empty it holds all that was offered.
    <3>4. pc'[Saver] \in {"fired", "built"} => Elems(due) \subseteq Elems(kie[Saver])
      <4>1. CASE pc[Saver] = "fired"
        BY <1>1, <1>2, <2>1, <4>1 DEF Gathered
      <4>2. CASE buffer = <<>>
        <5>1. kie[Saver] = offered
          BY <1>0, <3>3, <4>2, ConcatEmptySeq
        <5> QED BY <5>1 DEF DueOffered
      <4> QED BY <3>2, <4>1, <4>2
    <3>5. Elems(due)' = Elems(due) /\ Elems(kie[Saver])' = Elems(kie[Saver])
      BY <2>0, <3>1 DEF Elems
    <3> QED BY <3>1, <3>2, <3>3, <3>4, <3>5 DEF Gathered
  <2>5. CASE Remove(Saver)
    <3>1. pc[Saver] = "remove" /\ UNCHANGED <<session, offered>>
      BY <2>5 DEF Remove, image, input
    <3>2. buffer # <<>> /\ kie[Saver] \o buffer = offered
      BY <1>1, <1>2, <2>1, <3>1 DEF Gathered
    <3>3. /\ kie' = [kie EXCEPT ![Saver] = Append(kie[Saver], Head(buffer))]
          /\ buffer' = Tail(buffer) /\ pc' = [pc EXCEPT ![Saver] = "while"]
      BY <2>5, <3>2 DEF Remove
    <3>4. kie'[Saver] \o buffer' = offered'
      BY <1>0, <3>1, <3>2, <3>3, RemoveFromHead
    <3>5. pc'[Saver] = "while"
      BY <1>0, <3>3
    <3> QED BY <3>4, <3>5 DEF Gathered
  <2> QED BY <1>0, <1>4, <2>2, <2>3, <2>4, <2>5, SteadyReplay
\* The other steps of rebuild are those before and after.
<1>5. CASE Rebuild \/ ReadLatch \/ Rebuilt
  BY <1>0, <1>2, <1>5 DEF Rebuild, ReadLatch, Rebuilt
\* A task that starts now would race with rebuild.
<1>6. CASE Execute
  <2>1. latch + 1 \in Tasks
    BY <1>6, BoundsAssumption DEF Execute, TypeInv, TypeOK, TaskPerFact, Tasks
  <2>2. pc'[Saver] = pc[Saver]
          /\ joined' = (joined \/ pc[Saver] \in ReplayPCs \cup {"await", "check"})
    BY <1>0, <1>6, <2>1 DEF Execute
  <2> QED BY <1>2, <2>2 DEF Raced
\* A fact that is offered enters the queue.
<1>7. CASE Offer
  <2>1. arrived \in Facts
    BY <1>7, BoundsAssumption DEF Offer, TypeInv, TypeOK, TaskPerFact, Facts, Tasks
  <2>2. /\ buffer' = Append(buffer, arrived) /\ offered' = Append(offered, arrived)
        /\ UNCHANGED <<session, kie, due>>
        /\ pc' = [pc EXCEPT ![Delta] = "readSize"]
    BY <1>7 DEF Offer, image, marks, history
  <2>3. \A k \in Seq(Facts) : k \o buffer = offered => k \o buffer' = offered'
    <3> SUFFICES ASSUME NEW k \in Seq(Facts), k \o buffer = offered
                 PROVE  k \o buffer' = offered'
      OBVIOUS
    <3>1. k \o Append(buffer, arrived) = Append(k \o buffer, arrived)
      BY <1>0, <2>1, OfferAtEnd
    <3> QED BY ONLY <2>2, <3>1, k \o buffer = offered
  <2>4. buffer' # <<>>
    <3>1. Append(buffer, arrived) # <<>>
      BY <1>0, <2>1, AppendProperties
    <3> QED BY ONLY <2>2, <3>1
  <2>5. pc'[Saver] = pc[Saver] /\ Drains /\ ~Raced
    BY <1>0, <1>1, <1>2, <2>2
  <2>6. Elems(due)' = Elems(due) /\ Elems(kie[Saver])' = Elems(kie[Saver])
    BY <2>2 DEF Elems
  <2> QED BY <1>0, <2>2, <2>3, <2>4, <2>5, <2>6 DEF Gathered
\* Nothing else moves a fact while it drains: no task is active.
<1>8. CASE ~(Rebuild \/ IsSaving \/ ReadLatch \/ Await \/ Rebuilt \/ Replay(Saver) \/ Execute \/ Offer)
  <2>1. /\ UNCHANGED <<due, pc[Saver], kie[Saver]>>
        /\ \A t \in Tasks : Active(t)' => Active(t)
    BY <1>8, OthersTurn
  <2>2. \A t \in Tasks : ~Active(t)
    BY <1>0, <1>1, <1>2, <2>1 DEF SaverTurn
  <2>3. UNCHANGED <<session, buffer, offered>>
    <3>1. CASE Add \/ ReadSize \/ WriteSize \/ needToSave \/ CompareAndSet
      BY <3>1 DEF Add, ReadSize, WriteSize, needToSave, CompareAndSet, image, queue, input, allButPc
    <3>2. CASE \E t \in Tasks : Unsave(t) \/ CountDown(t)
      BY <3>2 DEF Unsave, CountDown, image, queue, input
    <3>3. ~\E t \in Tasks : SaveSnapshot(t) \/ Replay(t)
      BY <1>0, <2>2, ReplayMoves DEF SaveSnapshot, Active
    <3>4. ~Replay(Delta)
      BY <1>0, SteadyReplay
    <3>5. CASE UpdateRelease \/ UNCHANGED vars
      BY <3>5 DEF UpdateRelease, vars, allButPc, image, queue, input
    <3> QED
      BY <1>8, <3>1, <3>2, <3>3, <3>4, <3>5 DEF Next, AddStep, RebuildStep, TaskStep, Threads
  <2> QED BY <1>1, <2>1, <2>3, OwnKept
<1> QED BY <1>3, <1>4, <1>5, <1>6, <1>7, <1>8

LEMMA HandedOver ==
    ASSUME SteadyRules, TypeInv, ExclusionInv, Steady, OrderOfTasks, Gathered,
           RebuiltCompleteUnlessRaced, [Next]_vars
    PROVE  RebuiltCompleteUnlessRaced'
<1> USE Distinct DEF ReplayPCs, Goto
<1>0. /\ pc \in [Threads -> PCs] /\ Saver \in Threads /\ Delta \in Threads
      /\ (\A t \in Tasks : t \in Threads)
  BY DEF TypeInv, TypeOK, Threads
<1>1. Raced => Raced'
  BY TaskOrderStep, SaverTurnStep DEF OrderOfTasks
<1>2. SUFFICES ASSUME pc'[Saver] = "done", ~Raced' PROVE (Elems(due) \subseteq Elems(kie[Saver]))'
  BY DEF RebuiltCompleteUnlessRaced, RebuiltComplete, Raced
<1>3. CASE Rebuilt
  <2>1. UNCHANGED <<due, kie>> /\ pc[Saver] = "built"
    BY <1>3 DEF Rebuilt, allButPc, marks, history
  <2>2. Elems(due) \subseteq Elems(kie[Saver])
    BY <1>1, <1>2, <2>1 DEF Gathered, Drains
  <2>3. Elems(due)' = Elems(due) /\ Elems(kie[Saver])' = Elems(kie[Saver])
    BY <2>1 DEF Elems
  <2> QED BY <2>2, <2>3
<1>4. CASE Rebuild \/ IsSaving \/ ReadLatch \/ Await \/ Replay(Saver)
  <2>1. CASE Replay(Saver)
    BY <1>0, <1>2, <2>1, SaverReplay
  <2> QED BY <1>0, <1>2, <1>4, <2>1 DEF Rebuild, IsSaving, ReadLatch, Await
<1>5. CASE ~(Rebuild \/ IsSaving \/ ReadLatch \/ Await \/ Rebuilt \/ Replay(Saver))
  <2>1. UNCHANGED <<due, pc[Saver], kie[Saver]>>
    <3>1. CASE Execute
      <4>1. latch + 1 \in Tasks /\ UNCHANGED <<due, kie>>
              /\ pc' = [pc EXCEPT ![Delta] = "idle", ![latch + 1] = "check"]
        BY <3>1, BoundsAssumption DEF Execute, TypeInv, TypeOK, TaskPerFact, Tasks
      <4> QED BY <1>0, <4>1
    <3>2. CASE ~Execute
      BY <1>5, <3>2, OthersTurn
    <3> QED BY <3>1, <3>2
  <2>2. Elems(due) \subseteq Elems(kie[Saver])
    BY <1>1, <1>2, <2>1 DEF RebuiltCompleteUnlessRaced, RebuiltComplete, Raced
  <2>3. Elems(due)' = Elems(due) /\ Elems(kie[Saver])' = Elems(kie[Saver])
    BY <2>1 DEF Elems
  <2> QED BY <2>2, <2>3
<1> QED BY <1>3, <1>4, <1>5

----------------------------------------------------------------------------
LEMMA InitWhole == SteadyRules /\ Init => Steady /\ OrderOfTasks /\ Whole /\ Own
<1> SUFFICES ASSUME SteadyRules, Init PROVE Steady /\ OrderOfTasks /\ Whole /\ Own
  OBVIOUS
<1> USE Distinct DEF ReplayPCs
<1>0. /\ \A th \in Threads : pc[th] = "idle"
      /\ \A th \in Threads : mode[th] = "build"
      /\ Saver \in Threads /\ Delta \in Threads /\ (\A t \in Tasks : t \in Threads)
  BY DEF Init, Threads
<1>1. Steady
  BY <1>0 DEF Steady, Init, SteadyRules, Releases
<1>2. \A t \in Tasks : count[t] = 1
  BY BoundsAssumption DEF Init, Tasks
<1>3. OrderOfTasks
  BY <1>0, <1>2 DEF OrderOfTasks, TaskOrder, Latches, SaverTurn, Active, Drains
<1>4. session \o buffer = offered
  <2>1. PICK m \in 0..arrived : session = Upto(0, m) /\ buffer = Upto(m, arrived)
    BY DEF Init
  <2>2. arrived \in Nat /\ offered = Upto(0, arrived)
    BY BoundsAssumption DEF Init
  <2>3. ASSUME NEW n \in Nat, NEW k \in Nat, n <= k
        PROVE  Upto(n, k) \in Seq(Nat) /\ Len(Upto(n, k)) = k - n
                 /\ \A i \in 1..(k - n) : Upto(n, k)[i] = n + i
    BY <2>3 DEF Upto
  <2>0. ASSUME NEW k \in Nat
        PROVE  Upto(0, k) \in Seq(Nat) /\ Len(Upto(0, k)) = k
                 /\ \A i \in 1..k : Upto(0, k)[i] = i
    <3>1. 0 <= k /\ k - 0 = k /\ \A i \in 1..k : 0 + i = i
      OBVIOUS
    <3> QED BY <3>1 DEF Upto
  <2>4. m \in Nat /\ m <= arrived
    BY <2>1, <2>2
  <2>5. session \in Seq(Nat) /\ Len(session) = m /\ \A i \in 1..m : session[i] = i
    BY <2>0, <2>1, <2>4
  <2>6. buffer \in Seq(Nat) /\ Len(buffer) = arrived - m
          /\ \A i \in 1..(arrived - m) : buffer[i] = m + i
    BY <2>1, <2>2, <2>3, <2>4
  <2>7. offered \in Seq(Nat) /\ Len(offered) = arrived
          /\ \A i \in 1..arrived : offered[i] = i
    BY <2>0, <2>2
  <2>8. /\ session \o buffer \in Seq(Nat)
        /\ Len(session \o buffer) = Len(session) + Len(buffer)
        /\ \A i \in 1..(Len(session) + Len(buffer)) : (session \o buffer)[i] =
             IF i <= Len(session) THEN session[i] ELSE buffer[i - Len(session)]
    BY <2>5, <2>6, ConcatProperties
  <2>9. Len(session \o buffer) = Len(offered)
    BY <2>2, <2>4, <2>5, <2>6, <2>7, <2>8
  <2>10. \A i \in 1..arrived : (session \o buffer)[i] = offered[i]
    <3> SUFFICES ASSUME NEW i \in 1..arrived PROVE (session \o buffer)[i] = i
      BY <2>7
    <3>1. i \in 1..(Len(session) + Len(buffer)) /\ i \in Int
      BY <2>2, <2>4, <2>5, <2>6
    <3>2. CASE i <= m
      <4>1. i \in 1..m
        BY <2>4, <3>1, <3>2
      <4> QED BY <2>5, <2>8, <3>1, <3>2, <4>1
    <3>3. CASE i > m
      <4>1. i - m \in 1..(arrived - m) /\ m + (i - m) = i
        BY <2>2, <2>4, <3>1, <3>3
      <4> QED BY <2>4, <2>5, <2>6, <2>8, <3>1, <3>3, <4>1
    <3> QED BY <2>4, <3>1, <3>2, <3>3
  <2> QED BY <2>7, <2>8, <2>9, <2>10, SeqEqual
<1>5. Whole /\ Own
  <2>1. DueOffered
    BY DEF Init, DueOffered, Elems
  <2> QED BY <1>0, <1>4, <2>1
        DEF Whole, Own, Gathered, Draining, Drains, RebuiltCompleteUnlessRaced, RebuiltComplete
<1> QED BY <1>1, <1>3, <1>5

WholeInv == TypeInv /\ ExclusionInv /\ Steady /\ OrderOfTasks /\ Whole /\ Own

LEMMA InitWholeInv == SteadyRules /\ Init => WholeInv
<1>1. Init => ExclusionInv
  BY Distinct DEF Init, ExclusionInv, OneSnapshotAtATime, Active, ReplayPCs, Threads
<1> QED BY <1>1, InitTypeInv, InitWhole DEF WholeInv

LEMMA NextWholeInv == SteadyRules /\ WholeInv /\ [Next]_vars => WholeInv'
BY NextTypeInv, NextExclusion, SteadyStep, TaskOrderStep, SaverTurnStep, WholeStep, DueStep,
   GatheredStep, HandedOver DEF WholeInv, OrderOfTasks, Own

\* While rules and marshaller are steady, whatever the snapshots do, every
\* fact that reached the object is in its snapshot, in the hands of the task
\* that replays it or in the queue, in the order of arrival.
THEOREM NothingIsLost == SteadyRules => (Spec => []NothingLost)
<1> SUFFICES ASSUME SteadyRules PROVE Spec => []NothingLost
  OBVIOUS
<1>1. Init => WholeInv
  BY InitWholeInv
<1>2. WholeInv /\ [Next]_vars => WholeInv'
  BY NextWholeInv
<1>3. WholeInv => NothingLost
  <2> SUFFICES ASSUME WholeInv, pc[Saver] = "idle" PROVE NothingLost
    BY DEF NothingLost
  <2>1. \A th \in Threads : Draining(th) => th \in Tasks
    BY DEF WholeInv, Steady, Draining, ReplayPCs, Threads
  <2> QED BY <2>1 DEF WholeInv, Whole, Waits, NothingLost, Threads
<1> QED BY <1>1, <1>2, <1>3, PTL DEF Spec

\* ... and the session that a rebuild hands over has every fact that was in the
\* object when it was called, though deltas go on arriving, unless a task
\* counted down the latch of another or started after rebuild had looked for
\* one.
THEOREM RebuiltSessionComplete == SteadyRules => (Spec => []RebuiltCompleteUnlessRaced)
<1> SUFFICES ASSUME SteadyRules PROVE Spec => []RebuiltCompleteUnlessRaced
  OBVIOUS
<1>1. Init => WholeInv
  BY InitWholeInv
<1>2. WholeInv /\ [Next]_vars => WholeInv'
  BY NextWholeInv
<1>3. WholeInv => RebuiltCompleteUnlessRaced
  BY DEF WholeInv, Own
<1> QED BY <1>1, <1>2, <1>3, PTL DEF Spec
============================================================================
