----------------------- MODULE SessionTransferProofs -----------------------
(***************************************************************************)
(* Proofs about SessionTransfer, for every buffer size and number of facts *)
(* the object sees: the copy that writeObject puts together from fields it *)
(* reads one after the other is in order, whatever fails or is upgraded    *)
(* meanwhile; and it is whole when no thread was draining the buffer, on a *)
(* node whose rules are steady.                                            *)
(***************************************************************************)
EXTENDS SessionTransfer, SessionWholeProofs

\* What was written of the snapshot is older than all that is in the buffer,
\* now and later, and so older than what toArray has taken from it.
CopyInv ==
    /\ wpc \in WriterPCs
    /\ bytes \in Seq(Facts)
    /\ array \in Seq(Facts)
    /\ wpc \notin {"toArray", "list", "written"} => array = <<>>
    /\ Increasing(bytes)
    /\ Increasing(array)
    /\ Below(bytes, array)
    /\ Below(bytes, buffer)
    /\ UpTo(bytes, Latest)

\* What is older than the facts of the buffer, and not newer than the last one
\* that came in, stays so, whatever the threads of the session do.
LEMMA StaysBelow ==
    ASSUME TypeInv, OrderInv, [Next]_vars,
           NEW s \in Seq(Facts), Below(s, buffer), UpTo(s, Latest)
    PROVE  Below(s, buffer') /\ UpTo(s, Latest')
<1>1. TypeInv' /\ Latest <= Latest' /\ Latest \in Int /\ Latest' \in Int
  BY NextTypeInv, LatestGrows, LatestType, BoundsAssumption DEF TypeInv, TypeOK, Latest
<1>2. UpTo(s, Latest')
  BY <1>1, UpToMonotone
<1>3. buffer \in Seq(Facts)
  BY DEF TypeInv, TypeOK
<1>4. CASE Offer
  <2>1. arrived \in Facts /\ Latest = arrived - 1
    BY <1>4, BoundsAssumption DEF Offer, Pending, Latest, TypeInv, TypeOK, TaskPerFact,
       Facts, Tasks
  <2>2. \A i \in 1..Len(s) : s[i] < arrived
    BY <2>1, UpToBelow, BoundsAssumption DEF Facts
  <2>3. buffer' = Append(buffer, arrived)
    BY <1>4 DEF Offer
  <2> QED BY <1>2, <1>3, <2>1, <2>2, <2>3, AppendBelow
<1>5. CASE \E th \in Threads : Remove(th) /\ buffer # <<>>
  <2>1. buffer' = Tail(buffer) /\ buffer # <<>>
    BY <1>5 DEF Remove
  <2>2. \A j \in 1..Len(Tail(buffer)) : \E k \in 1..Len(buffer) : Tail(buffer)[j] = buffer[k]
    BY <1>3, <2>1, TailOrder DEF OrderInv
  <2> QED BY <1>2, <2>1, <2>2 DEF Below
<1>6. CASE ~Offer /\ ~(\E th \in Threads : Remove(th) /\ buffer # <<>>)
  <2>1. buffer' = buffer
    BY <1>6 DEF Next, AddStep, RebuildStep, TaskStep, Replay, Threads, Add, ReadSize,
       WriteSize, needToSave, CompareAndSet, Execute, Rebuild, IsSaving, ReadLatch, Await,
       Rebuilt, SaveSnapshot, Unsave, CountDown, UpdateRelease, CheckUpgrade, Load,
       IfNotEmpty, WhileNotEmpty, Remove, ResetSize, SaveUpgraded, SetVersion, Fail, vars,
       allButPc, queue
  <2> QED BY <1>2, <2>1
<1> QED BY <1>4, <1>5, <1>6

\* toArray passes on to a fact behind those it has, and above the bytes.
LEMMA TakeKeepsOrder ==
    ASSUME TypeInv, OrderInv, CopyInv, PassOn
    PROVE  array' \in Seq(Facts) /\ Increasing(array') /\ Below(bytes, array')
<1>1. PICK i \in 1..Len(buffer) :
         /\ array = <<>> \/ buffer[i] > array[Len(array)]
         /\ array' = Append(array, buffer[i])
  BY DEF PassOn, Behind
<1> DEFINE x == buffer[i]
<1>2. x \in Facts /\ x \in Int /\ array \in Seq(Facts) /\ bytes \in Seq(Facts)
  BY BoundsAssumption DEF TypeInv, TypeOK, CopyInv, Facts
<1>3. \A j \in 1..Len(array) : array[j] < x
  <2> SUFFICES ASSUME NEW j \in 1..Len(array) PROVE array[j] < x
    OBVIOUS
  <2>1. Len(array) \in 1..Len(array) /\ array[Len(array)] < x
    BY <1>1, <1>2 DEF Facts
  <2>2. array[j] \in Int /\ array[Len(array)] \in Int
    BY <1>2, <2>1, BoundsAssumption DEF Facts
  <2>3. CASE j = Len(array)
    BY <2>1, <2>3
  <2>4. CASE j # Len(array)
    <3>1. array[j] < array[Len(array)]
      BY <1>2, <2>1, <2>4 DEF CopyInv, Increasing
    <3> QED BY <1>2, <2>1, <2>2, <3>1
  <2> QED BY <2>3, <2>4
<1>4. \A j \in 1..Len(bytes) : bytes[j] < x
  BY DEF CopyInv, Below
<1>5. array' = Append(array, x)
  BY <1>1
<1> HIDE DEF x
<1>6. Increasing(array')
  BY <1>2, <1>3, <1>5, AppendOrder DEF CopyInv
<1>7. Below(bytes, array')
  BY <1>2, <1>4, <1>5, AppendBelow DEF CopyInv
<1> QED BY <1>2, <1>5, <1>6, <1>7

LEMMA NextCopy == TypeInv /\ OrderInv /\ CopyInv /\ [TransferNext]_transferVars => CopyInv'
<1> SUFFICES ASSUME TypeInv, OrderInv, CopyInv, [TransferNext]_transferVars
             PROVE  CopyInv'
  OBVIOUS
<1>0. Below(bytes, <<>>) /\ Increasing(<<>>) /\ <<>> \in Seq(Facts)
  BY DEF Below, Increasing
<1>1. CASE Next /\ UNCHANGED writer
  <2>1. Below(bytes, buffer') /\ UpTo(bytes, Latest')
    BY <1>1, StaysBelow DEF CopyInv
  <2>2. UNCHANGED <<wpc, bytes, array>>
    BY <1>1 DEF writer, stream
  <2> QED BY <2>1, <2>2 DEF CopyInv
<1>2. CASE WriteStep /\ UNCHANGED vars
  <2>1. buffer' = buffer /\ Latest' = Latest /\ session \in Seq(Facts)
    BY <1>2 DEF vars, allButPc, queue, input, Latest, Pending, TypeInv, TypeOK, Sessions
  <2>2. CASE WriteSession
    BY <1>0, <2>1, <2>2
       DEF WriteSession, CopyInv, OrderInv, ReplayedInOrder, WriterPCs, Below
  <2>3. CASE WriteLength \/ WriteVersion \/ NewArray \/ WriteArray
    BY <2>1, <2>3
       DEF WriteLength, WriteVersion, NewArray, WriteArray, CopyInv, WriterPCs, stream
  <2>4. CASE Take
    <3>1. UNCHANGED <<wpc, bytes>> /\ wpc \in {"toArray", "list"} /\ PassOn
      BY <2>4 DEF Take
    <3> QED BY <2>1, <3>1, TakeKeepsOrder DEF CopyInv
  <2>5. CASE Restart
    BY <1>0, <2>1, <2>5 DEF Restart, CopyInv, WriterPCs
  <2> QED BY <1>2, <2>2, <2>3, <2>4, <2>5 DEF WriteStep
<1>3. CASE UNCHANGED transferVars
  BY <1>3 DEF transferVars, vars, allButPc, queue, input, writer, stream, CopyInv, Latest,
     Pending
<1> QED BY <1>1, <1>2, <1>3 DEF TransferNext

\* Two sequences in order, the first below the second, are one in order.
LEMMA InOrderTogether == CopyInv => CopyInOrder
<1> SUFFICES ASSUME CopyInv PROVE CopyInOrder
  OBVIOUS
<1>1. /\ bytes \in Seq(Facts) /\ array \in Seq(Facts)
      /\ Len(bytes) \in Nat /\ Len(array) \in Nat
      /\ Len(bytes \o array) = Len(bytes) + Len(array)
  BY DEF CopyInv
<1>2. \A i \in 1..(Len(bytes) + Len(array)) :
         (bytes \o array)[i] = IF i <= Len(bytes) THEN bytes[i] ELSE array[i - Len(bytes)]
  BY <1>1
<1> SUFFICES ASSUME NEW i \in 1..(Len(bytes) + Len(array)),
                    NEW j \in 1..(Len(bytes) + Len(array)), i < j
             PROVE  (bytes \o array)[i] < (bytes \o array)[j]
  BY <1>1 DEF CopyInOrder, CopyOfSession, Increasing
<1>3. CASE j <= Len(bytes)
  BY <1>1, <1>2, <1>3 DEF CopyInv, Increasing
<1>4. CASE i <= Len(bytes) /\ Len(bytes) < j
  BY <1>1, <1>2, <1>4 DEF CopyInv, Below
<1>5. CASE Len(bytes) < i
  <2>1. i - Len(bytes) \in 1..Len(array) /\ j - Len(bytes) \in 1..Len(array)
    BY <1>1, <1>5
  <2>2. array[i - Len(bytes)] < array[j - Len(bytes)]
    BY <1>1, <2>1 DEF CopyInv, Increasing
  <2> QED BY <1>1, <1>2, <1>5, <2>2
<1> QED BY <1>1, <1>3, <1>4, <1>5

\* A copy of a session that is sent to a new owner while the session changes
\* never has a fact twice, nor two facts out of the order they arrived in,
\* however snapshots, upgrades and rebuilds overlap with the write and fail.
THEOREM CopyOrdered == TransferSpec => []CopyInOrder
<1>1. TransferInit => Init /\ CopyInv
  <2>1. TransferInit => Below(<<>>, buffer) /\ Below(<<>>, <<>>) /\ Increasing(<<>>)
                          /\ UpTo(<<>>, Latest)
    BY DEF Below, Increasing, UpTo
  <2> QED BY <2>1 DEF TransferInit, CopyInv, WriterPCs, NoSession
<1>2. [TransferNext]_transferVars => [Next]_vars
  BY DEF TransferNext, transferVars
<1>3. TransferSpec => [](TypeInv /\ OrderInv)
  BY <1>1, <1>2, InitTypeInv, NextTypeInv, InitOrder, NextOrder, PTL DEF TransferSpec
<1>4. TransferSpec => []CopyInv
  BY <1>1, <1>3, NextCopy, PTL DEF TransferSpec
<1> QED BY <1>4, InOrderTogether, PTL

----------------------------------------------------------------------------
(* The copy is whole unless the buffer was drained during the write.       *)

\* s is the beginning of b.
Begins(s, b) == Len(s) <= Len(b) /\ \A i \in 1..Len(s) : s[i] = b[i]

\* Until a thread drains the buffer, what was written is what the object has:
\* the snapshot of now, and the beginning of a buffer that only grows.
StillWhole ==
    Writing /\ ~disturbed =>
        /\ ~InHand
        /\ length = session
        /\ wpc # "session" => bytes = session
        /\ wpc \in {"toArray", "list"} => Begins(array, buffer) /\ room <= Len(buffer)

TransferInv == WholeInv /\ OrderInv /\ CopyInv /\ room \in Nat
                        /\ StillWhole /\ CopyWholeUnlessDisturbed

\* While no thread drains it the object only has facts offered to it.
LEMMA OnlyGrows ==
    ASSUME TypeInv, [Next]_vars, ~InHand
    PROVE  /\ session' = session
           /\ \/ buffer' = buffer
              \/ arrived \in Facts /\ buffer' = Append(buffer, arrived)
<1>0. \A th \in Threads : pc[th] \notin {"replay", "while", "remove", "fired", "built"}
  BY DEF InHand, Draining
<1>1. CASE Offer
  BY <1>1, BoundsAssumption DEF Offer, image, TypeInv, TypeOK, TaskPerFact, Facts, Tasks
<1>2. CASE ~Offer
  <2>1. \A th \in Threads : ~Remove(th) /\ ~SaveUpgraded(th) /\ ~SaveSnapshot(th)
    BY <1>0 DEF Remove, SaveUpgraded, SaveSnapshot
  <2> QED
    BY <1>2, <2>1
       DEF Next, AddStep, RebuildStep, TaskStep, Replay, Threads, Add, ReadSize, WriteSize,
           needToSave, CompareAndSet, Execute, Rebuild, IsSaving, ReadLatch, Await, Rebuilt,
           Unsave, CountDown, UpdateRelease, CheckUpgrade, Load, IfNotEmpty, WhileNotEmpty,
           ResetSize, SetVersion, Fail, vars, allButPc, image, queue
<1> QED BY <1>1, <1>2

\* What begins a queue begins it when a fact has come in.
LEMMA BeginsAppend ==
    ASSUME NEW s \in Seq(Facts), NEW b \in Seq(Facts), NEW x \in Facts, Begins(s, b)
    PROVE  Begins(s, Append(b, x)) /\ Len(b) <= Len(Append(b, x))
<1>1. /\ Len(Append(b, x)) = Len(b) + 1 /\ Len(b) \in Nat /\ Len(s) \in Nat
      /\ \A i \in 1..Len(b) : Append(b, x)[i] = b[i]
  OBVIOUS
<1> QED BY <1>1 DEF Begins

\* When the facts in the array begin the buffer, the iteration has passed
\* exactly those.
LEMMA PassedThose ==
    ASSUME buffer \in Seq(Facts), array \in Seq(Facts), Increasing(buffer),
           Begins(array, buffer)
    PROVE  Behind = (Len(array) + 1)..Len(buffer)
<1>1. /\ Len(array) \in Nat /\ Len(buffer) \in Nat /\ Len(array) <= Len(buffer)
      /\ \A i \in 1..Len(buffer) : buffer[i] \in Int
  BY BoundsAssumption DEF Begins, Facts
<1>2. CASE array = <<>>
  <2>1. Len(array) = 0 /\ Behind = 1..Len(buffer)
    BY <1>2 DEF Behind
  <2> QED BY <1>1, <2>1
<1>3. CASE array # <<>>
  <2>1. Len(array) \in 1..Len(buffer) /\ array[Len(array)] = buffer[Len(array)]
    BY <1>1, <1>3 DEF Begins
  <2>2. \A i \in 1..Len(buffer) : buffer[i] > buffer[Len(array)] <=> i > Len(array)
    BY <1>1, <2>1 DEF Increasing
  <2>3. Behind = {i \in 1..Len(buffer) : i > Len(array)}
    BY <1>3, <2>1, <2>2 DEF Behind
  <2> QED BY <1>1, <2>3
<1> QED BY <1>2, <1>3

\* The next fact it passes on to is the next one of the buffer.
LEMMA PassOnBegins ==
    ASSUME buffer \in Seq(Facts), array \in Seq(Facts), Increasing(buffer),
           Begins(array, buffer), PassOn
    PROVE  Begins(array', buffer)
<1>1. PICK i \in Behind : (\A j \in Behind : i <= j) /\ array' = Append(array, buffer[i])
  BY DEF PassOn
<1>2. Len(array) \in Nat /\ Len(buffer) \in Nat
  OBVIOUS
<1>3. i = Len(array) + 1 /\ i \in 1..Len(buffer)
  <2>1. Behind = (Len(array) + 1)..Len(buffer)
    BY PassedThose
  <2> HIDE DEF Behind
  <2>2. i \in (Len(array) + 1)..Len(buffer) /\ \A j \in (Len(array) + 1)..Len(buffer) : i <= j
    BY <1>1, <2>1
  <2> QED BY <1>2, <2>2
<1>4. buffer[i] \in Facts
  BY <1>3
<1>5. /\ Len(array') = Len(array) + 1 /\ array'[Len(array) + 1] = buffer[i]
      /\ \A k \in 1..Len(array) : array'[k] = array[k]
  BY <1>1, <1>4, AppendProperties
<1> QED BY <1>2, <1>3, <1>5 DEF Begins

\* When nothing is behind the array, it has the whole buffer.
LEMMA AllPassed ==
    ASSUME buffer \in Seq(Facts), array \in Seq(Facts), Increasing(buffer),
           Begins(array, buffer), Behind = {}
    PROVE  array = buffer
<1>1. Len(array) \in Nat /\ Len(buffer) \in Nat /\ Len(array) <= Len(buffer)
  BY DEF Begins
<1>2. Len(array) = Len(buffer)
  <2>1. Behind = (Len(array) + 1)..Len(buffer)
    BY PassedThose
  <2>2. Len(array) + 1 \notin (Len(array) + 1)..Len(buffer)
    BY <2>1
  <2> QED BY <1>1, <2>2
<1> QED BY <1>2, SeqEqual DEF Begins

LEMMA StillWholeStep ==
    ASSUME SteadyRules, TransferInv, [TransferNext]_transferVars
    PROVE  StillWhole'
<1>0. TypeInv /\ OrderInv /\ CopyInv /\ StillWhole /\ room \in Nat
        /\ buffer \in Seq(Facts) /\ array \in Seq(Facts) /\ Increasing(buffer)
  BY DEF TransferInv, WholeInv, TypeInv, TypeOK, OrderInv, CopyInv
<1>1. CASE UNCHANGED transferVars
  BY <1>0, <1>1
     DEF transferVars, vars, allButPc, image, queue, writer, stream, StillWhole, Writing,
         InHand, Draining, Begins
<1>2. CASE TransferNext
  <2> SUFFICES ASSUME Writing', ~disturbed'
               PROVE  /\ ~InHand'
                      /\ length' = session'
                      /\ wpc' # "session" => bytes' = session'
                      /\ wpc' \in {"toArray", "list"} =>
                            Begins(array', buffer') /\ room' <= Len(buffer')
    BY DEF StillWhole, Begins
  <2>1. ~disturbed /\ ~InHand /\ ~InHand'
    BY <1>2 DEF TransferNext
  <2>2. CASE Next /\ UNCHANGED writer
    <3>1. UNCHANGED <<wpc, length, bytes, room, array>> /\ Writing
      BY <2>2 DEF writer, stream, Writing
    <3>2. session' = session
            /\ (buffer' = buffer \/ (arrived \in Facts /\ buffer' = Append(buffer, arrived)))
      <4>1. [Next]_vars
        BY <2>2
      <4> QED BY ONLY <1>0, <2>1, <4>1, OnlyGrows
    <3>3. CASE buffer' = buffer
      BY <1>0, <2>1, <3>1, <3>2, <3>3 DEF StillWhole
    <3>4. CASE arrived \in Facts /\ buffer' = Append(buffer, arrived)
      <4>1. Begins(array, buffer) => Begins(array, buffer')
        BY <1>0, <3>4, BeginsAppend
      <4>2. Len(buffer') = Len(buffer) + 1 /\ Len(buffer) \in Nat
        BY <1>0, <3>4
      <4>3. room <= Len(buffer) => room <= Len(buffer')
        BY <1>0, <4>2
      <4> QED BY <1>0, <2>1, <3>1, <3>2, <4>1, <4>3 DEF StillWhole
    <3> QED BY <3>2, <3>3, <3>4
  <2>3. CASE WriteStep /\ UNCHANGED vars
    <3>0. UNCHANGED <<session, buffer>>
      BY <2>3 DEF vars, allButPc, image, queue
    <3>1. CASE WriteLength
      BY <2>1, <3>0, <3>1 DEF WriteLength
    <3>2. CASE WriteSession \/ WriteVersion
      BY <1>0, <2>1, <3>0, <3>2 DEF WriteSession, WriteVersion, StillWhole, Writing
    <3>3. CASE NewArray
      <4>1. array = <<>> /\ Begins(<<>>, buffer) /\ Len(buffer) \in Nat
        BY <1>0, <3>3 DEF NewArray, CopyInv, Begins
      <4> QED BY <1>0, <2>1, <3>0, <3>3, <4>1 DEF NewArray, StillWhole, Writing
    <3>4. CASE Take
      <4>1. wpc \in {"toArray", "list"} /\ PassOn /\ UNCHANGED <<wpc, length, bytes, room>>
        BY <3>4 DEF Take
      <4>2. Begins(array, buffer) => Begins(array', buffer)
        BY <1>0, <4>1, PassOnBegins
      <4> QED BY <1>0, <2>1, <3>0, <4>1, <4>2 DEF StillWhole, Writing
    <3>5. CASE Restart
      <4>1. Begins(<<>>, buffer)
        BY <1>0 DEF Begins
      <4> QED BY <1>0, <2>1, <3>0, <3>5, <4>1 DEF Restart, StillWhole, Writing
    <3>6. ~WriteArray
      BY DEF WriteArray, Writing
    <3> QED BY <2>3, <3>1, <3>2, <3>3, <3>4, <3>5, <3>6 DEF WriteStep
  <2> QED BY <1>2, <2>2, <2>3 DEF TransferNext
<1> QED BY <1>1, <1>2

LEMMA CopyWholeStep ==
    ASSUME SteadyRules, TransferInv, [TransferNext]_transferVars
    PROVE  CopyWholeUnlessDisturbed'
<1>0. TypeInv /\ Whole /\ OrderInv /\ CopyInv /\ StillWhole /\ CopyWholeUnlessDisturbed
        /\ buffer \in Seq(Facts) /\ array \in Seq(Facts) /\ Increasing(buffer)
        /\ room \in Nat
  BY DEF TransferInv, WholeInv, TypeInv, TypeOK, OrderInv, CopyInv
<1>1. CASE wpc' = wpc
  <2>1. CASE wpc = "written"
    <3>1. UNCHANGED <<wpc, stream, expected>>
      BY <2>1 DEF TransferNext, transferVars, writer, stream, WriteStep, WriteLength,
         WriteSession, WriteVersion, NewArray, Take, Restart, WriteArray
    <3>2. disturbed => disturbed'
      BY DEF TransferNext, transferVars
    <3> QED BY <1>0, <3>1, <3>2
          DEF CopyWholeUnlessDisturbed, Readable, Nulls, CopyOfSession, stream
  <2> QED BY <1>1, <2>1 DEF CopyWholeUnlessDisturbed
\* toArray returns when it has passed the whole buffer.
<1>2. CASE WriteArray /\ UNCHANGED vars /\ TransferNext
  <2> SUFFICES ASSUME ~disturbed' PROVE Readable' /\ CopyOfSession' = expected'
    BY DEF CopyWholeUnlessDisturbed
  <2>1. ~disturbed /\ Writing /\ wpc \in {"toArray", "list"} /\ Behind = {}
    BY <1>2 DEF TransferNext, WriteArray, Writing
  <2>2. /\ ~InHand /\ length = session /\ bytes = session
        /\ Begins(array, buffer) /\ room <= Len(buffer)
    BY <1>0, <2>1 DEF StillWhole
  <2>3. array = buffer
    BY <1>0, <2>1, <2>2, AllPassed
  <2>4. session \o buffer = offered
    <3>1. pc[Saver] = "idle" /\ \A t \in Tasks : ~Draining(t)
      BY <2>2 DEF InHand, Threads
    <3> QED BY <1>0, <3>1 DEF Whole, Waits
  <2>5. UNCHANGED <<length, bytes, room, array>> /\ expected' = offered
    BY <1>2 DEF WriteArray, stream
  <2>6. ~(Len(array) < room)
    BY <1>0, <2>2, <2>3
  <2>7. Nulls' = 0
    BY <2>5, <2>6 DEF Nulls
  <2> QED BY <2>2, <2>3, <2>4, <2>5, <2>7 DEF Readable, CopyOfSession
<1>3. CASE wpc' # "written"
  BY <1>3 DEF CopyWholeUnlessDisturbed
<1>4. wpc' # wpc /\ wpc' = "written" => WriteArray /\ UNCHANGED vars /\ TransferNext
  BY DEF TransferNext, transferVars, writer, WriteStep, WriteLength, WriteSession,
     WriteVersion, NewArray, Take, Restart
<1> QED BY <1>1, <1>2, <1>3, <1>4

LEMMA NextTransferInv ==
    SteadyRules /\ TransferInv /\ [TransferNext]_transferVars => TransferInv'
<1> SUFFICES ASSUME SteadyRules, TransferInv, [TransferNext]_transferVars PROVE TransferInv'
  OBVIOUS
<1>1. TypeInv /\ OrderInv /\ CopyInv /\ WholeInv /\ room \in Nat /\ buffer \in Seq(Facts)
  BY DEF TransferInv, WholeInv, TypeInv, TypeOK
<1>2. [Next]_vars
  BY DEF TransferNext, transferVars
<1>3. WholeInv' /\ OrderInv' /\ CopyInv'
  BY <1>1, <1>2, NextWholeInv, NextOrder, NextCopy
<1>4. room' \in Nat
  BY <1>1 DEF TransferNext, transferVars, writer, stream, WriteStep, WriteLength,
     WriteSession, WriteVersion, NewArray, Take, Restart, WriteArray
<1> QED BY <1>3, <1>4, StillWholeStep, CopyWholeStep DEF TransferInv

\* While rules and marshaller are steady, a copy of a session that is written
\* while no thread drains its buffer can be read by the new owner and has
\* every fact that had come in when the buffer was copied, in order, though
\* the fields are read at different times and facts come in between them.
THEOREM CopyIsWhole == SteadyRules => (TransferSpec => []CopyWholeUnlessDisturbed)
<1> SUFFICES ASSUME SteadyRules PROVE TransferSpec => []CopyWholeUnlessDisturbed
  OBVIOUS
<1>1. TransferInit => TransferInv
  <2> SUFFICES ASSUME TransferInit PROVE TransferInv
    OBVIOUS
  <2>1. Below(<<>>, buffer) /\ Below(<<>>, <<>>) /\ Increasing(<<>>) /\ UpTo(<<>>, Latest)
    BY DEF Below, Increasing, UpTo
  <2>2. CopyInv /\ room \in Nat /\ StillWhole /\ CopyWholeUnlessDisturbed
    BY <2>1 DEF TransferInit, CopyInv, WriterPCs, NoSession, StillWhole, Writing,
       CopyWholeUnlessDisturbed
  <2>3. Init
    BY DEF TransferInit
  <2> QED BY <2>2, <2>3, InitWholeInv, InitOrder DEF TransferInv
<1>2. TransferInv /\ [TransferNext]_transferVars => TransferInv'
  BY NextTransferInv
<1>3. TransferInv => CopyWholeUnlessDisturbed
  BY DEF TransferInv
<1> QED BY <1>1, <1>2, <1>3, PTL DEF TransferSpec
============================================================================
