-------------------------- MODULE SessionTransfer --------------------------
(***************************************************************************)
(* HASerializedSessionExternalizer: a HAKieSerializedSession is written to *)
(* a node that becomes an owner of its group, while the threads of         *)
(* SerializedSession go on changing it.  writeObject takes no lock: it     *)
(* reads the length of the snapshot, the snapshot, its version, the size   *)
(* of the buffer and then the buffer, fact by fact, as the iteration of a  *)
(* ConcurrentLinkedQueue (external) does.  readObject rebuilds the object  *)
(* from what was written, unless it cannot.                                *)
(***************************************************************************)
EXTENDS SerializedSession

VARIABLES
    wpc,      \* where writeObject is
    length,   \* the snapshot whose length was written
    bytes,    \* the snapshot that was written
    label,    \* the version that was written with it
    room,     \* object.buffer.size(), the length of the array fa
    array,    \* the facts toArray has put in the array
    expected, \* history: every fact offered when toArray returned
    disturbed \* history: the buffer was being drained during the write

stream    == <<length, bytes, label, room, array>>
writer    == <<wpc, stream, expected>>
transferVars == <<vars, writer, disturbed>>

WriterPCs == {"idle", "session", "version", "size", "toArray", "list", "written"}
NoLabel == 0

TransferInit ==
    /\ Init
    /\ wpc = "idle"
    /\ length = NoSession /\ bytes = NoSession
    /\ label = NoLabel
    /\ room = 0
    /\ array = <<>>
    /\ expected = <<>>
    /\ disturbed = FALSE

\* A thread has taken facts out of the buffer that the snapshot has not got.
InHand == pc[Saver] # "idle" \/ \E th \in Threads : Draining(th)

Writing == wpc \notin {"idle", "written"}

----------------------------------------------------------------------------
\* output.writeInt(object.getSessionSize())
WriteLength ==
    /\ wpc = "idle"
    /\ length' = session
    /\ wpc' = "session"
    /\ UNCHANGED <<bytes, label, room, array, expected>>

\* if (object.session != null) output.write(object.session)
WriteSession ==
    /\ wpc = "session"
    /\ bytes' = session
    /\ wpc' = IF session = NoSession THEN "size" ELSE "version"
    /\ UNCHANGED <<length, label, room, array, expected>>

WriteVersion ==
    /\ wpc = "version"
    /\ label' = version
    /\ wpc' = "size"
    /\ UNCHANGED <<length, bytes, room, array, expected>>

\* new Fact[object.buffer.size()]
NewArray ==
    /\ wpc = "size"
    /\ room' = Len(buffer)
    /\ wpc' = "toArray"
    /\ UNCHANGED <<length, bytes, label, array, expected>>

\* Where in the buffer the facts are that the iteration has not passed yet.
Behind == {i \in 1..Len(buffer) : array = <<>> \/ buffer[i] > array[Len(array)]}

\* The iteration passes on to the next fact.
PassOn == \E i \in Behind :
              /\ \A j \in Behind : i <= j
              /\ array' = Append(array, buffer[i])

\* Mutant: the array has room for the facts that size counts.
TakeCounted ==
    /\ wpc \in {"toArray", "list"}
    /\ Behind # {}
    /\ IF Len(array) >= size
         THEN wpc' = "written" /\ expected' = offered /\ UNCHANGED array
         ELSE PassOn /\ UNCHANGED <<wpc, expected>>
    /\ UNCHANGED <<length, bytes, label, room>>

\* toArray(fa) passes on to the next fact.
Take ==
    /\ wpc = "list" \/ (wpc = "toArray" /\ Len(array) < room)
    /\ PassOn
    /\ UNCHANGED <<wpc, length, bytes, label, room, expected>>

\* A fact came in behind those in the array and is not in the queue any more.
RemovedBehind == array # <<>> /\ array[Len(array)] < offered[Len(offered)]

\* The array is full and the queue has another node, if only that of a fact
\* removed since: toArray starts again with a list.
Restart ==
    /\ wpc = "toArray" /\ Len(array) = room
    /\ Behind # {} \/ RemovedBehind
    /\ array' = <<>>
    /\ wpc' = "list"
    /\ UNCHANGED <<length, bytes, label, room, expected>>

\* Mutant: the snapshot is written behind the buffer.
WriteSessionLast ==
    /\ wpc \in {"toArray", "list"}
    /\ Behind = {}
    /\ expected' = offered
    /\ length' = session
    /\ bytes' = session
    /\ wpc' = "written"
    /\ UNCHANGED <<label, room, array>>

\* toArray returns and the array is written.
WriteArray ==
    /\ wpc \in {"toArray", "list"}
    /\ Behind = {}
    /\ expected' = offered
    /\ wpc' = "written"
    /\ UNCHANGED stream

----------------------------------------------------------------------------
\* The array is filled up with null where the queue has shrunk.
Nulls == IF wpc = "written" /\ Len(array) < room THEN room - Len(array) ELSE 0

\* readObject returns an object: the length is that of the bytes that follow,
\* and ConcurrentLinkedQueue accepts every element of the array.
Readable == length = bytes /\ Nulls = 0

\* The session of the object that readObject returns.
CopyOfSession == bytes \o array

----------------------------------------------------------------------------
WriteStep ==
    \/ WriteLength \/ WriteSession \/ WriteVersion \/ NewArray
    \/ Take \/ Restart \/ WriteArray

TransferNext ==
    /\ \/ Next /\ UNCHANGED writer
       \/ WriteStep /\ UNCHANGED vars
    /\ disturbed' = (disturbed \/ (Writing' /\ (InHand \/ InHand')))

TransferSpec == TransferInit /\ [][TransferNext]_transferVars

----------------------------------------------------------------------------
\* What the writer has got.
TransferTypeOK ==
    /\ wpc \in WriterPCs
    /\ length \in Sessions /\ bytes \in Sessions
    /\ label \in Releases \cup {NoLabel}
    /\ room \in Nat
    /\ array \in Seq(Facts)
    /\ expected \in Seq(Facts)
    /\ disturbed \in BOOLEAN

\* The copy on the new owner never has a fact twice or out of order, though it
\* is put together from a snapshot and a buffer that were read at different
\* times while facts moved from one to the other.
CopyInOrder == Increasing(CopyOfSession)

\* If no thread was draining the buffer while the object was written, the new
\* owner can read what was written and has every fact offered by then, though facts
\* came in, the queue outgrew its array and a snapshot was scheduled meanwhile.
CopyWholeUnlessDisturbed ==
    wpc = "written" /\ ~disturbed => Readable /\ CopyOfSession = expected
============================================================================
