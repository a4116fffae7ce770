------------------------ MODULE RouterControlProofs ------------------------
(***************************************************************************)
(* What is proved of RouterControl for any nodes, with routers that fail   *)
(* to start: TypeOK, SuspendHolds, ResumeHolds and UpHasRoute.             *)
(***************************************************************************)
EXTENDS RouterControl, TLAPS

\* While SUSPEND is put, and after it, every node that is up and was not
\* started or woken since is suspended or still to be reached.
Suspending ==
    wanted = SUSPEND /\ ~crossed =>
       \A n \in Up \ (late \cup woken) : route[n] = "running" => n \in todo[SUSPEND]

\* Without a SUSPEND to account for it, a suspended node is in a rehash or is
\* still to be reached by RESUME.
Resuming ==
    wanted = RESUME /\ ~crossed =>
       \A n \in Nodes : route[n] = "suspended" => rehash[n] \/ n \in todo[RESUME]

\* Only what was last asked for is being put, if it was sent alone.
PutWanted == ~crossed => putting \subseteq {wanted}

\* A router that has its flag and no route is one that threw.
FlagWithoutRoute == \A n \in Nodes : started[n] /\ route[n] = "none" => n \in botched

\* A router is not stopped behind the back of a node that is up.
UpStarted == \A n \in Up : started[n]

IInv == TypeOK /\ PutWanted /\ Suspending /\ Resuming /\ FlagWithoutRoute /\ UpStarted

USE ConstantsAssumption DEF SUSPEND, RESUME, Keys, Up, Listening

LEMMA InitIInv == Init => IInv
  BY DEF Init, IInv, TypeOK, PutWanted, Suspending, Resuming, FlagWithoutRoute, UpStarted

LEMMA InvStep == IInv /\ [Next]_vars => IInv'
<1> SUFFICES ASSUME IInv, [Next]_vars PROVE IInv'
  OBVIOUS
<1> USE DEF IInv, TypeOK, PutWanted, Suspending, Resuming, FlagWithoutRoute, UpStarted,
        router, info, past
<1>1. ASSUME NEW n \in Nodes, StartInfo(n) PROVE IInv'
  BY <1>1 DEF StartInfo
<1>2. ASSUME NEW n \in Nodes, StartGrid(n) PROVE IInv'
  BY <1>2 DEF StartGrid
<1>3. ASSUME NEW n \in Nodes, StartRouter(n) PROVE IInv'
  BY <1>3 DEF StartRouter
<1>4. ASSUME NEW n \in Nodes, StopRouter(n) PROVE IInv'
  BY <1>4 DEF StopRouter
<1>5. ASSUME NEW n \in Nodes, StopGrid(n) PROVE IInv'
  BY <1>5 DEF StopGrid
<1>6. ASSUME NEW n \in Nodes, NEW k \in Keys, EventReceived(n, k) PROVE IInv'
  BY <1>6 DEF EventReceived, Suspend, Resume
<1>7. ASSUME NEW n \in Nodes, RehashPre(n) PROVE IInv'
  BY <1>7 DEF RehashPre, Suspend
<1>8. ASSUME NEW n \in Nodes, RehashPost(n) PROVE IInv'
  BY <1>8 DEF RehashPost, Resume
<1>9. ASSUME NEW k \in Keys, Send(k) PROVE IInv'
  BY <1>9 DEF Send, Ask
<1>10. ASSUME NEW k \in Keys, PutReturns(k) PROVE IInv'
  BY <1>10 DEF PutReturns
<1>11. CASE UNCHANGED vars
  BY <1>11 DEF vars
<1> QED
  BY <1>1, <1>2, <1>3, <1>4, <1>5, <1>6, <1>7, <1>8, <1>9, <1>10, <1>11 DEF Next

\* TypeOK holds of every node, also after a router has failed to start and
\* the node is started again.
THEOREM RouterTypes == Spec => []TypeOK
<1>1. IInv => TypeOK
  BY DEF IInv
<1> QED
  BY <1>1, InitIInv, InvStep, PTL DEF Spec

\* SUSPEND silences every node that was up, until a rehash or a new router.
THEOREM SuspendSilences == Spec => []SuspendHolds
<1>1. IInv => SuspendHolds
  BY DEF IInv, TypeOK, Suspending, SuspendHolds, Answered
<1> QED
  BY <1>1, InitIInv, InvStep, PTL DEF Spec

\* RESUME leaves no node suspended, whatever rehashes overlap with it.
THEOREM ResumeWakes == Spec => []ResumeHolds
<1>1. IInv => ResumeHolds
  BY DEF IInv, TypeOK, Resuming, ResumeHolds, Answered
<1> QED
  BY <1>1, InitIInv, InvStep, PTL DEF Spec

\* A node that is up takes facts or is suspended, unless its router threw.
THEOREM RouteOfEveryNode == Spec => []UpHasRoute
<1>1. IInv => UpHasRoute
  BY DEF IInv, FlagWithoutRoute, UpStarted, UpHasRoute
<1> QED
  BY <1>1, InitIInv, InvStep, PTL DEF Spec
============================================================================
