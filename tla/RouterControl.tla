--------------------------- MODULE RouterControl ---------------------------
(***************************************************************************)
(* Who starts, suspends and resumes the route "facts" that takes facts     *)
(* from JMS on each node: HACEPImpl.start and stop, the SUSPEND and RESUME *)
(* keys of the cache ___infos that SuspendResumeListener follows, and the  *)
(* rehash of the session cache (SessionListenerPre and -Post).             *)
(*                                                                         *)
(* External: a put of ___infos holds the lock of its key, and no other,    *)
(* and reaches every listening member before it returns; a rehash tells    *)
(* each member when it begins and when it ends, at its own time;           *)
(* suspendRoute and resumeRoute do nothing to a route that does not exist. *)
(***************************************************************************)
CONSTANTS
    Nodes,   \* the nodes of the cluster
    MayFail  \* may CamelRouter.start throw (addComponent, addRoutes)?

ASSUME ConstantsAssumption == MayFail \in BOOLEAN

VARIABLES
    status,  \* how far HACEPImpl.start or stop is on each node
    started, \* the flag of its CamelRouter
    route,   \* its route "facts"
    rehash,  \* is its session cache between PRE and POST of a rehash?
    putting, \* keys of ___infos that are being put
    todo,    \* members each put has not reached
    wanted,  \* history: what the last SUSPEND or RESUME asked for
    crossed, \* history: ... while the other was still being put
    late,    \* history: nodes whose router started since,
    woken,   \* ... or was resumed by a rehash
    botched  \* history: nodes whose router threw since it last stopped

router == <<started, route>>
info   == <<putting, todo, wanted, crossed>>
past   == <<late, woken, botched>>
vars   == <<status, router, rehash, info, past>>

SUSPEND == "SUSPEND_ROUTE"
RESUME  == "RESUME_ROUTE"
Keys    == {SUSPEND, RESUME}

Up        == {n \in Nodes : status[n] = "up"}
\* A start that fails leaves the caches and their listeners behind.
Listening == {n \in Nodes : status[n] # "down"}

Init ==
    /\ status = [n \in Nodes |-> "down"]
    /\ started = [n \in Nodes |-> FALSE]
    /\ route = [n \in Nodes |-> "none"]
    /\ rehash = [n \in Nodes |-> FALSE]
    /\ putting = {}
    /\ todo = [k \in Keys |-> {}]
    /\ wanted = RESUME
    /\ crossed = FALSE
    /\ late = {}
    /\ woken = {}
    /\ botched = {}

----------------------------------------------------------------------------
\* CamelRouter.suspend and resume: nothing, unless it has started.
Suspend(n) ==
    route' = [route EXCEPT ![n] = IF started[n] /\ @ = "running" THEN "suspended" ELSE @]

Resume(n) ==
    route' = [route EXCEPT ![n] = IF started[n] /\ @ = "suspended" THEN "running" ELSE @]

\* HACEPImpl.start: the listeners of ___infos are added
StartInfo(n) ==
    /\ status[n] \in {"down", "failed"}
    /\ status' = [status EXCEPT ![n] = "info"]
    /\ UNCHANGED <<router, rehash, info, past>>

\* ... the session cache is joined and its listeners are added
StartGrid(n) ==
    /\ status[n] = "info"
    /\ status' = [status EXCEPT ![n] = "grid"]
    /\ UNCHANGED <<router, rehash, info, past>>

\* ... and the router is started, unless its flag says that it is.  When it
\* throws the flag stays set and the start of the node fails.
StartRouter(n) ==
    /\ status[n] = "grid"
    /\ \/ /\ started[n]
          /\ status' = [status EXCEPT ![n] = "up"]
          /\ UNCHANGED <<route, late, botched>>
       \/ /\ ~started[n]
          /\ status' = [status EXCEPT ![n] = "up"]
          /\ route' = [route EXCEPT ![n] = "running"]
          /\ late' = late \cup {n}
          /\ UNCHANGED botched
       \/ /\ ~started[n] /\ MayFail
          /\ status' = [status EXCEPT ![n] = "failed"]
          /\ botched' = botched \cup {n}
          /\ UNCHANGED <<route, late>>
    /\ started' = [started EXCEPT ![n] = TRUE]
    /\ UNCHANGED <<rehash, info, woken>>

\* Mutant: only the flag of the router is cleared.
StopFlag(n) ==
    /\ status[n] = "up"
    /\ started' = [started EXCEPT ![n] = FALSE]
    /\ status' = [status EXCEPT ![n] = "stopping"]
    /\ UNCHANGED <<route, rehash, info, past>>

\* Mutant: the route ends and the flag of the router stays set.
StopKeepsFlag(n) ==
    /\ status[n] = "up"
    /\ route' = [route EXCEPT ![n] = "none"]
    /\ status' = [status EXCEPT ![n] = "stopping"]
    /\ botched' = botched \ {n}
    /\ UNCHANGED <<started, rehash, info, late, woken>>

\* HACEPImpl.stop: the router first ...
StopRouter(n) ==
    /\ status[n] = "up"
    /\ started' = [started EXCEPT ![n] = FALSE]
    /\ route' = [route EXCEPT ![n] = IF started[n] THEN "none" ELSE @]
    /\ status' = [status EXCEPT ![n] = "stopping"]
    /\ botched' = botched \ {n}
    /\ UNCHANGED <<rehash, info, late, woken>>

\* ... and then the caches
StopGrid(n) ==
    /\ status[n] = "stopping"
    /\ status' = [status EXCEPT ![n] = "down"]
    /\ rehash' = [rehash EXCEPT ![n] = FALSE]
    /\ todo' = [k \in Keys |-> todo[k] \ {n}]
    /\ UNCHANGED <<router, putting, wanted, crossed, past>>

----------------------------------------------------------------------------
\* What was asked for last, and whether the other is still on its way.
Ask(k) ==
    /\ wanted' = k
    /\ crossed' = (putting # {})
    /\ IF k = SUSPEND THEN late' = {} /\ woken' = {} ELSE UNCHANGED <<late, woken>>

\* Mutant: the listener is primaryOnly, so that one member hears of the put.
SendToOne(k) ==
    /\ k \notin putting
    /\ Up # {}
    /\ putting' = putting \cup {k}
    /\ \E n \in Up : todo' = [todo EXCEPT ![k] = {n}]
    /\ Ask(k)
    /\ UNCHANGED <<status, router, rehash, botched>>

\* HACEPImpl.suspend or resume, on any node that is up.
Send(k) ==
    /\ k \notin putting
    /\ Up # {}
    /\ putting' = putting \cup {k}
    /\ todo' = [todo EXCEPT ![k] = Listening]
    /\ Ask(k)
    /\ UNCHANGED <<status, router, rehash, botched>>

\* SuspendResumeListener.eventReceived
EventReceived(n, k) ==
    /\ n \in todo[k]
    /\ todo' = [todo EXCEPT ![k] = @ \ {n}]
    /\ \/ k = SUSPEND /\ Suspend(n)
       \/ k = RESUME /\ Resume(n)
    /\ UNCHANGED <<status, started, rehash, putting, wanted, crossed, past>>

PutReturns(k) ==
    /\ k \in putting
    /\ todo[k] = {}
    /\ putting' = putting \ {k}
    /\ UNCHANGED <<status, router, rehash, todo, wanted, crossed, past>>

\* SessionListenerPre.rehash
RehashPre(n) ==
    /\ status[n] \in {"grid", "up"}
    /\ ~rehash[n]
    /\ rehash' = [rehash EXCEPT ![n] = TRUE]
    /\ Suspend(n)
    /\ UNCHANGED <<status, started, info, past>>

\* Mutant: SessionListenerPost observes a route that it does not resume.
RehashPostSilent(n) ==
    /\ rehash[n]
    /\ rehash' = [rehash EXCEPT ![n] = FALSE]
    /\ UNCHANGED <<status, router, info, past>>

\* SessionListenerPost.rehash
RehashPost(n) ==
    /\ rehash[n]
    /\ rehash' = [rehash EXCEPT ![n] = FALSE]
    /\ Resume(n)
    /\ woken' = woken \cup {n}
    /\ UNCHANGED <<status, started, info, late, botched>>

----------------------------------------------------------------------------
Next ==
    \/ \E n \in Nodes :
          \/ StartInfo(n) \/ StartGrid(n) \/ StartRouter(n)
          \/ StopRouter(n) \/ StopGrid(n)
          \/ RehashPre(n) \/ RehashPost(n)
          \/ \E k \in Keys : EventReceived(n, k)
    \/ \E k \in Keys : Send(k) \/ PutReturns(k)

Spec == Init /\ [][Next]_vars

----------------------------------------------------------------------------
\* Every variable has its type; a route that exists is one of a started
\* router, and a node that has stopped has neither.
TypeOK ==
    /\ status \in [Nodes -> {"down", "failed", "info", "grid", "up", "stopping"}]
    /\ started \in [Nodes -> BOOLEAN]
    /\ route \in [Nodes -> {"none", "running", "suspended"}]
    /\ rehash \in [Nodes -> BOOLEAN]
    /\ putting \subseteq Keys
    /\ todo \in [Keys -> SUBSET Listening]
    /\ wanted \in Keys
    /\ crossed \in BOOLEAN
    /\ late \subseteq Nodes
    /\ woken \subseteq Nodes
    /\ botched \subseteq Nodes
    /\ \A n \in Nodes : /\ route[n] # "none" => started[n] /\ status[n] = "up"
                        /\ status[n] \in {"stopping", "down"} => ~started[n]
    /\ \A k \in Keys \ putting : todo[k] = {}

\* k is what was asked for last, its put has returned, and neither it nor the
\* other was sent while the other one was on its way.
Answered(k) == wanted = k /\ k \notin putting /\ ~crossed

\* After SUSPEND has returned no node takes facts, but those whose router
\* started since and those that a rehash resumed.
SuspendHolds == Answered(SUSPEND) => \A n \in Up \ (late \cup woken) : route[n] # "running"

\* After RESUME has returned no node is left suspended, also when SUSPEND,
\* RESUME and the two ends of a rehash came in any order, except by a rehash
\* that has not ended.
ResumeHolds == Answered(RESUME) => \A n \in Nodes : route[n] = "suspended" => rehash[n]

\* A node that is up has its route, running or suspended, after any number of
\* stops, failures and new starts; unless an earlier start failed in the router,
\* whose flag then makes the next start skip it.
UpHasRoute == \A n \in Up : route[n] = "none" => n \in botched
============================================================================
