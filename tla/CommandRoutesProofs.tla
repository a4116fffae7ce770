------------------------ MODULE CommandRoutesProofs ------------------------
(***************************************************************************)
(* Proofs about CommandRoutes, for any nodes, commands and versions, with  *)
(* crashes: driven by messages, with one consumer on every node, the rules *)
(* are updated as RulesUpgrade says, each command by one node, and clients *)
(* know from the answers which rules the nodes run.                        *)
(***************************************************************************)
EXTENDS CommandRoutes, RulesUpgradeProofs, SequenceTheorems

RouteTypes ==
    /\ message \in [Commands -> Messages \cup {NoMessage}]
    /\ queue \in Seq(Commands)
    /\ consumer \in [Nodes -> Commands \cup {NoOne}]
    /\ reply \in [Commands -> {"none", "SUCCESS", "ERROR"}]

\* A command is new before it is sent and while it is in the queue, where it
\* is once; a consumer that works on one is the only one, and it is pending;
\* an update is executed by the node that has the command.
New(c)     == at[c] = "idle" /\ reply[c] = "none"
Pending(c) == at[c] # "lost" /\ reply[c] = "none"

Unsent     == \A c \in Commands : message[c] = NoMessage => New(c)
Queued     == \A i \in 1..Len(queue) :
                 /\ message[queue[i]] # NoMessage
                 /\ New(queue[i])
                 /\ \A n \in Nodes : consumer[n] # queue[i]
QueuedOnce == \A i, j \in 1..Len(queue) : queue[i] = queue[j] => i = j
Consumed   == \A n \in Nodes : consumer[n] # NoOne =>
                 /\ message[consumer[n]] # NoMessage
                 /\ Pending(consumer[n])
                 /\ \A m \in Nodes : consumer[m] = consumer[n] => m = n
Hosted     == \A c \in Commands : at[c] \in InProgress => consumer[op[c].host] = c
OnlyUpdate == \A c \in Commands : at[c] # "idle" => message[c].name = "UPGRADE"

RouteInv == Unsent /\ Queued /\ QueuedOnce /\ Consumed /\ Hosted /\ OnlyUpdate
CInv     == TypeInv /\ RouteTypes /\ RouteInv

\* No one is not a command.
LEMMA NoOneIsNoCommand == NoOne \notin Commands
  BY ConstantsAssumption DEF Commands

----------------------------------------------------------------------------
(* Every step of a command route is a step of RulesUpgrade, or leaves its  *)
(* state alone.                                                            *)

LEMMA StepIsRulesStep ==
    ASSUME RouteTypes, [CommandNext]_allVars
    PROVE  [Next]_vars
<1>1. CASE UNCHANGED allVars
  BY <1>1 DEF allVars
<1>2. CASE \E n \in Nodes : RouteStep(n)
  <2>1. PICK n \in Nodes : RouteStep(n)
    BY <1>2
  <2>2. CASE UNCHANGED vars
    BY <2>2
  <2>3. CASE /\ consumer[n] # NoOne
             /\ Refuse(consumer[n], n) \/ \E v \in Versions : Execute(consumer[n], n, v)
    <3>1. consumer[n] \in Operators
      BY <2>3 DEF RouteTypes, Commands
    <3> QED BY <2>3, <3>1 DEF Next
  <2> QED
    BY <2>1, <2>2, <2>3 DEF RouteStep, CallUpdate, RespondUpdate, RespondInfo, FailUnrouted
<1>3. CASE \E n \in Nodes : StopNode(n) \/ CrashNode(n)
  BY <1>3 DEF StopNode, CrashNode, Next
<1>4. CASE RulesStep
  BY <1>4 DEF RulesStep, Next, Commands
<1>5. CASE UNCHANGED vars
  BY <1>5
<1> QED BY <1>1, <1>2, <1>3, <1>4, <1>5 DEF CommandNext

----------------------------------------------------------------------------
(* The queue, the consumers and the updates they execute.                  *)

\* The steps of the cache and of the nodes start no update and lose none.
LEMMA RulesStepAt ==
    ASSUME TypeInv, RulesStep
    PROVE  /\ op' = op
           /\ at' \in [Commands -> InProgress \cup Answers \cup {"idle"}]
           /\ \A c \in Commands : at'[c] = at[c] \/ (at[c] \in InProgress /\ at'[c] # "lost")
<1> USE DEF TypeInv, TypeOK, Commands, InProgress, Answers
<1>1. CASE \E n \in Nodes : JoinInfoCache(n) \/ StartRules(n) \/ AddListener(n)
  BY <1>1 DEF JoinInfoCache, StartRules, AddListener
<1>2. CASE \E c \in Commands : Put(c)
  BY <1>2 DEF Put
<1>3. CASE \E c \in Commands : PutReturns(c)
  <2>1. PICK c \in Commands : PutReturns(c)
    BY <1>3
  <2>2. at[c] \in {"putting", "rolling"}
    BY <2>1 DEF PutReturns
  <2> QED BY <2>1, <2>2 DEF PutReturns
<1>4. CASE Listen
  BY <1>4 DEF Listen, UpdateToVersion
<1> QED BY <1>1, <1>2, <1>3, <1>4 DEF RulesStep, UpdateStep

LEMMA NextRoutes ==
    ASSUME CInv, [CommandNext]_allVars
    PROVE  RouteTypes' /\ RouteInv'
<1> USE NoOneIsNoCommand DEF CInv, RouteTypes, RouteInv, Unsent, Queued, QueuedOnce,
        Consumed, Hosted, OnlyUpdate, New, Pending
<1>0. /\ at \in [Commands -> InProgress \cup Answers \cup {"idle"}]
      /\ op \in [Commands -> Ops]
      /\ \A i \in 1..Len(queue) : queue[i] \in Commands
      /\ NoMessage \notin Messages
  BY DEF TypeInv, TypeOK, Commands, Messages, NoMessage
<1>1. CASE UNCHANGED allVars
  BY <1>1 DEF allVars, routes, vars
<1>2. CASE \E c \in Commands, m \in Asked : Send(c, m) /\ UNCHANGED vars
  <2>1. PICK c \in Commands, m \in Asked : Send(c, m) /\ UNCHANGED vars
    BY <1>2
  <2>2. /\ message[c] = NoMessage
        /\ message' = [message EXCEPT ![c] = m]
        /\ queue' = Append(queue, c)
    BY <2>1 DEF Send
  <2>3. UNCHANGED <<at, op, consumer, reply>> /\ m \in Messages
    BY <2>1, MessagesAssumption DEF Send, vars
  <2>4. /\ Len(queue') = Len(queue) + 1 /\ Len(queue) \in Nat
        /\ queue'[Len(queue) + 1] = c
        /\ \A i \in 1..Len(queue) : queue'[i] = queue[i] /\ queue[i] # c
        /\ queue' \in Seq(Commands)
    <3>1. /\ queue' \in Seq(Commands)
          /\ Len(queue') = Len(queue) + 1 /\ Len(queue) \in Nat
          /\ queue'[Len(queue) + 1] = c
          /\ \A i \in 1..Len(queue) : queue'[i] = queue[i]
      BY <2>2, AppendProperties
    <3>2. \A i \in 1..Len(queue) : queue[i] # c
      BY <2>2
    <3> QED BY <3>1, <3>2
  <2>5. \A d \in Commands \ {c} : message'[d] = message[d]
    BY <2>2
  <2>6. message'[c] # NoMessage /\ \A n \in Nodes : consumer[n] # c
    BY <1>0, <2>2, <2>3
  <2>7. Queued' /\ QueuedOnce'
    BY <1>0, <2>2, <2>3, <2>4, <2>5, <2>6
  <2>8. Unsent' /\ Consumed' /\ Hosted' /\ OnlyUpdate'
    BY <1>0, <2>2, <2>3, <2>5, <2>6
  <2> QED BY <2>2, <2>3, <2>4, <2>7, <2>8
<1>3. CASE \E n \in Nodes : Consume(n) /\ UNCHANGED vars
  <2>1. PICK n \in Nodes : Consume(n) /\ UNCHANGED vars
    BY <1>3
  <2>2. /\ consumer[n] = NoOne /\ queue # <<>>
        /\ consumer' = [consumer EXCEPT ![n] = Head(queue)]
        /\ queue' = Tail(queue)
        /\ UNCHANGED <<at, op, message, reply>>
    BY <2>1 DEF Consume, vars
  <2>3. /\ Len(queue) \in Nat \ {0} /\ Head(queue) = queue[1] /\ 1 \in 1..Len(queue)
        /\ queue' \in Seq(Commands) /\ Len(queue') = Len(queue) - 1
        /\ \A i \in 1..Len(queue') : queue'[i] = queue[i + 1] /\ i + 1 \in 1..Len(queue)
    BY <2>2, HeadTailProperties
  <2>4. consumer'[n] = queue[1] /\ \A m \in Nodes \ {n} : consumer'[m] = consumer[m]
    BY <2>2, <2>3
  <2>5. \A i \in 1..Len(queue') : queue'[i] # queue[1]
    BY <2>3
  <2>6. Queued' /\ QueuedOnce'
    BY <1>0, <2>2, <2>3, <2>4, <2>5
  <2>7. Consumed'
    BY <1>0, <2>2, <2>3, <2>4
  <2>8. Hosted'
    BY <1>0, <2>2, <2>4 DEF TypeInv, TypeOK, Ops, Commands
  <2> QED BY <1>0, <2>2, <2>3, <2>6, <2>7, <2>8
<1>4. CASE \E n \in Nodes : RouteStep(n)
  <2>1. PICK n \in Nodes : RouteStep(n)
    BY <1>4
  <2>2. CASE consumer[n] # NoOne /\ UNCHANGED vars
             /\ \E code \in {"SUCCESS", "ERROR"} : Respond(n, code)
             /\ at[consumer[n]] \notin InProgress
    <3>1. PICK code \in {"SUCCESS", "ERROR"} : Respond(n, code)
      BY <2>2
    <3>2. /\ consumer[n] \in Commands
          /\ consumer' = [consumer EXCEPT ![n] = NoOne]
          /\ reply' = [reply EXCEPT ![consumer[n]] = code]
          /\ UNCHANGED <<at, op, message, queue>>
      BY <2>2, <3>1 DEF Respond, vars
    <3>3. \A c \in Commands \ {consumer[n]} : reply'[c] = reply[c]
      BY <3>2
    <3>4. \A m \in Nodes \ {n} : consumer'[m] = consumer[m] /\ consumer'[m] # consumer[n]
      BY <2>2, <3>2
    <3> QED BY <1>0, <2>2, <3>2, <3>3, <3>4
  <2>3. CASE consumer[n] # NoOne /\ UNCHANGED <<vars, message, queue, reply>>
             /\ consumer' = [consumer EXCEPT ![n] = NoOne]
             /\ message[consumer[n]].name \notin Routes
    <3>1. consumer[n] \in Commands /\ at[consumer[n]] = "idle"
      BY <2>3 DEF Routes
    <3>2. \A m \in Nodes \ {n} : consumer'[m] = consumer[m] /\ consumer'[m] # consumer[n]
      BY <2>3
    <3> QED BY <1>0, <2>3, <3>1, <3>2 DEF vars, InProgress
  <2>4. CASE /\ consumer[n] # NoOne /\ UNCHANGED routes
             /\ at[consumer[n]] = "idle" /\ message[consumer[n]].name = "UPGRADE"
             /\ \E s \in {"error", "put"} : at' = [at EXCEPT ![consumer[n]] = s]
             /\ \E r \in Ops : r.host = n /\ op' = [op EXCEPT ![consumer[n]] = r]
    <3>1. PICK s \in {"error", "put"} : at' = [at EXCEPT ![consumer[n]] = s]
      BY <2>4
    <3>2. PICK r \in Ops : r.host = n /\ op' = [op EXCEPT ![consumer[n]] = r]
      BY <2>4
    <3>3. /\ consumer[n] \in Commands /\ UNCHANGED <<message, queue, consumer, reply>>
          /\ at'[consumer[n]] = s /\ op'[consumer[n]].host = n
          /\ \A c \in Commands \ {consumer[n]} : at'[c] = at[c] /\ op'[c] = op[c]
      BY <1>0, <2>4, <3>1, <3>2 DEF routes
    <3> QED BY <1>0, <2>4, <3>3
  <2>5. CASE CallUpdate(n)
    <3>1. CASE Execute(consumer[n], n, message[consumer[n]].release)
               /\ message[consumer[n]].release \in Versions /\ UNCHANGED routes
      <4>1. cached \in Versions \cup {NoVersion}
        BY DEF TypeInv, TypeOK
      <4> QED BY <2>4, <2>5, <3>1, <4>1 DEF CallUpdate, Execute, Ops
    <3>2. CASE Refuse(consumer[n], n) /\ UNCHANGED routes
      BY <2>4, <2>5, <3>2 DEF CallUpdate, Refuse, Ops
    <3>3. CASE Respond(n, "ERROR") /\ UNCHANGED vars
      BY <2>2, <2>5, <3>3 DEF CallUpdate, InProgress
    <3> QED BY <2>5, <3>1, <3>2, <3>3 DEF CallUpdate
  <2>6. CASE RespondUpdate(n)
    BY <2>2, <2>6 DEF RespondUpdate, InProgress
  <2>7. CASE RespondInfo(n)
    <3>1. consumer[n] \in Commands /\ at[consumer[n]] = "idle"
      BY <2>7 DEF RespondInfo
    <3> QED BY <2>2, <2>7, <3>1 DEF RespondInfo, InProgress
  <2>8. CASE FailUnrouted(n)
    BY <2>3, <2>8 DEF FailUnrouted
  <2> QED BY <2>1, <2>5, <2>6, <2>7, <2>8 DEF RouteStep
<1>5. CASE \E n \in Nodes : StopNode(n)
  BY <1>0, <1>5 DEF StopNode, Stop, routes
<1>6. CASE \E n \in Nodes : CrashNode(n)
  <2>1. PICK n \in Nodes : CrashNode(n)
    BY <1>6
  <2>2. /\ at' = [c \in Commands |-> IF op[c].host = n /\ at[c] \in InProgress THEN "lost"
                                     ELSE at[c]]
        /\ consumer' = [consumer EXCEPT ![n] = NoOne]
        /\ UNCHANGED <<op, message, queue, reply>>
    BY <2>1 DEF CrashNode, Crash, Commands
  <2>3. \A c \in Commands : at[c] \in InProgress => op[c].host \in Nodes
    BY <1>0 DEF Ops
  <2>4. \A m \in Nodes \ {n} : consumer'[m] = consumer[m]
    BY <2>2
  <2>5. \A m \in Nodes \ {n} : consumer[m] # NoOne => at'[consumer[m]] = at[consumer[m]]
    BY <2>2, <2>3
  <2>6. \A c \in Commands : at[c] = "idle" => at'[c] = "idle"
    BY <2>2 DEF InProgress
  <2>7. Unsent' /\ Queued' /\ QueuedOnce'
    BY <1>0, <2>2, <2>4, <2>6
  <2>8. Consumed'
    BY <1>0, <2>2, <2>4, <2>5
  <2>9. Hosted'
    BY <1>0, <2>2, <2>3, <2>4 DEF InProgress
  <2>10. OnlyUpdate'
    BY <1>0, <2>2 DEF InProgress
  <2> QED BY <2>2, <2>7, <2>8, <2>9, <2>10
<1>7. CASE RulesStep /\ UNCHANGED routes
  BY <1>0, <1>7, RulesStepAt DEF routes, InProgress, Answers
<1> QED BY <1>1, <1>2, <1>3, <1>4, <1>5, <1>6, <1>7 DEF CommandNext

LEMMA InitRoutes == CommandInit => Init /\ RouteTypes /\ RouteInv
<1> SUFFICES ASSUME CommandInit PROVE Init /\ RouteTypes /\ RouteInv
  OBVIOUS
<1>1. Init /\ at = [c \in Commands |-> "idle"]
  BY DEF CommandInit, Init, Commands
<1>2. RouteTypes
  BY DEF CommandInit, RouteTypes
<1>3. RouteInv
  BY <1>1 DEF CommandInit, RouteInv, Unsent, Queued, QueuedOnce, Consumed, Hosted,
     OnlyUpdate, New, InProgress
<1> QED BY <1>1, <1>2, <1>3

LEMMA CommandInv == CommandSpec => [](TypeInv /\ RouteTypes /\ RouteInv)
<1>1. CommandInit => TypeInv /\ RouteTypes /\ RouteInv
  BY InitRoutes, InitIInv DEF IInv
<1>2. ASSUME TypeInv, RouteTypes, RouteInv, [CommandNext]_allVars
      PROVE  TypeInv' /\ RouteTypes' /\ RouteInv'
  <2>1. TypeInv'
    BY <1>2, StepIsRulesStep, TypeStep
  <2>2. CInv
    BY <1>2 DEF CInv
  <2> QED BY <1>2, <2>1, <2>2, NextRoutes
<1> QED BY <1>1, <1>2, PTL DEF CommandSpec

----------------------------------------------------------------------------
(* What clients know.  The history variables, what is worked on, and what  *)
(* a command that is worked on has found and has left behind.              *)

\* Every member that has not missed version v took it.
Settled(v) == \A n \in Up \ missed : Took(n, v)

\* The store of every member has the entry.
Saved == Persistence => \A n \in Running : stored[n] = {cached}

\* The cache, its stores and the members have what clients were told.
Calm == cached \in {effective, NoVersion} /\ Settled(effective) /\ Saved

HistoryTypes == effective \in Versions /\ mixed \subseteq Commands /\ clean \in BOOLEAN

\* A consumer is that of a node that is up; a node that is down while an update
\* is worked on is behind.
ConsumersUp == \A n \in Nodes : consumer[n] # NoOne => n \in Up
DownIsBehind == Working # {} => Nodes \ Running \subseteq behind

\* Any other node that is down would bring back what clients know of, if it
\* was the first to start.
Remembered ==
    clean /\ (Persistence \/ cached = NoVersion) =>
        \A n \in Nodes \ (Running \cup behind) : Preloaded(n) = {effective}

\* An update is of the version that its message asks for.
Asks == \A c \in Commands : at[c] \in InProgress \cup {"ok"} =>
           op[c].asked = message[c].release /\ op[c].asked \in Versions

\* An update is mixed from the first time another is worked on beside it.
MixedWell ==
    /\ \A c \in mixed : at[c] # "idle"
    /\ \A c, d \in Working : c # d => c \in mixed
    /\ clean => \A c \in Working : c \notin mixed

\* Nothing has changed before an update has put its version, nor when it has
\* failed and rolled back.
NothingGoesOn == clean /\ (\A c \in Working : at[c] \in {"put", "error"}) => Calm

\* What an update puts back is what clients know of.
OldIsEffective ==
    \A c \in Working : clean /\ at[c] \in InProgress => op[c].old = effective

\* An update that nothing overlapped with has set the version everywhere, also
\* if it started from a cluster in disorder.
AloneSettles ==
    \A c \in Working : at[c] = "ok" /\ c \notin mixed =>
        cached = op[c].asked /\ Settled(op[c].asked) /\ Saved

ClientInv == /\ HistoryTypes /\ ConsumersUp /\ DownIsBehind /\ Remembered /\ Asks /\ MixedWell
             /\ NothingGoesOn /\ OldIsEffective /\ AloneSettles
ServerInv == CInv /\ IInv /\ PutsInv

LEMMA WorkingIs ==
    \A c : c \in Working <=> c \in Commands /\ at[c] # "idle" /\ \E n \in Nodes : consumer[n] = c
  BY DEF Working

LEMMA WorkingIsNext ==
    \A c : c \in Working' <=> c \in Commands /\ at'[c] # "idle"
                              /\ \E n \in Nodes : consumer'[n] = c
  BY DEF Working

\* An update in progress is worked on.
LEMMA ProgressIsWork ==
    CInv => \A c \in Commands : at[c] \in InProgress => c \in Working
<1> SUFFICES ASSUME CInv, NEW c \in Commands, at[c] \in InProgress PROVE c \in Working
  OBVIOUS
<1>1. op[c].host \in Nodes /\ consumer[op[c].host] = c
  BY DEF CInv, RouteInv, Hosted, TypeInv, TypeOK, Commands, Ops
<1> QED BY <1>1, WorkingIs DEF InProgress

\* Where there is no version there is no member, and nothing is worked on.
LEMMA NoVersionNoMember ==
    TypeInv /\ ConsumersUp /\ cached = NoVersion => Up = {} /\ Working = {}
<1> SUFFICES ASSUME TypeInv, ConsumersUp, cached = NoVersion PROVE Up = {} /\ Working = {}
  OBVIOUS
<1>1. Up = {}
  BY ConstantsAssumption DEF TypeInv, VersionKnown, Up
<1> QED BY <1>1, NoOneIsNoCommand, WorkingIs DEF ConsumersUp

----------------------------------------------------------------------------
(* The kinds of steps: one that begins an update, one that answers it, and *)
(* the others.                                                             *)

\* Consumer n begins the update with message c.
Begins(c, n) ==
    /\ c \in Commands /\ consumer[n] = c /\ message[c].name = "UPGRADE"
    /\ at[c] = "idle" /\ UNCHANGED routes
    /\ \/ Refuse(c, n)
       \/ message[c].release \in Versions /\ Execute(c, n, message[c].release)

\* Consumer n answers the update with message c.
Answered(c, n) ==
    /\ c \in Commands /\ consumer[n] = c /\ at[c] \in {"ok", "error"}
    /\ Respond(n, IF at[c] = "ok" THEN "SUCCESS" ELSE "ERROR") /\ UNCHANGED vars

\* Commands come, go to a consumer, and leave it without an update.
Passes == /\ UNCHANGED vars
          /\ \A n \in Nodes : n \notin Up => consumer'[n] \in {consumer[n], NoOne}
          /\ \A c \in Commands : at[c] # "idle" =>
                 /\ message'[c] = message[c] /\ reply'[c] = reply[c]
                 /\ \A n \in Nodes : consumer'[n] = c <=> consumer[n] = c
          /\ ~\E c \in Commands : Succeeds(c)

LEMMA KindsOfSteps ==
    ASSUME CInv, CommandNext
    PROVE  \/ \E n \in Nodes, c \in Commands : Begins(c, n) \/ Answered(c, n)
           \/ Passes
           \/ \E n \in Nodes : StopNode(n) \/ CrashNode(n)
           \/ RulesStep /\ UNCHANGED routes
<1> USE NoOneIsNoCommand
<1>0. /\ message \in [Commands -> Messages \cup {NoMessage}]
      /\ consumer \in [Nodes -> Commands \cup {NoOne}]
      /\ reply \in [Commands -> {"none", "SUCCESS", "ERROR"}]
      /\ queue \in Seq(Commands)
  BY DEF CInv, RouteTypes
<1>1. CASE \E c \in Commands, m \in Asked : Send(c, m) /\ UNCHANGED vars
  <2>1. PICK c \in Commands, m \in Asked : Send(c, m) /\ UNCHANGED vars
    BY <1>1
  <2>2. at[c] = "idle"
    BY <2>1 DEF Send, CInv, RouteInv, Unsent, New
  <2> QED BY <1>0, <2>1, <2>2 DEF Passes, Send, Succeeds
<1>2. CASE \E n \in Nodes : Consume(n) /\ UNCHANGED vars
  <2>1. PICK n \in Nodes : Consume(n) /\ UNCHANGED vars
    BY <1>2
  <2>2. Head(queue) = queue[1] /\ 1 \in 1..Len(queue) /\ Head(queue) \in Commands
    BY <1>0, <2>1 DEF Consume
  <2>3. at[Head(queue)] = "idle"
    BY <2>2 DEF CInv, RouteInv, Queued, New
  <2> QED BY <1>0, <2>1, <2>2, <2>3 DEF Passes, Consume, Succeeds
<1>3. CASE \E n \in Nodes : RouteStep(n)
  <2>1. PICK n \in Nodes : RouteStep(n)
    BY <1>3
  <2> DEFINE c == consumer[n]
  <2>2. c \in Commands /\ \A m \in Nodes : consumer[m] = c => m = n
    BY <1>0, <2>1 DEF RouteStep, CallUpdate, RespondUpdate, RespondInfo, FailUnrouted,
       CInv, RouteInv, Consumed
  <2>3. at[c] # "idle" => message[c].name = "UPGRADE"
    BY <2>2 DEF CInv, RouteInv, OnlyUpdate
  <2>4. ASSUME NEW code \in {"SUCCESS", "ERROR"}, Respond(n, code), UNCHANGED vars,
               at[c] = "idle", message[c].name = "UPGRADE" => code = "ERROR"
        PROVE  Passes
    BY <1>0, <2>2, <2>4 DEF Passes, Respond, Succeeds
  <2>5. CASE CallUpdate(n)
    <3>1. CASE Respond(n, "ERROR") /\ UNCHANGED vars
      BY <2>4, <2>5, <3>1 DEF CallUpdate
    <3>2. CASE ~(Respond(n, "ERROR") /\ UNCHANGED vars)
      BY <2>2, <2>5, <3>2 DEF CallUpdate, Begins
    <3> QED BY <3>1, <3>2
  <2>6. CASE RespondUpdate(n)
    BY <2>2, <2>6 DEF RespondUpdate, Answered
  <2>7. CASE RespondInfo(n)
    <3>1. at[c] = "idle" /\ message[c].name # "UPGRADE"
      BY <2>3, <2>7 DEF RespondInfo
    <3> QED BY <2>4, <2>7, <3>1 DEF RespondInfo
  <2>8. CASE FailUnrouted(n)
    <3>1. at[c] = "idle"
      BY <2>3, <2>8 DEF FailUnrouted, Routes
    <3> QED BY <1>0, <2>2, <2>8, <3>1 DEF FailUnrouted, Passes, Succeeds
  <2> QED BY <2>1, <2>2, <2>5, <2>6, <2>7, <2>8 DEF RouteStep
<1>4. CASE \E n \in Nodes : StopNode(n) \/ CrashNode(n)
  BY <1>4
<1>5. CASE RulesStep /\ UNCHANGED routes
  BY <1>5
<1> QED BY <1>1, <1>2, <1>3, <1>4, <1>5 DEF CommandNext

\* An update that begins is worked on; it has changed nothing yet, and has
\* found the version that is to be put back.
LEMMA WorkBegins ==
    ASSUME CInv, NEW c \in Commands, NEW n \in Nodes, Begins(c, n)
    PROVE  /\ c \notin Working /\ Working' = Working \cup {c}
           /\ n \in Up /\ UNCHANGED <<entry, members, routes>>
           /\ at'[c] \in {"put", "error"}
           /\ at'[c] = "put" => /\ op'[c].asked = message[c].release
                                /\ op'[c].asked \in Versions
                                /\ op'[c].old = cached
           /\ \A d \in Commands \ {c} : at'[d] = at[d] /\ op'[d] = op[d]
           /\ ~\E d \in Commands : Succeeds(d)
<1>1. at \in [Commands -> InProgress \cup Answers \cup {"idle"}] /\ op \in [Commands -> Ops]
  BY DEF CInv, TypeInv, TypeOK, Commands
<1>2. n \in Up /\ UNCHANGED <<entry, members, routes>>
  BY DEF Begins, Refuse, Execute
<1>3. /\ at'[c] \in {"put", "error"}
      /\ at'[c] = "put" => /\ op'[c].asked = message[c].release
                           /\ op'[c].asked \in Versions
                           /\ op'[c].old = cached
      /\ \A d \in Commands \ {c} : at'[d] = at[d] /\ op'[d] = op[d]
  BY <1>1 DEF Begins, Refuse, Execute
<1>4. UNCHANGED <<consumer, reply>>
  BY <1>2 DEF routes
<1>5. c \notin Working /\ Working' = Working \cup {c}
  BY <1>1, <1>3, <1>4, WorkingIs, WorkingIsNext DEF Begins
<1> QED BY <1>2, <1>3, <1>4, <1>5 DEF Succeeds

\* An update that is answered is not worked on any more, and SUCCESS is the
\* answer to one whose put returned.
LEMMA WorkAnswered ==
    ASSUME CInv, NEW c \in Commands, NEW n \in Nodes, Answered(c, n)
    PROVE  /\ c \in Working /\ Working' = Working \ {c}
           /\ UNCHANGED <<vars, message>>
           /\ Succeeds(c) <=> at[c] = "ok"
           /\ \A d \in Commands : Succeeds(d) => d = c
<1>1. /\ consumer \in [Nodes -> Commands \cup {NoOne}]
      /\ reply \in [Commands -> {"none", "SUCCESS", "ERROR"}]
  BY DEF CInv, RouteTypes
<1>2. /\ consumer[n] = c /\ at[c] \in {"ok", "error"}
      /\ consumer' = [consumer EXCEPT ![n] = NoOne]
      /\ reply' = [reply EXCEPT ![c] = IF at[c] = "ok" THEN "SUCCESS" ELSE "ERROR"]
      /\ UNCHANGED <<vars, message>>
  BY DEF Answered, Respond
<1>3. /\ reply[c] = "none" /\ message[c].name = "UPGRADE"
      /\ \A m \in Nodes : consumer[m] = c => m = n
  BY <1>2, NoOneIsNoCommand DEF CInv, RouteInv, Consumed, Pending, OnlyUpdate
<1>4. at' = at /\ \A m \in Nodes \ {n} : consumer'[m] = consumer[m]
  BY <1>1, <1>2 DEF vars
<1>5. c \in Working /\ Working' = Working \ {c}
  <2>1. consumer'[n] = NoOne
    BY <1>1, <1>2
  <2> QED
    BY <1>2, <1>3, <1>4, <2>1, NoOneIsNoCommand, WorkingIs, WorkingIsNext
<1>6. Succeeds(c) <=> at[c] = "ok"
  BY <1>1, <1>2, <1>3 DEF Succeeds
<1>7. \A d \in Commands : Succeeds(d) => d = c
  BY <1>1, <1>2 DEF Succeeds
<1> QED BY <1>2, <1>5, <1>6, <1>7

LEMMA WorkPasses == CInv /\ Passes => Working' = Working
<1> SUFFICES ASSUME CInv, Passes PROVE Working' = Working
  OBVIOUS
<1>1. at' = at
  BY DEF Passes, vars
<1>2. \A c \in Commands : at[c] # "idle" => \A n \in Nodes : consumer'[n] = c <=> consumer[n] = c
  BY DEF Passes
<1> QED BY <1>1, <1>2, WorkingIs, WorkingIsNext

\* What is no longer worked on when a node goes has vanished; the other
\* updates go on.
LEMMA WorkLeaves ==
    ASSUME CInv, NEW n \in Nodes, StopNode(n) \/ CrashNode(n)
    PROVE  /\ Working' \subseteq Working
           /\ \A c \in Working \ Working' : Vanishes(c)
           /\ \A c \in Working' : at'[c] = at[c]
           /\ \A c \in Commands : /\ at'[c] \in {at[c], "lost"}
                                  /\ at[c] # "idle" => at'[c] # "idle"
           /\ Leave(n) /\ UNCHANGED <<op, message>>
           /\ ~\E d \in Commands : Succeeds(d)
<1>1. /\ consumer \in [Nodes -> Commands \cup {NoOne}]
      /\ at \in [Commands -> InProgress \cup Answers \cup {"idle"}]
      /\ \A c \in Commands : op[c].host \in Nodes
  BY DEF CInv, RouteTypes, TypeInv, TypeOK, Commands, Ops
<1>2. Leave(n) /\ UNCHANGED <<op, message, reply>>
  BY DEF StopNode, Stop, CrashNode, Crash, routes
<1>3. ~\E d \in Commands : Succeeds(d)
  BY <1>2 DEF Succeeds
<1>4. CASE StopNode(n)
  <2>1. UNCHANGED <<at, consumer>>
    BY <1>4 DEF StopNode, Stop, routes
  <2>2. Working' = Working
    BY <2>1, WorkingIs, WorkingIsNext
  <2> QED BY <1>2, <1>3, <2>1, <2>2
<1>5. CASE CrashNode(n)
  <2>1. /\ at' = [c \in Commands |-> IF op[c].host = n /\ at[c] \in InProgress THEN "lost"
                                     ELSE at[c]]
        /\ consumer' = [consumer EXCEPT ![n] = NoOne]
    BY <1>5 DEF CrashNode, Crash, Commands
  <2>2. /\ \A c \in Commands : at'[c] \in {at[c], "lost"}
        /\ \A c \in Commands : at[c] # "idle" <=> at'[c] # "idle"
        /\ \A m \in Nodes \ {n} : consumer'[m] = consumer[m]
        /\ consumer'[n] = NoOne
    BY <1>1, <2>1 DEF InProgress
  <2>3. Working' \subseteq Working
    BY <2>2, NoOneIsNoCommand, WorkingIs, WorkingIsNext
  <2>4. ASSUME NEW c \in Working \ Working' PROVE Vanishes(c)
    <3>1. c \in Commands /\ \E m \in Nodes : consumer[m] = c
      BY WorkingIs
    <3>2. reply[c] = "none"
      BY <3>1, NoOneIsNoCommand DEF CInv, RouteInv, Consumed, Pending
    <3> QED BY <1>2, <3>2 DEF Vanishes
  <2>5. ASSUME NEW c \in Working' PROVE at'[c] = at[c]
    <3>1. c \in Commands /\ \E m \in Nodes \ {n} : consumer[m] = c
      BY <2>2, NoOneIsNoCommand, WorkingIsNext
    <3>2. \A m, k \in Nodes : consumer[m] = c /\ consumer[k] = c => m = k
      BY <3>1, NoOneIsNoCommand DEF CInv, RouteInv, Consumed
    <3>3. at[c] \in InProgress => consumer[op[c].host] = c
      BY <3>1 DEF CInv, RouteInv, Hosted
    <3> QED BY <1>1, <2>1, <3>1, <3>2, <3>3
  <2> QED BY <1>2, <1>3, <2>2, <2>3, <2>4, <2>5
<1> QED BY <1>4, <1>5

LEMMA WorkRules ==
    ASSUME CInv, RulesStep, UNCHANGED routes
    PROVE  /\ Working' = Working /\ op' = op /\ message' = message
           /\ \A c \in Commands : at'[c] = at[c] \/ at[c] \in InProgress
           /\ \A c \in Commands : at[c] # "idle" => at'[c] # "idle"
           /\ ~\E d \in Commands : Succeeds(d)
<1>1. UNCHANGED <<consumer, reply, message>>
  BY DEF routes
<1>2. /\ op' = op
      /\ \A c \in Commands : at'[c] = at[c] \/ (at[c] \in InProgress /\ at'[c] # "lost")
  BY RulesStepAt DEF CInv
<1>3. \A c \in Commands : at[c] # "idle" <=> at'[c] # "idle"
  <2>1. CASE \E n \in Nodes : JoinInfoCache(n) \/ StartRules(n) \/ AddListener(n)
    BY <2>1 DEF JoinInfoCache, StartRules, AddListener
  <2>2. CASE \E o \in Commands : UpdateStep(o)
    <3>1. PICK o \in Commands : UpdateStep(o)
      BY <2>2
    <3>2. at[o] # "idle" /\ \E a \in {"putting", "rolling", "error", "rollback", "ok"} :
                               at' = [at EXCEPT ![o] = a]
      BY <3>1 DEF UpdateStep, Put, PutReturns, CInv, TypeInv, TypeOK, Commands
    <3> QED BY <3>2 DEF CInv, TypeInv, TypeOK, Commands
  <2>3. CASE Listen
    BY <2>3 DEF Listen, UpdateToVersion
  <2> QED BY <2>1, <2>2, <2>3 DEF RulesStep
<1>4. Working' = Working
  BY <1>1, <1>3, WorkingIs, WorkingIsNext
<1> QED BY <1>1, <1>2, <1>3, <1>4 DEF Succeeds

----------------------------------------------------------------------------
(* Each part of ClientInv is kept by every step.                           *)

LEMMA ConsumersUpStep == CInv /\ ConsumersUp /\ CommandNext => ConsumersUp'
<1> SUFFICES ASSUME CInv, ConsumersUp, CommandNext PROVE ConsumersUp'
  OBVIOUS
<1> USE DEF ConsumersUp, Up
<1>0. /\ consumer \in [Nodes -> Commands \cup {NoOne}]
      /\ status \in [Nodes -> {"down", "failed", "joined", "started", "up"}]
  BY DEF CInv, RouteTypes, TypeInv, TypeOK
<1>1. CASE \E n \in Nodes, c \in Commands : Begins(c, n)
  BY <1>1 DEF Begins, Refuse, Execute, members, routes
<1>2. CASE \E n \in Nodes, c \in Commands : Answered(c, n)
  BY <1>0, <1>2 DEF Answered, Respond, vars, members
<1>3. CASE Passes
  BY <1>3 DEF Passes, vars, members
<1>4. CASE \E n \in Nodes : StopNode(n) \/ CrashNode(n)
  <2>1. PICK n \in Nodes : StopNode(n) \/ CrashNode(n)
    BY <1>4
  <2>2. \A m \in Nodes \ {n} : status'[m] = status[m] /\ consumer'[m] = consumer[m]
    BY <1>0, <2>1 DEF StopNode, Stop, CrashNode, Crash, Leave, routes
  <2>3. consumer'[n] = NoOne
    BY <1>0, <2>1 DEF StopNode, CrashNode, routes
  <2> QED BY <2>2, <2>3
<1>5. CASE RulesStep /\ UNCHANGED routes
  <2>1. \A n \in Nodes : status[n] = "up" => status'[n] = "up"
    BY <1>0, <1>5 DEF RulesStep, JoinInfoCache, StartRules, AddListener, UpdateStep, Put,
       PutReturns, members, Listen, UpdateToVersion
  <2> QED BY <1>5, <2>1 DEF routes
<1> QED BY <1>1, <1>2, <1>3, <1>4, <1>5, KindsOfSteps

LEMMA AsksStep == CInv /\ Asks /\ CommandNext => Asks'
<1> SUFFICES ASSUME CInv, Asks, CommandNext,
                    NEW c \in Commands, at'[c] \in InProgress \cup {"ok"}
             PROVE  op'[c].asked = message'[c].release /\ op'[c].asked \in Versions
  BY DEF Asks
<1> USE DEF Asks, InProgress
<1>1. CASE \E n \in Nodes, d \in Commands : Begins(d, n)
  BY <1>1, WorkBegins DEF routes
<1>2. CASE \E n \in Nodes, d \in Commands : Answered(d, n)
  BY <1>2, WorkAnswered DEF vars
<1>3. CASE Passes
  BY <1>3 DEF Passes, vars
<1>4. CASE \E n \in Nodes : StopNode(n) \/ CrashNode(n)
  BY <1>4, WorkLeaves
<1>5. CASE RulesStep /\ UNCHANGED routes
  BY <1>5, WorkRules
<1> QED BY <1>1, <1>2, <1>3, <1>4, <1>5, KindsOfSteps

\* A command enters Working when its update begins, and never is idle again.
LEMMA WorkSteps ==
    ASSUME CInv, CommandNext
    PROVE  /\ \A c \in Commands : at[c] # "idle" => at'[c] # "idle"
           /\ \A c \in Working' \ Working : at[c] = "idle"
           /\ \A c \in Commands : Succeeds(c) =>
                 /\ c \in Working /\ Working' = Working \ {c}
                 /\ at[c] = "ok" /\ UNCHANGED <<vars, message>>
           /\ \A c, d \in Commands : Succeeds(c) /\ Succeeds(d) => c = d
<1>1. ASSUME NEW n \in Nodes, NEW c \in Commands, Begins(c, n)
      PROVE  /\ \A d \in Commands : at[d] # "idle" => at'[d] # "idle"
             /\ \A d \in Working' \ Working : at[d] = "idle"
             /\ ~\E d \in Commands : Succeeds(d)
  BY <1>1, WorkBegins DEF Begins
<1>2. ASSUME NEW n \in Nodes, NEW c \in Commands, Answered(c, n)
      PROVE  /\ at' = at /\ Working' \subseteq Working
             /\ \A d \in Commands : Succeeds(d) =>
                  /\ d = c /\ d \in Working /\ Working' = Working \ {d}
                  /\ at[d] = "ok" /\ UNCHANGED <<vars, message>>
  BY <1>2, WorkAnswered DEF vars
<1>3. CASE Passes
  BY <1>3, WorkPasses DEF Passes, vars
<1>4. CASE \E n \in Nodes : StopNode(n) \/ CrashNode(n)
  BY <1>4, WorkLeaves
<1>5. CASE RulesStep /\ UNCHANGED routes
  BY <1>5, WorkRules
<1> QED BY <1>1, <1>2, <1>3, <1>4, <1>5, KindsOfSteps

\* What the history variables record, once for the proofs that follow.
LEMMA WhatIsRecorded ==
    ASSUME CInv, TypeInv', ConsumersUp', CommandNext
    PROVE  /\ cached' = NoVersion => Up' = {} /\ Working' = {}
           /\ \/ Ends /\ effective' = Config /\ clean' = TRUE
              \/ /\ ~Ends
                 /\ \E c \in Commands : /\ Succeeds(c)
                                        /\ effective' = message[c].release
                                        /\ clean' = (c \notin mixed)
              \/ /\ ~Ends
                 /\ ~\E c \in Commands : Succeeds(c)
                 /\ clean' = (/\ clean /\ ~Overlap /\ ~Revives
                              /\ \A c \in Commands : ~Vanishes(c) /\ ~RollbackFails(c))
                 /\ UNCHANGED effective
<1>1. cached' = NoVersion => Up' = {}
  BY ConstantsAssumption DEF TypeInv, VersionKnown, Up
<1>2. Up' = {} => Working' = {}
  BY NoOneIsNoCommand, WorkingIsNext DEF ConsumersUp
<1> QED BY <1>1, <1>2 DEF CommandNext, Record

LEMMA MixedWellStep ==
    ASSUME CInv, HistoryTypes, MixedWell, TypeInv', ConsumersUp', CommandNext
    PROVE  MixedWell'
<1>1. mixed' = IF Overlap THEN mixed \cup Working' ELSE mixed
  BY DEF CommandNext, Record
<1>2. \A c \in mixed' : at'[c] # "idle"
  <2>1. \A c \in mixed : at'[c] # "idle"
    BY WorkSteps DEF MixedWell, HistoryTypes
  <2>2. \A c \in Working' : at'[c] # "idle"
    BY WorkingIsNext
  <2> QED BY <1>1, <2>1, <2>2
<1>3. \A c, d \in Working' : c # d => c \in mixed'
  BY <1>1 DEF Overlap
<1>4. clean' => \A c \in Working' : c \notin mixed'
  <2> SUFFICES ASSUME clean', NEW c \in Working' PROVE c \notin mixed'
    OBVIOUS
  <2>1. ~Ends
    BY WhatIsRecorded DEF Ends
  <2>2. CASE \E d \in Commands : Succeeds(d) /\ clean' = (d \notin mixed)
    <3>1. PICK d \in Commands : Succeeds(d) /\ d \notin mixed
      BY <2>2
    <3>2. d \in Working /\ Working' = Working \ {d}
      BY <3>1, WorkSteps
    <3> QED BY <3>1, <3>2 DEF MixedWell
  <2>3. CASE clean /\ ~Overlap
    <3>1. c \in Working \/ at[c] = "idle"
      BY WorkSteps
    <3> QED BY <1>1, <2>3, <3>1 DEF MixedWell
  <2> QED BY <2>1, <2>2, <2>3, WhatIsRecorded
<1> QED BY <1>2, <1>3, <1>4 DEF MixedWell

\* Members that took a version have it until another is put.
LEMMA SettledKept ==
    ASSUME TypeInv, StartsCurrent, NEW v \in Versions, Settled(v), cached \in {v, NoVersion},
           \/ UNCHANGED members
           \/ \E n \in Nodes : \/ Leave(n) \/ JoinInfoCache(n)
                               \/ StartRules(n) \/ AddListener(n)
    PROVE  Settled(v)'
<1> USE DEF Settled, Took, Up, TypeInv, TypeOK
<1>1. CASE UNCHANGED members
  BY <1>1 DEF members
<1>2. ASSUME NEW n \in Nodes, Leave(n) PROVE Settled(v)'
  <2>1. status'[n] # "up" /\ missed' = missed \ {n}
        /\ \A m \in Nodes \ {n} : status'[m] = status[m] /\ rules'[m] = rules[m]
    BY <1>2 DEF Leave
  <2> QED BY <2>1
<1>3. ASSUME NEW n \in Nodes, JoinInfoCache(n) PROVE Settled(v)'
  BY <1>3 DEF JoinInfoCache
<1>4. ASSUME NEW n \in Nodes, StartRules(n) PROVE Settled(v)'
  <2>1. status'[n] # "up" /\ missed \ {n} \subseteq missed'
        /\ \A m \in Nodes \ {n} : status'[m] = status[m] /\ rules'[m] = rules[m]
    BY <1>4 DEF StartRules
  <2> QED BY <2>1
<1>5. ASSUME NEW n \in Nodes, AddListener(n) PROVE Settled(v)'
  <2>1. status[n] = "started" /\ cached = v
    BY <1>5, ConstantsAssumption DEF AddListener, VersionKnown
  <2>2. n \notin missed => rules[n] = v
    BY <2>1 DEF StartsCurrent, Starting
  <2>3. UNCHANGED <<rules, missed>> /\ \A m \in Nodes \ {n} : status'[m] = status[m]
    BY <1>5 DEF AddListener
  <2> QED BY <2>2, <2>3
<1> QED BY <1>1, <1>2, <1>3, <1>4, <1>5

LEMMA HistoryTypesStep ==
    ASSUME CInv, HistoryTypes, Asks, TypeInv', ConsumersUp', CommandNext
    PROVE  HistoryTypes' /\ DownIsBehind'
<1>1. mixed' \subseteq Commands
  BY WorkingIsNext DEF HistoryTypes, CommandNext, Record
<1>2. effective' \in Versions /\ clean' \in BOOLEAN
  <2>1. CASE effective' = Config /\ clean' = TRUE
    BY <2>1, ConstantsAssumption
  <2>2. CASE \E c \in Commands : /\ Succeeds(c) /\ effective' = message[c].release
                                 /\ clean' = (c \notin mixed)
    <3>1. PICK c \in Commands : /\ Succeeds(c) /\ effective' = message[c].release
                                /\ clean' = (c \notin mixed)
      BY <2>2
    <3> QED BY <3>1, WorkSteps DEF Asks
  <2>3. CASE /\ clean' = (/\ clean /\ ~Overlap /\ ~Revives
                          /\ \A c \in Commands : ~Vanishes(c) /\ ~RollbackFails(c))
             /\ UNCHANGED effective
    BY <2>3 DEF HistoryTypes
  <2> QED BY <2>1, <2>2, <2>3, WhatIsRecorded
<1>3. DownIsBehind'
  BY DEF DownIsBehind, CommandNext, Record
<1> QED BY <1>1, <1>2, <1>3 DEF HistoryTypes

\* In a step that leaves clean TRUE and answers no success, nobody works beside
\* anybody, nothing vanishes and no rollback throws.
StaysClean ==
    /\ clean /\ effective' = effective /\ ~Ends /\ ~Revives
    /\ \A c, d \in Working' : c = d
    /\ \A c \in Commands : ~Succeeds(c) /\ ~Vanishes(c) /\ ~RollbackFails(c)

\* Two updates that are worked on at once are mixed, and nothing is clean.
LEMMA CleanIsAlone == MixedWell /\ clean => \A c, d \in Working : c = d
  BY DEF MixedWell

\* A node that starts first brings back what clients know of, or revives an
\* older store.
LEMMA StartsFromStore ==
    ASSUME TypeInv, Remembered, StaysClean, NEW n \in Nodes, JoinInfoCache(n)
    PROVE  cached' \in {cached, effective}
<1>1. CASE cached # NoVersion
  BY <1>1 DEF JoinInfoCache
<1>2. CASE cached = NoVersion
  <2>1. n \notin Running /\ n \in Running'
    BY <1>2 DEF JoinInfoCache, TypeInv, TypeOK, Running
  <2>2. CASE n \in behind
    BY <1>2, <2>1, <2>2 DEF StaysClean, Revives
  <2>3. CASE n \notin behind
    <3>1. Preloaded(n) = {effective}
      BY <1>2, <2>1, <2>3 DEF Remembered, StaysClean
    <3> QED BY <1>2, <3>1 DEF JoinInfoCache
  <2> QED BY <2>2, <2>3
<1> QED BY <1>1, <1>2

\* What is in the cache stays in the stores while nodes come and go.
LEMMA SavedKept ==
    ASSUME TypeInv, Saved,
           \/ UNCHANGED <<cached, stored, status>>
           \/ \E n \in Nodes : \/ Leave(n) /\ UNCHANGED stored
                               \/ JoinInfoCache(n) \/ StartRules(n) \/ AddListener(n)
    PROVE  Saved'
<1> USE DEF Saved, Running, TypeInv, TypeOK
<1>1. CASE UNCHANGED <<cached, stored, status>>
  BY <1>1
<1>2. ASSUME NEW n \in Nodes, Leave(n), UNCHANGED stored PROVE Saved'
  <2>1. status' = [status EXCEPT ![n] = "down"]
          /\ cached' = IF Running \subseteq {n} THEN NoVersion ELSE cached
    BY <1>2 DEF Leave
  <2> QED BY <1>2, <2>1
<1>3. ASSUME NEW n \in Nodes, JoinInfoCache(n) PROVE Saved'
  <2>1. status' = [status EXCEPT ![n] = "joined"]
          /\ stored' = [m \in Nodes |-> IF Persistence /\ m = n THEN {cached'} ELSE stored[m]]
    BY <1>3 DEF JoinInfoCache, Keep
  <2>2. Running # {} => cached' = cached
    BY <1>3 DEF JoinInfoCache
  <2> QED BY <2>1, <2>2
<1>4. ASSUME NEW n \in Nodes, StartRules(n) \/ AddListener(n) PROVE Saved'
  <2>1. UNCHANGED <<cached, stored>> /\ Running' = Running
    BY <1>4 DEF StartRules, AddListener, entry
  <2> QED BY <2>1
<1> QED BY <1>1, <1>2, <1>3, <1>4

\* A cluster that is calm stays so while nodes come and go.
LEMMA CalmKept ==
    ASSUME ServerInv, HistoryTypes, Remembered, Calm, StaysClean,
           \/ UNCHANGED <<cached, stored, members>>
           \/ \E n \in Nodes : \/ Leave(n) /\ UNCHANGED stored
                               \/ JoinInfoCache(n) \/ (StartRules(n) \/ AddListener(n))
    PROVE  Calm'
<1>1. TypeInv /\ StartsCurrent /\ effective \in Versions /\ Settled(effective) /\ Saved
  BY DEF ServerInv, CInv, PutsInv, HistoryTypes, Calm
<1>2. Settled(effective)'
  <2>1. PICK v \in Versions : v = effective
    BY <1>1
  <2>2. Settled(v) /\ cached \in {v, NoVersion}
    BY <1>1, <2>1 DEF Calm
  <2>3. Settled(v)'
    BY <1>1, <2>2, SettledKept
  <2> QED BY <2>1, <2>3 DEF Settled, StaysClean
<1>3. cached' \in {effective, NoVersion}
  <2>1. CASE UNCHANGED cached
    BY <2>1 DEF Calm
  <2>2. CASE \E n \in Nodes : Leave(n)
    BY <2>2 DEF Calm, Leave
  <2>3. CASE \E n \in Nodes : JoinInfoCache(n)
    BY <1>1, <2>3, StartsFromStore DEF Calm
  <2>4. CASE \E n \in Nodes : StartRules(n) \/ AddListener(n)
    BY <2>4 DEF Calm, StartRules, AddListener, entry
  <2> QED BY <2>1, <2>2, <2>3, <2>4
<1>4. Saved'
  BY <1>1, SavedKept DEF members
<1> QED BY <1>2, <1>3, <1>4 DEF Calm, StaysClean

LEMMA CleanSteps ==
    ASSUME CInv, TypeInv', ConsumersUp', CommandNext, clean'
    PROVE  \/ Ends /\ Up' = {} /\ Working' = {} /\ effective' = Config
           \/ \E c \in Commands : /\ Succeeds(c) /\ c \notin mixed
                                  /\ effective' = message[c].release
           \/ StaysClean
  BY WhatIsRecorded DEF StaysClean, Overlap, Ends

LEMMA CalmAfterSuccess ==
    ASSUME CInv, Asks, AloneSettles, CommandNext, NEW c \in Commands,
           Succeeds(c), c \notin mixed, effective' = message[c].release
    PROVE  Calm'
<1>1. c \in Working /\ at[c] = "ok" /\ UNCHANGED vars
  BY WorkSteps
<1>2. /\ cached = op[c].asked /\ Settled(op[c].asked) /\ Saved
      /\ op[c].asked = message[c].release
  BY <1>1 DEF AloneSettles, Asks
<1>3. PICK v : v = op[c].asked
  OBVIOUS
<1>4. Settled(v)'
  BY <1>1, <1>2, <1>3 DEF Settled, Took, Up, vars, members
<1>5. Saved'
  BY <1>1, <1>2 DEF Saved, Running, vars, entry, members
<1> QED BY <1>1, <1>2, <1>3, <1>4, <1>5 DEF Calm, vars, entry, Settled

\* A put that returns is in every store.
LEMMA PutSaves ==
    ASSUME TypeInv, NEW c \in Commands, PutReturns(c), threw = FALSE
    PROVE  Saved'
<1>1. /\ UNCHANGED <<cached, status>>
      /\ stored' = [n \in Nodes |-> IF Persistence /\ n \in Running THEN {cached'}
                                                                    ELSE stored[n]]
  BY DEF PutReturns, Keep, members
<1> QED BY <1>1 DEF Saved, Running

LEMMA NothingGoesOnStep ==
    ASSUME ServerInv, ClientInv, TypeInv', ConsumersUp', CommandNext
    PROVE  NothingGoesOn'
<1> USE DEF ServerInv, ClientInv
<1> SUFFICES ASSUME clean', \A c \in Working' : at'[c] \in {"put", "error"}
             PROVE  Calm'
  BY DEF NothingGoesOn
<1>1. CASE Ends /\ Up' = {}
  <2>1. Running' = {}
    BY <1>1 DEF Ends, TypeInv, TypeOK
  <2> QED BY <1>1, <2>1 DEF Ends, Calm, Settled, Saved
<1>2. CASE \E c \in Commands : /\ Succeeds(c) /\ c \notin mixed
                               /\ effective' = message[c].release
  BY <1>2, CalmAfterSuccess
<1>3. CASE StaysClean
  <2> USE <1>3 DEF StaysClean
  <2>0. ASSUME NEW c \in Working, Working = {c}, at[c] \in {"put", "error"} PROVE Calm
    BY <2>0 DEF NothingGoesOn
  <2>1. ASSUME NEW n \in Nodes, NEW c \in Commands, Begins(c, n) PROVE Calm'
    <3>1. Working = {} /\ UNCHANGED <<cached, stored, members>>
      BY <2>1, WorkBegins DEF entry
    <3>2. Calm
      BY <3>1 DEF NothingGoesOn
    <3> QED BY <3>1, <3>2, CalmKept
  <2>2. ASSUME NEW n \in Nodes, NEW c \in Commands, Answered(c, n) PROVE Calm'
    <3>1. c \in Working /\ at[c] = "error" /\ UNCHANGED vars
      BY <2>2, WorkAnswered DEF Answered
    <3>2. Calm
      BY <3>1, CleanIsAlone DEF NothingGoesOn
    <3> QED BY <3>1, <3>2, CalmKept DEF vars, entry
  <2>3. CASE Passes
    <3>1. Working' = Working /\ UNCHANGED vars
      BY <2>3, WorkPasses DEF Passes
    <3>2. Calm
      BY <3>1 DEF NothingGoesOn, vars
    <3> QED BY <3>1, <3>2, CalmKept DEF vars, entry
  <2>4. ASSUME NEW n \in Nodes, StopNode(n) \/ CrashNode(n) PROVE Calm'
    <3>1. Working' = Working /\ \A c \in Working' : at'[c] = at[c]
      BY <2>4, WorkLeaves, WorkingIs
    <3>2. Calm
      BY <3>1 DEF NothingGoesOn
    <3>3. Leave(n) /\ UNCHANGED stored
      BY <2>4 DEF StopNode, Stop, CrashNode, Crash
    <3> QED BY <3>2, <3>3, CalmKept
  <2>5. CASE RulesStep /\ UNCHANGED routes
    <3>0. Working' = Working /\ \A c \in Commands : at[c] \in InProgress => c \in Working
      BY <2>5, WorkRules, ProgressIsWork
    <3>1. ASSUME NEW n \in Nodes, JoinInfoCache(n) \/ StartRules(n) \/ AddListener(n)
          PROVE  Calm'
      <4>1. at' = at
        BY <3>1 DEF JoinInfoCache, StartRules, AddListener
      <4>2. Calm
        BY <3>0, <4>1 DEF NothingGoesOn
      <4> QED BY <3>1, <4>2, CalmKept
    <3>2. ASSUME NEW c \in Commands, Put(c) PROVE FALSE
      BY <3>0, <3>2 DEF Put, InProgress, CInv, TypeInv, TypeOK, Commands
    <3>3. ASSUME NEW c \in Commands, PutReturns(c) PROVE Calm'
      <4>1. at[c] \in {"putting", "rolling"} /\ UNCHANGED <<cached, members>> /\ c \in Working
        BY <3>0, <3>3 DEF PutReturns, InProgress, CInv, TypeInv, TypeOK, Commands
      <4>2. at[c] = "rolling" /\ threw = FALSE /\ todo = {}
        BY <3>0, <3>3, <4>1
           DEF PutReturns, RollbackFails, CInv, TypeInv, TypeOK, Commands
      <4>3. cached = op[c].old /\ op[c].old = effective
        BY <4>1, <4>2 DEF PutsInv, RolledBack, OldIsEffective, InProgress, Commands
      <4>4. cached' = effective' /\ Settled(effective)
        BY <4>1, <4>2, <4>3 DEF Settled, PutsInv, RolledBack, Commands
      <4>5. Settled(effective)'
        BY <4>1, <4>4 DEF Settled, Took, Up, members
      <4>6. Saved'
        BY <3>3, <4>1, <4>2, PutSaves DEF CInv
      <4> QED BY <4>4, <4>5, <4>6 DEF Calm
    <3>4. ASSUME NEW n \in Nodes, UpdateToVersion(n) PROVE FALSE
      <4>1. lock \in Commands /\ at[lock] \in {"putting", "rolling"} /\ at' = at
        BY <3>4 DEF UpdateToVersion, PutsInv, TodoLocked, CInv, TypeInv, TypeOK, Commands
      <4> QED BY <3>0, <4>1 DEF InProgress
    <3> QED BY <2>5, <3>1, <3>2, <3>3, <3>4 DEF RulesStep, UpdateStep, Listen
  <2> QED BY <2>1, <2>2, <2>3, <2>4, <2>5, KindsOfSteps
<1> QED BY <1>1, <1>2, <1>3, CleanSteps

LEMMA OldIsEffectiveStep ==
    ASSUME ServerInv, ClientInv, TypeInv', ConsumersUp', CommandNext
    PROVE  OldIsEffective'
<1> USE DEF ServerInv, ClientInv
<1> SUFFICES ASSUME clean', NEW c \in Working', at'[c] \in InProgress
             PROVE  op'[c].old = effective'
  BY DEF OldIsEffective
<1>1. CASE \E d \in Commands : Succeeds(d) /\ d \notin mixed
  <2>1. PICK d \in Commands : Succeeds(d) /\ d \notin mixed
    BY <1>1
  <2>2. c \in Working /\ d \in Working /\ c # d
    BY <2>1, WorkSteps
  <2> QED BY <2>1, <2>2 DEF MixedWell
<1>2. CASE StaysClean
  <2> USE <1>2 DEF StaysClean
  <2>0. c \in Commands
    BY WorkingIsNext
  <2>1. ASSUME NEW n \in Nodes, NEW d \in Commands, Begins(d, n)
        PROVE  op'[c].old = effective'
    <3>1. Working = {} /\ c = d /\ at'[c] = "put" /\ op'[c].old = cached /\ n \in Up
      BY <2>1, WorkBegins DEF InProgress
    <3>2. cached \in {effective, NoVersion}
      BY <3>1 DEF NothingGoesOn, Calm
    <3>3. cached # NoVersion
      BY <3>1, NoVersionNoMember DEF CInv
    <3> QED BY <3>1, <3>2, <3>3
  <2>2. CASE c \in Working /\ op'[c] = op[c] /\ at[c] \in InProgress
    BY <2>2 DEF OldIsEffective
  <2>3. CASE \E n \in Nodes, d \in Commands : Answered(d, n)
    BY <2>0, <2>2, <2>3, WorkAnswered DEF vars
  <2>4. CASE Passes
    BY <2>0, <2>2, <2>4, WorkPasses DEF Passes, vars
  <2>5. CASE \E n \in Nodes : StopNode(n) \/ CrashNode(n)
    BY <2>0, <2>2, <2>5, WorkLeaves
  <2>6. CASE RulesStep /\ UNCHANGED routes
    BY <2>0, <2>2, <2>6, WorkRules
  <2> QED BY <2>1, <2>3, <2>4, <2>5, <2>6, KindsOfSteps
<1> QED BY <1>1, <1>2, CleanSteps

\* Only the store of a member changes, and only its own store tells a node what
\* to start from.
LEMMA StoresOfMembers ==
    ASSUME CInv, CommandNext
    PROVE  \A n \in Nodes : n \notin Running /\ n \notin Running' => stored'[n] = stored[n]
<1> SUFFICES ASSUME NEW n \in Nodes, n \notin Running, n \notin Running'
             PROVE  stored'[n] = stored[n]
  OBVIOUS
<1>0. stored \in [Nodes -> SUBSET Versions]
      /\ status \in [Nodes -> {"down", "failed", "joined", "started", "up"}]
  BY DEF CInv, TypeInv, TypeOK
<1>1. [Next]_vars
  BY StepIsRulesStep DEF CInv
<1>2. ASSUME NEW m \in Nodes, JoinInfoCache(m) PROVE stored'[n] = stored[n]
  <2>1. m # n
    BY <1>0, <1>2 DEF JoinInfoCache, Running
  <2> QED BY <1>2, <2>1 DEF JoinInfoCache, Keep
<1>3. ASSUME NEW o \in Operators, UpdateStep(o) PROVE stored'[n] = stored[n]
  BY <1>3 DEF UpdateStep, Put, PutReturns, Keep
<1>4. CASE \/ \E m \in Nodes : StartRules(m) \/ AddListener(m) \/ Stop(m) \/ Crash(m)
           \/ UNCHANGED vars \/ Listen
           \/ \E o \in Operators, m \in Nodes :
                 Refuse(o, m) \/ \E v \in Versions : Execute(o, m, v)
  <2>1. UNCHANGED stored
    BY <1>4 DEF StartRules, AddListener, Stop, Crash, Listen, UpdateToVersion, Refuse,
       Execute, vars, entry
  <2> QED BY <2>1
<1> QED BY <1>1, <1>2, <1>3, <1>4 DEF Next

LEMMA LeavesByLeaving ==
    ASSUME CInv, CommandNext, NEW n \in Nodes, n \in Running, n \notin Running'
    PROVE  \E m \in Nodes : StopNode(m) \/ CrashNode(m)
<1>0. status \in [Nodes -> {"down", "failed", "joined", "started", "up"}]
  BY DEF CInv, TypeInv, TypeOK
<1>1. CASE \E m \in Nodes, c \in Commands : Begins(c, m) \/ Answered(c, m)
  <2>1. status' = status
    BY <1>1 DEF Begins, Refuse, Execute, Answered, vars, members
  <2> QED BY <2>1 DEF Running
<1>2. CASE Passes
  BY <1>2 DEF Passes, vars, members, Running
<1>3. CASE RulesStep
  <2>1. \A m \in Nodes : status[m] # "down" => status'[m] # "down"
    BY <1>0, <1>3 DEF RulesStep, JoinInfoCache, StartRules, AddListener, UpdateStep, Put,
       PutReturns, members, Listen, UpdateToVersion
  <2> QED BY <2>1 DEF Running
<1> QED BY <1>1, <1>2, <1>3, KindsOfSteps

LEMMA RememberedStep ==
    ASSUME ServerInv, ClientInv, TypeInv', ConsumersUp', CommandNext
    PROVE  Remembered'
<1> USE DEF ServerInv, ClientInv
<1> SUFFICES ASSUME clean', Persistence \/ cached' = NoVersion,
                    NEW n \in Nodes, n \notin Running', n \notin behind'
             PROVE  Preloaded(n)' = {effective'}
  BY DEF Remembered
<1>0. Working' = {} /\ n \notin behind
  BY DEF CommandNext, Record
\* Without persistence the configured version comes back.
<1>1. CASE Ends
  <2>1. effective' = Config
    BY <1>1, WhatIsRecorded
  <2> QED BY <1>1, <2>1 DEF Ends, Preloaded, TypeInv, VersionKnown
\* A node that was down when an update was answered is behind.
<1>2. CASE \E c \in Commands : Succeeds(c)
  <2>1. PICK c \in Commands : Succeeds(c)
    BY <1>2
  <2>2. c \in Working /\ UNCHANGED vars
    BY <2>1, WorkSteps
  <2>3. n \notin Running
    BY <2>2 DEF Running, vars, members
  <2> QED BY <1>0, <2>2, <2>3 DEF DownIsBehind
<1>3. CASE StaysClean /\ ~Ends
  <2>1. Persistence /\ clean /\ effective' = effective
    BY <1>3 DEF StaysClean, Ends
  <2>2. CASE n \notin Running
    <3>1. stored'[n] = stored[n]
      BY <2>2, StoresOfMembers
    <3>2. Preloaded(n) = {effective}
      BY <1>0, <2>1, <2>2 DEF Remembered
    <3> QED BY <2>1, <3>1, <3>2 DEF Preloaded
  \* A member that leaves a calm cluster leaves its version in its store.
  <2>3. CASE n \in Running
    <3>1. PICK m \in Nodes : StopNode(m) \/ CrashNode(m)
      BY <2>3, LeavesByLeaving
    <3>2. Working = {}
      BY <1>0, <1>3, <3>1, WorkLeaves, WorkingIs DEF StaysClean
    <3>3. Calm
      BY <2>1, <3>2 DEF NothingGoesOn
    <3>4. stored[n] = {cached} /\ cached = effective
      BY <2>1, <2>3, <3>3 DEF CInv, Calm, Saved, TypeInv, TypeOK
    <3>5. stored' = stored
      BY <3>1 DEF StopNode, Stop, CrashNode, Crash
    <3> QED BY <2>1, <3>4, <3>5 DEF Preloaded
  <2> QED BY <2>2, <2>3
<1> QED BY <1>1, <1>2, <1>3, CleanSteps

LEMMA AloneSettlesStep ==
    ASSUME ServerInv, ClientInv, TypeInv', ConsumersUp', CommandNext
    PROVE  AloneSettles'
<1> USE DEF ServerInv, ClientInv
<1> SUFFICES ASSUME NEW c \in Working', at'[c] = "ok", c \notin mixed'
             PROVE  cached' = op'[c].asked /\ Settled(op[c].asked)' /\ Saved'
  BY DEF AloneSettles
<1>0. /\ c \in Commands /\ cached' # NoVersion
      /\ mixed \subseteq mixed' /\ \A d \in Working' : d = c
  BY WorkingIsNext, WhatIsRecorded DEF CommandNext, Record, Overlap
<1>1. ASSUME c \in Working, at[c] = "ok", op'[c] = op[c],
             \/ UNCHANGED <<cached, stored, members>>
             \/ \E n \in Nodes : \/ Leave(n) /\ UNCHANGED stored
                                 \/ JoinInfoCache(n) \/ StartRules(n) \/ AddListener(n)
      PROVE  cached' = op'[c].asked /\ Settled(op[c].asked)' /\ Saved'
  <2>1. cached = op[c].asked /\ Settled(op[c].asked) /\ op[c].asked \in Versions /\ Saved
    BY <1>0, <1>1 DEF AloneSettles, Asks
  <2>2. cached' = cached
    BY <1>0, <1>1, <2>1, ConstantsAssumption
       DEF Leave, JoinInfoCache, StartRules, AddListener, entry
  <2>3. PICK v \in Versions : v = op[c].asked
    BY <2>1
  <2>4. Settled(v)'
    BY <1>1, <2>1, <2>3, SettledKept DEF CInv, PutsInv
  <2>5. Saved'
    BY <1>1, <2>1, SavedKept DEF CInv, members
  <2> QED BY <1>1, <2>1, <2>2, <2>3, <2>4, <2>5 DEF Settled
<1>2. ASSUME NEW n \in Nodes, NEW d \in Commands, Begins(d, n) PROVE FALSE
  BY <1>0, <1>2, WorkBegins
<1>3. ASSUME NEW n \in Nodes, NEW d \in Commands, Answered(d, n)
      PROVE  cached' = op'[c].asked /\ Settled(op[c].asked)' /\ Saved'
  BY <1>1, <1>3, WorkAnswered DEF vars, entry
<1>4. CASE Passes
  BY <1>1, <1>4, WorkPasses DEF Passes, vars, entry
<1>5. ASSUME NEW n \in Nodes, StopNode(n) \/ CrashNode(n)
      PROVE  cached' = op'[c].asked /\ Settled(op[c].asked)' /\ Saved'
  <2>1. Leave(n) /\ UNCHANGED stored
    BY <1>5 DEF StopNode, Stop, CrashNode, Crash
  <2> QED BY <1>1, <1>5, <2>1, WorkLeaves
<1>6. CASE RulesStep /\ UNCHANGED routes
  <2>0. /\ Working' = Working /\ op' = op
        /\ \A d \in Commands : at[d] \in InProgress => d = c
    BY <1>0, <1>6, WorkRules, ProgressIsWork
  <2>1. ASSUME NEW n \in Nodes, JoinInfoCache(n) \/ StartRules(n) \/ AddListener(n)
        PROVE  cached' = op'[c].asked /\ Settled(op[c].asked)' /\ Saved'
    <3>1. at' = at
      BY <2>1 DEF JoinInfoCache, StartRules, AddListener
    <3> QED BY <1>1, <2>0, <2>1, <3>1
  <2>2. ASSUME NEW d \in Commands, Put(d) PROVE FALSE
    BY <1>0, <2>0, <2>2 DEF Put, InProgress, CInv, TypeInv, TypeOK, Commands
  <2>3. ASSUME NEW d \in Commands, PutReturns(d)
        PROVE  cached' = op'[c].asked /\ Settled(op[c].asked)' /\ Saved'
    <3>1. at[d] \in {"putting", "rolling"} /\ d = c /\ UNCHANGED <<cached, members>>
      BY <2>0, <2>3 DEF PutReturns, InProgress, CInv, TypeInv, TypeOK, Commands
    <3>2. at[c] = "putting" /\ threw = FALSE /\ todo = {}
      BY <1>0, <2>3, <3>1 DEF PutReturns, CInv, TypeInv, TypeOK, Commands
    <3>3. cached = op[c].asked /\ Settled(op[c].asked)
      BY <1>0, <3>2 DEF IInv, Reached, Settled, Commands
    <3>4. Saved'
      BY <2>3, <3>2, PutSaves DEF CInv
    <3> QED BY <2>0, <3>1, <3>3, <3>4 DEF Settled, Up, members, Took
  <2>4. ASSUME NEW n \in Nodes, UpdateToVersion(n) PROVE FALSE
    <3>1. lock \in Commands /\ at[lock] \in {"putting", "rolling"} /\ at' = at
      BY <2>4 DEF UpdateToVersion, PutsInv, TodoLocked, CInv, TypeInv, TypeOK, Commands
    <3> QED BY <2>0, <3>1 DEF InProgress
  <2> QED BY <1>6, <2>1, <2>2, <2>3, <2>4 DEF RulesStep, UpdateStep, Listen
<1> QED BY <1>2, <1>3, <1>4, <1>5, <1>6, KindsOfSteps

LEMMA ServerInvariant == CommandSpec => []ServerInv
<1>1. CommandInit => ServerInv
  <2> SUFFICES ASSUME CommandInit PROVE ServerInv
    OBVIOUS
  <2>1. IInv /\ PutsInv
    BY InitRoutes, InitIInv, InitPutsInv
  <2> QED BY <2>1, InitRoutes DEF ServerInv, CInv, IInv
<1>2. ServerInv /\ [CommandNext]_allVars => ServerInv'
  <2> SUFFICES ASSUME ServerInv, [CommandNext]_allVars PROVE ServerInv'
    OBVIOUS
  <2>1. [Next]_vars
    BY StepIsRulesStep DEF ServerInv, CInv
  <2>2. IInv' /\ PutsInv'
    BY <2>1, TypeStep, StartingStep, ReachedStep, PutsStep DEF ServerInv, IInv
  <2> QED BY <2>2, NextRoutes DEF ServerInv, CInv, IInv
<1> QED BY <1>1, <1>2, PTL DEF CommandSpec

LEMMA InitClientInv == CommandInit => ClientInv
<1> SUFFICES ASSUME CommandInit PROVE ClientInv
  OBVIOUS
<1>1. Working = {} /\ Up = {} /\ \A c \in Commands : at[c] = "idle"
  BY WorkingIs DEF CommandInit, Init, Commands, Up
<1>2. Calm
  BY <1>1 DEF Calm, Saved, Running, Settled, CommandInit, Init
<1>3. Remembered
  BY DEF CommandInit, Init, Remembered, Preloaded
<1> QED
  BY <1>1, <1>2, <1>3, ConstantsAssumption
     DEF ClientInv, HistoryTypes, ConsumersUp, DownIsBehind, Asks, MixedWell, NothingGoesOn,
         OldIsEffective, AloneSettles, CommandInit, InProgress

LEMMA NextClientInv ==
    ServerInv /\ ClientInv /\ ServerInv' /\ [CommandNext]_allVars => ClientInv'
<1> SUFFICES ASSUME ServerInv, ClientInv, ServerInv', [CommandNext]_allVars
             PROVE  ClientInv'
  OBVIOUS
<1>1. CASE CommandNext
  <2>1. CInv /\ TypeInv' /\ ConsumersUp'
    BY <1>1, ConsumersUpStep DEF ServerInv, ClientInv, CInv
  <2>2. Asks' /\ MixedWell' /\ HistoryTypes' /\ DownIsBehind'
    BY <1>1, <2>1, AsksStep, MixedWellStep, HistoryTypesStep DEF ClientInv
  <2> QED
    BY <1>1, <2>1, <2>2, NothingGoesOnStep, OldIsEffectiveStep, AloneSettlesStep, RememberedStep
       DEF ClientInv
<1>2. CASE UNCHANGED allVars
  BY <1>2 DEF allVars, vars, routes, history, entry, members, ClientInv, HistoryTypes,
     ConsumersUp, DownIsBehind, Remembered, Preloaded, Saved, Running, Asks, MixedWell,
     NothingGoesOn, OldIsEffective, AloneSettles, Calm,
     Settled, Took, Up, Working
<1> QED BY <1>1, <1>2

----------------------------------------------------------------------------
\* Commands that arrive as messages, one at a time on each node, and nodes
\* that crash with them, update the rules as RulesUpgrade specifies: all that
\* holds of its behaviours holds of those of the command routes.
THEOREM RoutesImplementUpgrade == CommandSpec => Spec
<1>1. CommandInit => Init
  BY InitRoutes
<1>2. RouteTypes /\ [CommandNext]_allVars => [Next]_vars
  BY StepIsRulesStep
<1> QED BY <1>1, <1>2, CommandInv, PTL DEF CommandSpec, Spec

\* An UPGRADE command is answered with SUCCESS only when every listening
\* member that has not missed the version runs it, or has found errors in it.
THEOREM SuccessOfCommand == CommandSpec => ReportedWhenDone
  BY RoutesImplementUpgrade, SuccessIsCommon, PTL

\* A command is executed once, by one node, whatever the broker hands to whom
\* and whichever nodes crash.
THEOREM ExecutedByOne == CommandSpec => []OneExecutor
<1>1. TypeInv /\ RouteTypes /\ RouteInv => OneExecutor
  <2> SUFFICES ASSUME TypeInv, RouteTypes, RouteInv, NEW c \in Commands
               PROVE  /\ \A n, m \in Nodes : consumer[n] = c /\ consumer[m] = c => n = m
                      /\ at[c] \in InProgress => consumer[op[c].host] = c
                      /\ reply[c] # "none" \/ at[c] = "lost" => ~Waiting(c)
    BY DEF OneExecutor
  <2>1. c # NoOne
    BY NoOneIsNoCommand
  <2>2. \A n, m \in Nodes : consumer[n] = c /\ consumer[m] = c => n = m
    BY <2>1 DEF RouteInv, Consumed
  <2>3. at[c] \in InProgress => consumer[op[c].host] = c
    BY DEF RouteInv, Hosted
  <2>4. reply[c] # "none" \/ at[c] = "lost" => ~Waiting(c)
    BY <2>1 DEF RouteInv, Consumed, Queued, Pending, New, Waiting
  <2> QED BY <2>2, <2>3, <2>4
<1> QED BY <1>1, CommandInv, PTL

\* Between updates the cache and every member that has not missed an update
\* have the version that was last answered with SUCCESS, and an ERROR has
\* changed nothing - unless updates overlapped, a node took one with it, a
\* rollback threw, or the first node to start again was down during one, since
\* - for any nodes and versions, however many cannot be loaded and wherever
\* nodes start, stop and crash.
THEOREM AnswersAreTrue == CommandSpec => []AnswersTellTheRules
<1>1. CommandInit => ClientInv
  BY InitClientInv
<1>2. ServerInv /\ ClientInv /\ ServerInv' /\ [CommandNext]_allVars => ClientInv'
  BY NextClientInv
<1>3. ClientInv => AnswersTellTheRules
  BY DEF ClientInv, NothingGoesOn, Calm, Settled, Took, AnswersTellTheRules
<1> QED BY <1>1, <1>2, <1>3, ServerInvariant, PTL DEF CommandSpec
============================================================================
