--------------------------- MODULE CommandRoutes ---------------------------
(***************************************************************************)
(* The commands that clients send over JMS.  Every node that is up has one *)
(* consumer on the queue of commands; it takes a message, sends it to the  *)
(* route direct:<command>, and answers the client with what that route     *)
(* makes of the result or of the exception.  UPGRADE runs the protocol of  *)
(* RulesUpgrade, whose operators are the commands: so as many updates can  *)
(* be in progress as there are nodes.                                      *)
(*                                                                         *)
(* External: the broker hands a message to one consumer, which has         *)
(* acknowledged it when its listener is called (AUTO_ACKNOWLEDGE), and an  *)
(* exception that leaves a route is logged and sends no reply.             *)
(***************************************************************************)
EXTENDS RulesUpgrade, Sequences

CONSTANTS
    Foreign, \* a RELEASE_ID of another group or artifact, or not g:a:v
    Asked    \* the messages clients send

\* release is the value of the parameter RELEASE_ID; NoVersion: there is none.
Messages == [name : {"UPGRADE"}, release : Versions \cup {Foreign, NoVersion}]
            \cup [name : {"INFO", "STATUS", "SUSPEND", "RESUME"}, release : {NoVersion}]

ASSUME MessagesAssumption ==
    /\ Foreign \notin Versions \cup {NoVersion}
    /\ Asked \subseteq Messages

VARIABLES
    message,   \* the Command in each message
    queue,     \* the messages in the queue of commands
    consumer,  \* the message each node's consumer works on
    reply,     \* the code of the ResponseMessage to each message
    effective, \* history: the version clients know of, the last that was
               \* answered with SUCCESS
    mixed,     \* history: updates that overlapped with another
    clean,     \* history: nothing went on since that a client was not told
    behind     \* history: nodes that are down, and were while an update was
               \* worked on

Commands == Operators
routes   == <<message, queue, consumer, reply>>
history  == <<effective, mixed, clean, behind>>
allVars  == <<vars, routes, history>>

Routes    == {"UPGRADE", "INFO", "STATUS"}
NoMessage == [name |-> "none", release |-> NoVersion]

Working  == {c \in Commands : /\ at[c] # "idle"
                              /\ \E n \in Nodes : consumer[n] = c}

\* The host of an update that nobody has asked for does not matter.
CommandInit ==
    /\ Init
    /\ \A c, d \in Commands : op[c] = op[d]
    /\ message = [c \in Commands |-> NoMessage]
    /\ queue = <<>>
    /\ consumer = [n \in Nodes |-> NoOne]
    /\ reply = [c \in Commands |-> "none"]
    /\ effective = Config
    /\ mixed = {}
    /\ clean = TRUE
    /\ behind = {}

----------------------------------------------------------------------------
\* A client puts a message into the queue.
Send(c, m) ==
    /\ message[c] = NoMessage
    /\ message' = [message EXCEPT ![c] = m]
    /\ queue' = Append(queue, c)
    /\ UNCHANGED <<consumer, reply>>

\* Mutant: the destination is a topic, where every node gets a message.
ConsumeTopic(n) ==
    /\ n \in Up
    /\ consumer[n] = NoOne
    /\ queue # <<>>
    /\ consumer' = [consumer EXCEPT ![n] = Head(queue)]
    /\ \/ queue' = Tail(queue)
       \/ UNCHANGED queue
    /\ UNCHANGED <<message, reply>>

\* from("jms:" + queueName), with one consumer.
Consume(n) ==
    /\ n \in Up
    /\ consumer[n] = NoOne
    /\ queue # <<>>
    /\ consumer' = [consumer EXCEPT ![n] = Head(queue)]
    /\ queue' = Tail(queue)
    /\ UNCHANGED <<message, reply>>

\* direct:marshal-response, and the consumer is free for the next message.
Respond(n, code) ==
    /\ reply' = [reply EXCEPT ![consumer[n]] = code]
    /\ consumer' = [consumer EXCEPT ![n] = NoOne]
    /\ UNCHANGED <<message, queue>>

\* direct:UPGRADE takes RELEASE_ID from the parameters and calls hacep.update.
CallUpdate(n) ==
    LET c == consumer[n]  m == message[c] IN
    /\ c # NoOne /\ m.name = "UPGRADE" /\ at[c] = "idle"
    /\ \/ /\ m.release \in Versions
          /\ Execute(c, n, m.release)
          /\ UNCHANGED routes
       \/ /\ m.release = Foreign
          /\ Refuse(c, n)
          /\ UNCHANGED routes
       \/ /\ m.release = NoVersion       \* RELEASE_ID cannot be null
          /\ Respond(n, "ERROR")
          /\ UNCHANGED vars

\* Mutant: onException of the route is continued(true), not handled(true).
RespondContinued(n) ==
    LET c == consumer[n] IN
    /\ c # NoOne /\ at[c] \in {"ok", "error"}
    /\ Respond(n, "SUCCESS")
    /\ UNCHANGED vars

\* The rest of direct:UPGRADE, or of its onException.
RespondUpdate(n) ==
    LET c == consumer[n] IN
    /\ c # NoOne /\ at[c] \in {"ok", "error"}
    /\ Respond(n, IF at[c] = "ok" THEN "SUCCESS" ELSE "ERROR")
    /\ UNCHANGED vars

\* direct:INFO and direct:STATUS: bean, or an exception of the grid.
RespondInfo(n) ==
    LET c == consumer[n] IN
    /\ c # NoOne /\ message[c].name \in {"INFO", "STATUS"}
    /\ Respond(n, "SUCCESS") \/ Respond(n, "ERROR")
    /\ UNCHANGED vars

\* recipientList: CamelRouter has added no route direct:<command>, and the
\* exception has no handler.
FailUnrouted(n) ==
    LET c == consumer[n] IN
    /\ c # NoOne /\ message[c].name \notin Routes
    /\ consumer' = [consumer EXCEPT ![n] = NoOne]
    /\ UNCHANGED <<vars, message, queue, reply>>

RouteStep(n) ==
    CallUpdate(n) \/ RespondUpdate(n) \/ RespondInfo(n) \/ FailUnrouted(n)

----------------------------------------------------------------------------
\* CamelRouter.stop waits for the message in progress.
StopNode(n) ==
    /\ consumer[n] = NoOne
    /\ Stop(n)
    /\ UNCHANGED routes

\* The message a node works on is lost with it.
CrashNode(n) ==
    /\ Crash(n)
    /\ consumer' = [consumer EXCEPT ![n] = NoOne]
    /\ UNCHANGED <<message, queue, reply>>

RulesStep ==
    \/ \E n \in Nodes : JoinInfoCache(n) \/ StartRules(n) \/ AddListener(n)
    \/ \E c \in Commands : UpdateStep(c)
    \/ Listen

Succeeds(c) ==
    reply[c] # "SUCCESS" /\ reply'[c] = "SUCCESS" /\ message[c].name = "UPGRADE"

\* An update that is not worked on any more and was not answered.
Vanishes(c) == c \in Working \ Working' /\ reply'[c] = "none"

\* The old version could not be put back on every member.
RollbackFails(c) == at[c] = "rolling" /\ at'[c] = "error" /\ threw

Overlap == \E c, d \in Working' : c # d

\* The cluster starts again from the store of a node that was down during an
\* update, and has another version in it.
Revives == cached = NoVersion /\ behind \cap Running' # {} /\ cached' # effective

\* Without persistence the version ends with the last node.
Ends == ~Persistence /\ cached' = NoVersion

Record ==
    /\ mixed' = IF Overlap THEN mixed \cup Working' ELSE mixed
    /\ behind' = (IF Working' = {} THEN behind ELSE Nodes) \ Running'
    /\ \/ /\ Ends
          /\ effective' = Config /\ clean' = TRUE
       \/ /\ ~Ends
          /\ \E c \in Commands : /\ Succeeds(c)
                                 /\ effective' = message[c].release
                                 /\ clean' = (c \notin mixed)
       \/ /\ ~Ends
          /\ ~\E c \in Commands : Succeeds(c)
          /\ clean' = (/\ clean /\ ~Overlap /\ ~Revives
                      /\ \A c \in Commands : ~Vanishes(c) /\ ~RollbackFails(c))
          /\ UNCHANGED effective

CommandNext ==
    /\ \/ \E c \in Commands, m \in Asked : Send(c, m) /\ UNCHANGED vars
       \/ \E n \in Nodes : \/ Consume(n) /\ UNCHANGED vars
                           \/ RouteStep(n) \/ StopNode(n) \/ CrashNode(n)
       \/ RulesStep /\ UNCHANGED routes
    /\ Record

CommandSpec == CommandInit /\ [][CommandNext]_allVars

\* The broker delivers while there is a consumer, and a thread of Camel that
\* has a message goes on; the cache is as fair as in RulesUpgrade.
FairCommandSpec ==
    /\ CommandSpec
    /\ WF_allVars(\E n \in Nodes : Consume(n) /\ UNCHANGED vars /\ Record)
    /\ \A n \in Nodes : WF_allVars(RouteStep(n) /\ Record)
    /\ WF_vars(Listen)
    /\ \A c \in Commands : SF_vars(Put(c)) /\ WF_vars(PutReturns(c))

----------------------------------------------------------------------------
\* Where a message is before it is answered, dropped or lost.
Waiting(c) == \/ \E i \in 1..Len(queue) : queue[i] = c
              \/ \E n \in Nodes : consumer[n] = c

\* A command is executed once, by one node.  No two consumers have the same
\* message, an update in progress is one its node still works on, and a
\* command that was answered, or was lost with its node, is nowhere any more
\* and cannot be executed again.
OneExecutor ==
    \A c \in Commands :
        /\ \A n, m \in Nodes : consumer[n] = c /\ consumer[m] = c => n = m
        /\ at[c] \in InProgress => consumer[op[c].host] = c
        /\ reply[c] # "none" \/ at[c] = "lost" => ~Waiting(c)

\* What clients were told is what the cluster runs.  Between updates the cache
\* and every node that has not missed an update have the last version that was
\* answered with SUCCESS, so an UPGRADE answered with ERROR has changed
\* nothing, and it outlives the last node, in the store of every node that was
\* there for all the updates; unless updates overlapped, a node took one with
\* it, a rollback threw as well or the first node to start again was down
\* during one, and then until an update succeeds alone.
AnswersTellTheRules ==
    clean /\ Working = {} =>
        /\ cached \in {effective, NoVersion}
        /\ \A n \in Up \ missed :
              rules[n] = effective \/ <<n, effective>> \in Broken

\* Updates that were all answered with ERROR leave every node with the rules
\* it had, also when two nodes execute them at the same time.
FailedUpdatesUndone ==
    /\ Working = {}
    /\ \A c \in Commands : message[c].name = "UPGRADE" => reply[c] # "SUCCESS"
    => \A n \in Up \ missed : rules[n] = Config

\* While some node is up every command is taken from the queue and done with:
\* no message before it - refused, without a route, failed, lost with a node,
\* or an update that collides with another - keeps it waiting.
CommandsServed ==
    <>[](Up # {}) =>
        \A c \in Commands : Waiting(c) ~> ~Waiting(c)
============================================================================
