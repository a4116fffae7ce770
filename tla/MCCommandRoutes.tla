-------------------------- MODULE MCCommandRoutes --------------------------
(* CommandRoutes on two nodes and two versions. *)
EXTENDS CommandRoutes, TLC

CONSTANTS n1, n2

Pair == {n1, n2}

\* Version 2 is missing on n2 and does not compile on n1.
MissingOnOne == {<<n2, 2>>}
BrokenOnOne  == {<<n1, 2>>}

Upgrade(v) == [name |-> "UPGRADE", release |-> v]
Ask(name)  == [name |-> name, release |-> NoVersion]

\* STATUS is answered as INFO is, and RESUME fails as SUSPEND does.
AllKinds == {Upgrade(1), Upgrade(2), Upgrade(Foreign), Upgrade(NoVersion),
             Ask("INFO"), Ask("SUSPEND")}

\* Updates that succeed and updates that fail while n2 is up.
Updates == {Upgrade(1), Upgrade(2)}

\* Updates that fail.
Failing == {Upgrade(2)}

\* Commands are interchangeable.
AnyCommand == Permutations(Commands)
============================================================================
