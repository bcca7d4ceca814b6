-------------------------- MODULE MCStrategyRunner --------------------------
(***************************************************************************)
(* One process that runs two strategies under one grant; or, as a deploy   *)
(* may overlap, two processes that run the same agent.  Any of them may    *)
(* die, and is started again.                                              *)
(***************************************************************************)
EXTENDS StrategyRunner

CONSTANTS s1, s2, o1, m1, p1, p2, g1

VARIABLE runners

\* The two strategies share the subscriber's one grant.
OneGrant == [x \in {s1, s2} \X {o1} |-> g1]

Pair == INSTANCE StrategyRunner WITH
  Strategies <- {s2}, GrantOf <- [x \in {s2} \X {o1} |-> g1],
  Processes <- {p1, p2}, MaxFaults <- 0

ASSUME RunnersAssumption == RunnerAssumption /\ Pair!RunnerAssumption

runnersVars == <<runners, vars>>

RunnersInit ==
  \/ runners = 1 /\ Init
  \/ runners = 2 /\ Pair!Init

RunnersNext ==
  /\ UNCHANGED runners
  /\ \/ runners = 1 /\ Next
     \/ runners = 2 /\ Pair!Next

Alone == runners = 1 /\ UNCHANGED runners

RunnersSpec ==
  /\ RunnersInit /\ [][RunnersNext]_runnersVars
  /\ WF_runnersVars(Alone /\ Running(p1))
  /\ \A k \in OrderKeys : SF_runnersVars(Alone /\ Answers(p1, k))

\* See StrategyRunner: of the one process that holds the key.
FillsAreRecorded == \A k \in OrderKeys :
  (runners = 1 /\ tx[k] = "filled") ~> (runners = 1 /\ attempts[k].state = "filled")

=============================================================================
