------------------------------- MODULE MCOps -------------------------------
(***************************************************************************)
(* Loops of the ops service, each on its own and at the size it needs:     *)
(* `actor` says which one a behaviour is of.  The relay's poller over two  *)
(* instructions and a reply of the relay's own; its delivery loops, two of *)
(* which contend for one reply; the matchmaker; and the duel projector and  *)
(* the settler, a cycle of the projector at a time.                        *)
(***************************************************************************)
EXTENDS Ops, TLC

CONSTANTS w1, w2, c1, c2, c3, m1, m2, ann, bea

VARIABLES
  actor,
  log, rows, payouts, rated, ladder, stored, scanned, cache, cycle, work,    \* projector
  missed, crashes, misses

\* Two browsers of one player, and an opponent.
TheConnections == {c1, c2, c3}
TheirWallets == c1 :> ann @@ c2 :> bea @@ c3 :> ann
TheMatches == {m1, m2}
TheReply == {2}
BothErrors == {"timeout", "reset"}

\* The poller, with posting switched off; the delivery loops, of one mention.
Orders == INSTANCE XRelay WITH Posting <- FALSE
RepliesNext == Next /\ posted' <= 1

Projecting == INSTANCE DuelProjector WITH
  Matches <- {m1}, PlayersOf <- m1 :> {ann, bea}, cursor <- scanned,
  Cycles <- {1}, SPAN <- 1, Histories <- {<< >>}, MaxLog <- 7, MaxLive <- 1,
  MaxCrashes <- 1, MaxMisses <- 0

ASSUME ProjectingAssumption == Projecting!ProjectorAssumption

projectorVars == <<log, rows, payouts, rated, ladder, stored, scanned, cache, cycle, work,
                   missed, crashes, misses>>

\* What is not looked at stays as it begins.
LoopsInit ==
  /\ actor \in {"orders", "replies", "pairing", "projecting"}
  /\ Init /\ Pairing!Init /\ Projecting!Init

InRelay(a) == actor = a /\ UNCHANGED <<actor, roomVars, projectorVars>>
InRoom == actor = "pairing" /\ UNCHANGED <<actor, vars, projectorVars>>
InProjector == actor = "projecting" /\ UNCHANGED <<actor, vars, roomVars>>

LoopsNext ==
  \/ InRelay("orders") /\ Orders!Next
  \/ InRelay("replies") /\ RepliesNext
  \/ InRoom /\ Pairing!Next
  \/ InProjector /\ Projecting!Next

\* The fairness of each (see the modules' FairSpec): an action of one actor and one
\* of another are never enabled together, so that one formula is fair to both.
Turns ==
  \/ InRelay("orders") /\ Orders!Poller
  \/ InRelay("replies") /\ Poller
  \/ InRoom /\ Pairing!Tick
  \/ InProjector /\ Projecting!Step(1)
Turn(w, m) ==
  \/ InRelay("orders") /\ Orders!Deliver(w)
  \/ InRelay("replies") /\ Deliver(w)
  \/ InRoom /\ \E a \in {"match", "absent", "unreadable"} : Pairing!HeldRead(m, a)
  \/ InProjector /\ m = m1 /\ Projecting!Crank(m)

loopsVars == <<actor, vars, roomVars, projectorVars>>

LoopsSpec ==
  /\ LoopsInit /\ [][LoopsNext]_loopsVars
  /\ WF_loopsVars(Turns)
  /\ WF_loopsVars(Turn(w1, m1))
  /\ WF_loopsVars(Turn(w2, m2))
  /\ WF_loopsVars(InProjector /\ Projecting!List)
  /\ SF_loopsVars(InProjector /\ Projecting!Cranked(m1))

-----------------------------------------------------------------------------
\* Every instruction gets a receipt with an outcome, and every queued reply ends.
Waits(m) ==
  \/ actor = "orders" /\ Instructed(m)
  \/ actor = "replies" /\ m = 1 /\ ReplyQueued(m)
Ends(m) ==
  \/ actor = "orders" /\ Receipted(m)
  \/ actor = "replies" /\ m = 1 /\ ReplyEnded(m)
EveryMentionEnds == \A m \in {1, 3} : Waits(m) ~> Ends(m)

\* Of either match: they are interchangeable.
EveryPairEnds ==
  (actor = "pairing" /\ m1 \in matched) ~> (actor = "pairing" /\ m1 \in onChain \cup dissolved)

EveryDuelIsTold ==
  (actor = "projecting" /\ "joined" \in Projecting!Told(m1)) ~>
    [](actor = "projecting" /\ Projecting!Over(m1) /\ Projecting!RowIsTrue(m1))

=============================================================================
