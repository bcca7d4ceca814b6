------------------------------ MODULE SidePot ------------------------------
(***************************************************************************)
(* What the arena promises about the only money it decides: each match     *)
(* holds equal stakes of its two seats, gives everything it holds away in  *)
(* one step, to those two seats and nobody else, and never again.          *)
(***************************************************************************)
EXTENDS Naturals

CONSTANTS
  Matches,
  Amounts    \* the stakes a match may ask of each seat

Seats == {0, 1}   \* the creator and the challenger

VARIABLES
  stage,   \* match |-> "none", "open" (one stake in), "full", "closed"
  stake,   \* match |-> what each seat puts in
  award    \* match |-> seat |-> what the seat was given of the pot

vars == <<stage, stake, award>>

Nothing == [s \in Seats |-> 0]

Init ==
  /\ stage = [m \in Matches |-> "none"]
  /\ stake = [m \in Matches |-> 0]
  /\ award = [m \in Matches |-> Nothing]

Open(m, n) ==
  /\ stage[m] = "none"
  /\ stage' = [stage EXCEPT ![m] = "open"]
  /\ stake' = [stake EXCEPT ![m] = n]
  /\ UNCHANGED award

Join(m) ==
  /\ stage[m] = "open"
  /\ stage' = [stage EXCEPT ![m] = "full"]
  /\ UNCHANGED <<stake, award>>

\* A stake nobody matched goes back to the seat that put it in.
Return(m) ==
  /\ stage[m] = "open"
  /\ stage' = [stage EXCEPT ![m] = "closed"]
  /\ award' = [award EXCEPT ![m] = [s \in Seats |-> IF s = 0 THEN stake[m] ELSE 0]]
  /\ UNCHANGED stake

\* A full pot is won by one seat or shared evenly.
Decide(m) ==
  /\ stage[m] = "full"
  /\ stage' = [stage EXCEPT ![m] = "closed"]
  /\ \/ \E w \in Seats :
          award' = [award EXCEPT ![m] = [s \in Seats |-> IF s = w THEN 2 * stake[m] ELSE 0]]
     \/ award' = [award EXCEPT ![m] = [s \in Seats |-> stake[m]]]
  /\ UNCHANGED stake

Next == \E m \in Matches :
  \/ \E n \in Amounts : Open(m, n)
  \/ Join(m)
  \/ Return(m)
  \/ Decide(m)

Spec == Init /\ [][Next]_vars

=============================================================================
