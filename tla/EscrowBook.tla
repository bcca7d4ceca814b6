----------------------------- MODULE EscrowBook -----------------------------
(***************************************************************************)
(* The books ParlayReserve and RangeReserve share: a bet escrows its whole *)
(* payout at the start, the stake from its owner and the rest from the     *)
(* house's liquid capital, against caps on the house and on each expiry;   *)
(* it ends kept, refunded or won and claimed.  Which bets end how is the   *)
(* reserve's own business.                                                 *)
(***************************************************************************)
EXTENDS ShareLedger, SequencesExt

CONSTANTS
  Owners, Times,
  MaxBets          \* bound: bets ever opened

VARIABLES
  locked,          \* the house's part of every LIVE and WON bet
  lockedByExpiry,
  bets             \* an id is the 1-based index

escrowVars == <<ledgerVars, locked, lockedByExpiry, bets>>

BetIds == 1..Len(bets)
Escrowed(i) == bets[i].status \in {"LIVE", "WON"}

EscrowInit ==
  /\ LedgerInit
  /\ locked = 0 /\ lockedByExpiry = [e \in Times |-> 0] /\ bets = << >>

totalValue == liquid + locked

Supply(s, amount) == Buy(s, amount, totalValue) /\ UNCHANGED <<locked, lockedByExpiry, bets>>
Withdraw(s, shares) == Redeem(s, shares, totalValue) /\ UNCHANGED <<locked, lockedByExpiry, bets>>

Saturating(a, b) == IF a > b THEN a - b ELSE 0

\* Capacity is read before the bet is booked.
Capacity(house, expiries, caps) ==
  /\ liquid >= house
  /\ (locked + house) * BPS <= totalValue * caps.maxExposureBps
  /\ \A e \in expiries : lockedByExpiry[e] + house <= caps.maxExpiryLocked

\* `bet` carries owner, stake, houseLocked and the expiries of its Windows.
Escrow(bet, caps) ==
  /\ ~paused
  /\ Len(bets) < MaxBets
  /\ Capacity(bet.houseLocked, bet.expiries, caps)
  /\ Move(liquid - bet.houseLocked, wallet + bet.stake)
  /\ locked' = locked + bet.houseLocked
  /\ lockedByExpiry' = [e \in Times |->
       lockedByExpiry[e] + IF e \in bet.expiries THEN bet.houseLocked ELSE 0]
  /\ bets' = Append(bets, bet)

ReleaseFirst(bet) ==  \* mutant: only the first leg's expiry
  /\ locked' = Saturating(locked, bet.houseLocked)
  /\ LET first == CHOOSE e \in bet.expiries : \A f \in bet.expiries : e <= f
     IN lockedByExpiry' = [lockedByExpiry EXCEPT ![first] = Saturating(@, bet.houseLocked)]

Release(bet) ==
  /\ locked' = Saturating(locked, bet.houseLocked)
  /\ lockedByExpiry' = [e \in Times |->
       IF e \in bet.expiries THEN Saturating(lockedByExpiry[e], bet.houseLocked)
                             ELSE lockedByExpiry[e]]

Ended(i, bet, end) == bets' = [bets EXCEPT ![i] = [bet EXCEPT !.status = end]]

\* `bet` is bets[i] with what the caller has written to it so far.
Keep(i, bet) ==
  /\ Ended(i, bet, "LOST")
  /\ Move(liquid + bet.stake + bet.houseLocked, wallet)
  /\ Release(bet)

Refund(i, bet) ==
  /\ Ended(i, bet, "VOID")
  /\ Move(liquid + bet.houseLocked, wallet - bet.stake)
  /\ Release(bet)

\* A won bet stays in escrow until it is claimed.
Win(i, bet) == Ended(i, bet, "WON") /\ UNCHANGED <<ledgerVars, locked, lockedByExpiry>>

Claim(i) ==
  /\ bets[i].status = "WON"
  /\ Ended(i, bets[i], "CLAIMED")
  /\ Move(liquid, wallet - bets[i].stake - bets[i].houseLocked)
  /\ Release(bets[i])

SetPaused(next) == Pause(next) /\ UNCHANGED <<locked, lockedByExpiry, bets>>

-----------------------------------------------------------------------------
EscrowTypeOK ==
  /\ LedgerTypeOK
  /\ locked \in Nat /\ lockedByExpiry \in [Times -> Nat]
  /\ \A i \in BetIds :
       /\ bets[i].owner \in Owners
       /\ bets[i].status \in {"LIVE", "LOST", "VOID", "WON", "CLAIMED"}
       /\ bets[i].stake \in Nat /\ bets[i].houseLocked \in Nat \ {0}
       /\ bets[i].expiries \subseteq Times /\ bets[i].expiries # {}

InEscrow == {i \in BetIds : Escrowed(i)}
On(e) == {i \in InEscrow : e \in bets[i].expiries}

\* What the bets of `ids` hold, all of it and the house's part, over all the ids.
Held(ids) == [i \in 1..MaxBets |-> IF i \in ids THEN bets[i].stake + bets[i].houseLocked ELSE 0]
HousePart(ids) == [i \in 1..MaxBets |-> IF i \in ids THEN bets[i].houseLocked ELSE 0]

\* The contract's own account of its money: the balance is the liquid capital
\* and the escrow of LIVE and WON bets, and the liabilities are those bets', in
\* total and per expiry, although `_release` would hide a mistake.
BooksBalance ==
  /\ wallet = liquid + SumFunction(Held(InEscrow))
  /\ locked = SumFunction(HousePart(InEscrow))
  /\ \A e \in Times : lockedByExpiry[e] = SumFunction(HousePart(On(e)))

House == INSTANCE HouseShares WITH atRisk <- locked
HouseSpec == House!Spec

=============================================================================
