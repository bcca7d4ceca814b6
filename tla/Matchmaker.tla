----------------------------- MODULE Matchmaker -----------------------------
(***************************************************************************)
(* The game room's matchmaker: one process whose handlers interleave at    *)
(* their awaits.  A connection queues (and waits for its rating), is       *)
(* paired, reveals its seed; the pair's deck is dealt (and waits for the   *)
(* arena and the venue), and the sealed deck is held until its match is on *)
(* chain.  A sweeper ticks over all of it.                                 *)
(***************************************************************************)
EXTENDS Integers, FiniteSetsExt

CONSTANTS
  Connections, WalletOf,
  Matches,       \* bound: the pairings ever made
  SeedWindow, DealWindow, CreateWindow,   \* in ticks of the sweeper
  MaxJoins,      \* bound: joins ever sent
  MaxRepeats     \* bound: seeds revealed again

VARIABLES
  open,          \* the sockets that are open
  joining,       \* joins awaiting readRatings, by connection
  queue,         \* entries waiting, by connection: overlapping joins leave two
  pairings,      \* Matches -> a pairing, of the matches being paired
  pairingOf,     \* connections -> Matches
  deal,          \* what each deal in flight awaits
  held,          \* sealed decks -> ticks since they were
  reading,       \* checks of held decks that await the arena
  onChain,       \* the matches whose createMatch landed
  found, committed, dissolved,   \* history: the matches players were told this of
  joins, repeats \* history: of the bounds

queueVars == <<open, joining, queue>>
boundVars == <<joins, repeats>>
pendingVars == <<held, reading, onChain>>
toldVars == <<found, committed, dissolved>>
vars == <<queueVars, pairings, pairingOf, deal, pendingVars, toldVars, boundVars>>

MatchmakerAssumption ==
  /\ DOMAIN WalletOf = Connections
  /\ {SeedWindow, DealWindow, CreateWindow, MaxJoins} \subseteq Nat \ {0} /\ MaxRepeats \in Nat

Without(f, keys) == [k \in DOMAIN f \ keys |-> f[k]]
With(f, k, v) == [i \in DOMAIN f \cup {k} |-> IF i = k THEN v ELSE f[i]]
Players(m) == pairings[m].players

Init ==
  /\ open = Connections
  /\ joining = [c \in Connections |-> 0] /\ queue = [c \in Connections |-> 0]
  /\ pairings = << >> /\ pairingOf = << >> /\ deal = << >>
  /\ held = << >> /\ reading = << >> /\ onChain = {}
  /\ found = {} /\ committed = {} /\ dissolved = {} /\ joins = 0 /\ repeats = 0

-----------------------------------------------------------------------------
(* Pairing.                                                                *)

NewPairing(players) ==
  [players |-> players, seeds |-> {}, age |-> 0]

\* `pair`: nobody is asked whether they are in a pairing already.
Paired(m, two, freed) ==
  /\ pairingOf' = [c \in freed \cup two |-> IF c \in two THEN m ELSE pairingOf[c]]
  /\ found' = IF two = {} THEN found ELSE found \cup {m}

\* A pairing ends: its players are free to queue, whatever pairing they are in.
Ended(ms) ==
  /\ pairings' = Without(pairings, ms)
  /\ pairingOf' = Without(pairingOf, UNION {Players(m) : m \in ms \cap DOMAIN pairings})

Dissolve(ms) == Ended(ms) /\ dissolved' = dissolved \cup ms

Live(q) == [c \in Connections |-> IF c \in open THEN q[c] ELSE 0]

-----------------------------------------------------------------------------
(* What a connection sends.                                                *)

Join(c) ==
  /\ c \in open /\ c \notin DOMAIN pairingOf /\ joins < MaxJoins /\ joins' = joins + 1
  /\ queue' = [queue EXCEPT ![c] = 0]
  /\ joining' = [joining EXCEPT ![c] = @ + 1]
  /\ UNCHANGED <<open, pairings, pairingOf, deal, pendingVars, toldVars, repeats>>

\* The rest of `join`, with nothing of before the await looked at again.  Who is in
\* band is a matter of ratings and waiting, left open here.
RatingRead(c) ==
  /\ joining[c] > 0
  /\ joining' = [joining EXCEPT ![c] = @ - 1]
  /\ \/ \E d \in Connections, m \in Matches \ found :
          /\ Live(queue)[d] > 0 /\ WalletOf[d] # WalletOf[c]
          /\ queue' = [Live(queue) EXCEPT ![d] = @ - 1]
          /\ pairings' = With(pairings, m, NewPairing({c, d}))
          /\ Paired(m, {c, d}, DOMAIN pairingOf)
     \/ queue' = [Live(queue) EXCEPT ![c] = @ + 1] /\ UNCHANGED <<pairings, pairingOf, found>>
     \/ \* readRatings failed
        UNCHANGED <<queue, pairings, pairingOf, found>>
  /\ UNCHANGED <<open, deal, pendingVars, committed, dissolved, boundVars>>

\* A pairing dissolves with the player who leaves it.
Left(c) ==
  /\ queue' = [queue EXCEPT ![c] = 0]
  /\ IF c \in DOMAIN pairingOf THEN Dissolve({pairingOf[c]})
                               ELSE UNCHANGED <<pairings, pairingOf, dissolved>>
  /\ UNCHANGED <<joining, deal, pendingVars, found, committed, boundVars>>

Leave(c) == c \in open /\ Left(c) /\ UNCHANGED open
Close(c) == c \in open /\ Left(c) /\ open' = open \ {c}

Revealed(m, c) == pairings[m].seeds \cup {c}

StartsDeal(m) == IF m \in DOMAIN deal THEN deal ELSE With(deal, m, "arena")

\* A seed that is not the one queued with ends the pairing; the second good one,
\* and any after it, starts the deal and its window.
RevealSeed(c, honest) ==
  /\ c \in open /\ c \in DOMAIN pairingOf
  /\ LET m == pairingOf[c] IN
     \/ /\ ~honest
        /\ Dissolve({m}) /\ UNCHANGED <<deal, repeats>>
     \/ /\ honest
        /\ IF c \in pairings[m].seeds THEN repeats < MaxRepeats /\ repeats' = repeats + 1
                                      ELSE UNCHANGED repeats
        /\ pairings' = [pairings EXCEPT ![m].seeds = Revealed(m, c),
                          ![m].age = IF Revealed(m, c) = Players(m) THEN 0 ELSE @]
        /\ deal' = IF Revealed(m, c) = Players(m) THEN StartsDeal(m) ELSE deal
        /\ UNCHANGED <<pairingOf, dissolved>>
  /\ UNCHANGED <<queueVars, pendingVars, found, committed, joins>>

-----------------------------------------------------------------------------
(* A deal: what it awaited has come.                                       *)

CheckedBefore(m) == FALSE  \* mutant: checked before the await only
Gone(m) == m \notin DOMAIN pairings

ArenaRead(m, readable) ==
  /\ m \in DOMAIN deal /\ deal[m] = "arena"
  /\ \/ Gone(m) /\ deal' = Without(deal, {m}) /\ UNCHANGED <<pairings, pairingOf, dissolved>>
     \/ ~Gone(m) /\ ~readable /\ deal' = Without(deal, {m}) /\ Dissolve({m})
     \/ ~Gone(m) /\ readable /\ deal' = [deal EXCEPT ![m] = "deck"]
        /\ UNCHANGED <<pairings, pairingOf, dissolved>>
  /\ UNCHANGED <<queueVars, pendingVars, found, committed, boundVars>>

ForgetsPairing(ms) == pairings' = Without(pairings, ms) /\ UNCHANGED pairingOf  \* mutant
Sealed(ms) == Ended(ms)

\* The deck could not be dealt at all, not yet, or is sealed and committed.
DeckDealt(m, outcome) ==
  /\ m \in DOMAIN deal /\ deal[m] = "deck"
  /\ deal' = Without(deal, {m})
  /\ \/ Gone(m) /\ UNCHANGED <<pairings, pairingOf, held, committed, dissolved>>
     \/ ~Gone(m) /\ outcome = "refused" /\ Dissolve({m}) /\ UNCHANGED <<held, committed>>
     \/ ~Gone(m) /\ outcome = "retry" /\ UNCHANGED <<pairings, pairingOf, held, committed, dissolved>>
     \/ /\ ~Gone(m) /\ outcome = "dealt"
        /\ Sealed({m})
        /\ held' = With(held, m, 0)
        /\ committed' = committed \cup {m} /\ UNCHANGED dissolved
  /\ UNCHANGED <<queueVars, reading, onChain, found, boundVars>>

-----------------------------------------------------------------------------
(* The sweeper.                                                            *)

Dealing(p) == p.seeds = p.players

OverdueUnlessDealing(p) == ~Dealing(p) /\ p.age >= SeedWindow  \* mutant
Overdue(p) == p.age >= (IF Dealing(p) THEN DealWindow ELSE SeedWindow)

MayPair ==
  {two \in SUBSET {c \in open : queue[c] > 0} :
     Cardinality(two) = 2 /\ Cardinality({WalletOf[c] : c \in two}) = 2}

\* Pairings past their window dissolve, held deals are tried again, held decks are
\* checked against the arena, and of the queue's open connections a pair is made
\* (one at most: the next sweep makes the next).
Tick ==
  LET late == {m \in DOMAIN pairings : Overdue(pairings[m])}
      kept == DOMAIN pairings \ late
      retried == {m \in kept : Dealing(pairings[m])}
      checked == DOMAIN held \ DOMAIN reading
  IN
  /\ deal' = [m \in DOMAIN deal \cup retried |-> IF m \in DOMAIN deal THEN deal[m] ELSE "arena"]
  /\ held' = [m \in DOMAIN held |-> Min({held[m] + 1, CreateWindow})]
  /\ reading' = [m \in DOMAIN reading \cup checked |->
                  IF m \in DOMAIN reading THEN reading[m]
                  ELSE [late |-> held[m] >= CreateWindow, absent |-> m \notin onChain]]
  /\ dissolved' = dissolved \cup late
  /\ \E m \in Matches, two \in {{}} \cup MayPair :
       LET made == IF two = {} THEN {} ELSE {m} IN
       /\ made \cap found = {}
       /\ queue' = [c \in Connections |-> IF c \in two THEN queue[c] - 1 ELSE Live(queue)[c]]
       /\ pairings' = [x \in kept \cup made |->
                        IF x \in kept
                        THEN [pairings[x] EXCEPT !.age = Min({@ + 1, SeedWindow + DealWindow})]
                        ELSE NewPairing(two)]
       /\ Paired(m, two, DOMAIN pairingOf \ UNION {Players(x) : x \in late})
  /\ UNCHANGED <<open, joining, onChain, committed, boundVars>>

\* The rest of the check of one deck, released in the meantime or not.  An answer
\* is of when it was asked, or of now; unreadable counts as absent.
HeldRead(m, answer) ==
  /\ m \in DOMAIN reading
  /\ answer = "match" => m \in onChain
  /\ answer = "absent" => reading[m].absent \/ m \notin onChain
  /\ reading' = Without(reading, {m})
  /\ IF answer = "match" \/ reading[m].late THEN held' = Without(held, {m}) ELSE UNCHANGED held
  /\ dissolved' = IF answer # "match" /\ reading[m].late THEN dissolved \cup {m} ELSE dissolved
  /\ UNCHANGED <<queueVars, pairings, pairingOf, deal, onChain, found, committed, boundVars>>

\* The creator's transaction lands, in time or not, and a snapshot or the projector
\* finds the match.
CreateMatch(m) ==
  /\ m \in committed \ onChain /\ onChain' = onChain \cup {m}
  /\ UNCHANGED <<queueVars, pairings, pairingOf, deal, held, reading, toldVars, boundVars>>

Release(m) ==
  /\ m \in onChain \cap DOMAIN held /\ held' = Without(held, {m})
  /\ UNCHANGED <<queueVars, pairings, pairingOf, deal, reading, onChain, toldVars, boundVars>>

-----------------------------------------------------------------------------
Next ==
  \/ \E c \in Connections :
       Join(c) \/ RatingRead(c) \/ Leave(c) \/ Close(c) \/ \E h \in BOOLEAN : RevealSeed(c, h)
  \/ \E m \in Matches : \/ \E ok \in BOOLEAN : ArenaRead(m, ok)
                        \/ \E o \in {"refused", "retry", "dealt"} : DeckDealt(m, o)
                        \/ \E a \in {"match", "absent", "unreadable"} : HeldRead(m, a)
                        \/ CreateMatch(m) \/ Release(m)
  \/ Tick

Spec == Init /\ [][Next]_vars

\* The timer fires, and a read of the arena is answered or times out.  Deals may hang.
FairSpec ==
  /\ Spec /\ WF_vars(Tick)
  /\ \A m \in Matches : WF_vars(\E a \in {"match", "absent", "unreadable"} : HeldRead(m, a))

-----------------------------------------------------------------------------
\* A deck is committed to a pairing that stands: nobody is shown "open the match"
\* for a match they were told is over, however long its deal was in flight.
DeckIsForALivePairing ==
  [][committed' \cap dissolved \subseteq committed]_vars

\* Nobody is refused the queue ("you are already being paired") by a pairing that
\* has ended, whatever joins overlapped and however the pairing ended.
NobodyIsLockedOut ==
  \A c \in DOMAIN pairingOf : pairingOf[c] \in DOMAIN pairings /\ c \in Players(pairingOf[c])

\* A pair that was found ends up on chain or is told that it is over: a hung deal,
\* a seed that never comes or a transaction nobody sends leaves no one waiting.
EveryPairEnds == \A m \in Matches : m \in found ~> m \in onChain \cup dissolved

=============================================================================
