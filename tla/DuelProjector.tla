--------------------------- MODULE DuelProjector ---------------------------
(***************************************************************************)
(* The duel projector and the settler that works from it.  The arena's log *)
(* is read in spans from a cursor and turned into rows and a ladder; the   *)
(* rows are the settler's worklist, and only the settler can open a deck.  *)
(* A timer starts cycles whether or not one is under way, and a crash ends *)
(* them between any two awaits.  All matches are ranked; a match has one   *)
(* card, the challenger's, so that both its seat and its cost are learnt   *)
(* from the log.  A block holds one event.                                 *)
(***************************************************************************)
EXTENDS Integers, Sequences, FiniteSetsExt

CONSTANTS
  Matches, PlayersOf,
  Cycles,       \* the cycles that may be under way at once
  SPAN,
  Histories,    \* what the arena may have logged before the projector first runs
  MaxLog,       \* bound: events ever logged
  MaxLive,      \* bound: matches going on at once
  MaxCrashes, MaxMisses   \* bounds: restarts; reads and writes that fail

VARIABLES
  log,          \* the arena's events, one a block
  rows, payouts,  \* duel_matches' status and duel_cards' payout, by match
  rated,        \* game_rating_events: <<match, wallet>>
  ladder,       \* game_ratings: wallet -> verified_matches
  stored,       \* game_cursors
  cursor, cache, cycle,   \* the process: cache is by match, cycle by Cycles
  work,         \* matches left of the settler's cycle
  missed,       \* history: matches an event of which was given up
  crashes, misses   \* history: of the bounds

dbVars == <<rows, payouts, rated, ladder, stored>>
boundVars == <<missed, crashes, misses>>
vars == <<log, dbVars, cursor, cache, cycle, work, boundVars>>

Wallets == UNION {PlayersOf[m] : m \in Matches}

\* What the arena must have logged of a match before an event of each kind.
Needs == [created |-> {}, joined |-> {"created"}, revealed |-> {"joined"},
          picked |-> {"revealed"}, locked |-> {"picked"}, settled |-> {"locked"},
          finalized |-> {"settled"}, refunded |-> {"created"}]

ProjectorAssumption ==
  /\ DOMAIN PlayersOf = Matches
  /\ {SPAN, MaxLog, MaxLive, MaxCrashes, MaxMisses} \subseteq Nat
  /\ Histories \subseteq Seq([match: Matches, kind: DOMAIN Needs])

Without(f, k) == [x \in DOMAIN f \ {k} |-> f[x]]
With(f, k, v) == [x \in DOMAIN f \cup {k} |-> IF x = k THEN v ELSE f[x]]

-----------------------------------------------------------------------------
(* The arena.                                                              *)

Told(m) == {log[i].kind : i \in {j \in 1..Len(log) : log[j].match = m}}
Over(m) == Told(m) \cap {"finalized", "refunded"} # {}

\* A match is refunded when nobody joins, nobody opens the deck or nobody picks.
MayHappen(m, kind) ==
  /\ Needs[kind] \subseteq Told(m) /\ kind \notin Told(m) /\ ~Over(m)
  /\ kind = "created" => Cardinality({x \in Matches : Told(x) # {} /\ ~Over(x)}) < MaxLive
  /\ kind = "refunded" => "picked" \notin Told(m)

Event(m, kind) == [match |-> m, kind |-> kind]
Happens(m, kind) ==
  Len(log) < MaxLog /\ MayHappen(m, kind) /\ log' = Append(log, Event(m, kind))

\* Everyone but the settler; the seeds that open a deck are the settler's.
Arena(m) ==
  /\ \E kind \in DOMAIN Needs \ {"revealed"} : Happens(m, kind)
  /\ UNCHANGED <<dbVars, cursor, cache, cycle, work, boundVars>>

-----------------------------------------------------------------------------
(* The cycle's place: a cycle is idle, or at the event it applies.         *)

Fresh == [joined |-> FALSE, pick |-> "none", settled |-> 0]
NoRatings == [w \in Wallets |-> 0]
Idle == [pc |-> "idle", at |-> 0, to |-> 0, head |-> 0,
         entry |-> Fresh, shared |-> FALSE, seen |-> NoRatings]

Init ==
  /\ log \in Histories
  /\ rows = [m \in Matches |-> "none"] /\ payouts = [m \in Matches |-> "none"]
  /\ rated = {} /\ ladder = NoRatings /\ stored = 0
  /\ cursor = 0 /\ cache = << >> /\ cycle = [c \in Cycles |-> Idle]
  /\ work = {} /\ missed = {} /\ crashes = 0 /\ misses = 0

SpanningPastNext(from, head) ==  \* mutant: the first block of a span is skipped
  [Idle EXCEPT !.pc = "apply", !.at = from + 2, !.to = Min({head, from + 1 + SPAN}), !.head = head]
Spanning(from, head) ==
  [Idle EXCEPT !.pc = "apply", !.at = from + 1, !.to = Min({head, from + 1 + SPAN}), !.head = head]

Applied(c) == [Idle EXCEPT !.pc = "apply", !.at = cycle[c].at + 1,
                           !.to = cycle[c].to, !.head = cycle[c].head]

\* A cycle that holds the entry of m keeps it when the cache lets go of it.
Detached(m) ==
  [d \in Cycles |-> IF cycle[d].shared /\ log[cycle[d].at].match = m
                    THEN [cycle[d] EXCEPT !.entry = cache[m], !.shared = FALSE]
                    ELSE cycle[d]]

FromArenaUncounted(m) ==  \* mutant: the cards settled before a restart are not counted
  [joined |-> "joined" \in Told(m),
   pick |-> IF "picked" \in Told(m) THEN "open" ELSE "none", settled |-> 0]
FromArena(m) ==
  [joined |-> "joined" \in Told(m),
   pick |-> IF "settled" \in Told(m) THEN "paid"
            ELSE IF "picked" \in Told(m) THEN "open" ELSE "none",
   settled |-> IF "settled" \in Told(m) THEN 1 ELSE 0]

EntryOf(c) == IF cycle[c].shared THEN cache[log[cycle[c].at].match] ELSE cycle[c].entry

-----------------------------------------------------------------------------
(* Applying an event: what it does to the cache, then to the database.     *)

\* A pick of a seat that is not known, or a settlement without its pick, is dropped.
Unplaceable(kind, entry) ==
  \/ kind \in {"picked", "settled"} /\ ~entry.joined
  \/ kind = "settled" /\ entry.pick = "none"

\* Cards are counted up to two: one too many is enough.
Learnt(kind, entry) ==
  CASE kind = "joined" -> [entry EXCEPT !.joined = TRUE]
    [] kind = "picked" -> [entry EXCEPT !.pick = "open"]
    [] kind = "settled" -> [entry EXCEPT !.pick = "paid",
                              !.settled = IF entry.pick = "open" THEN Min({@ + 1, 2}) ELSE @]
    [] OTHER -> entry

\* The part of `applyEvent` before its first await.
Applies(c, entry, cycles) ==
  LET e == log[cycle[c].at]
      dropped == Unplaceable(e.kind, entry)
  IN
  /\ cache' = With(cache, e.match, IF dropped THEN entry ELSE Learnt(e.kind, entry))
  /\ cycle' = [cycles EXCEPT ![c] =
                 IF dropped THEN Applied(c)
                 ELSE [cycle[c] EXCEPT !.pc = "write", !.entry = Fresh,
                                       !.shared = e.kind = "finalized"]]

\* The event is given up: it is logged and the span goes on.
GivenUp(c) ==
  /\ misses < MaxMisses /\ misses' = misses + 1
  /\ missed' = missed \cup {log[cycle[c].at].match}
  /\ cycle' = [cycle EXCEPT ![c] = Applied(c)]
  /\ UNCHANGED <<log, dbVars, cursor, cache, work, crashes>>

\* The head is the latest: one that lags makes a shorter span.
Start(c) ==
  /\ cycle[c].pc = "idle" /\ cursor < Len(log)
  /\ cycle' = [cycle EXCEPT ![c] = Spanning(cursor, Len(log))]
  /\ UNCHANGED <<log, dbVars, cursor, cache, work, boundVars>>

Take(c) ==
  /\ cycle[c].pc = "apply" /\ cycle[c].at <= cycle[c].to
  /\ LET e == log[cycle[c].at] IN
     \/ e.kind = "created" /\ Applies(c, Fresh, Detached(e.match))
     \/ e.kind # "created" /\ e.match \in DOMAIN cache /\ Applies(c, cache[e.match], cycle)
     \/ /\ e.kind # "created" /\ e.match \notin DOMAIN cache
        /\ cycle' = [cycle EXCEPT ![c].pc = "read", ![c].entry = FromArena(e.match)]
        /\ UNCHANGED cache
  /\ UNCHANGED <<log, dbVars, cursor, work, boundVars>>

\* `getArenaMatch` answers: the entry replaces whatever another cycle put there.
ArenaRead(c) ==
  /\ cycle[c].pc = "read"
  /\ Applies(c, cycle[c].entry, Detached(log[cycle[c].at].match))
  /\ UNCHANGED <<log, dbVars, cursor, work, boundVars>>

StatusOf == [created |-> "waiting", joined |-> "activeUnrevealed", revealed |-> "picking",
             locked |-> "settling", finalized |-> "finalized", refunded |-> "refunded"]

Recorded(kind, row) ==
  IF kind \in DOMAIN StatusOf /\ (kind = "created" \/ row # "none") THEN StatusOf[kind] ELSE row

PayoutRecorded(kind, card) ==
  CASE kind = "picked" /\ card = "none" -> "open"
    [] kind = "settled" /\ card # "none" -> "paid"
    [] OTHER -> card

\* A terminal event ends with `forget`.
Ends(c, m) ==
  /\ cache' = Without(cache, m)
  /\ cycle' = [Detached(m) EXCEPT ![c] = Applied(c)]

Rates(entry) == entry.joined /\ entry.settled > 0

Write(c) ==
  /\ cycle[c].pc = "write"
  /\ LET e == log[cycle[c].at] IN
     /\ rows' = [rows EXCEPT ![e.match] = Recorded(e.kind, @)]
     /\ payouts' = [payouts EXCEPT ![e.match] = PayoutRecorded(e.kind, @)]
     /\ \/ /\ e.kind = "finalized" /\ Rates(EntryOf(c))
           /\ cycle' = [cycle EXCEPT ![c].pc = "ratings", ![c].entry = Fresh, ![c].shared = FALSE]
           /\ UNCHANGED cache
        \/ e.kind = "finalized" /\ ~Rates(EntryOf(c)) /\ Ends(c, e.match)
        \/ e.kind = "refunded" /\ Ends(c, e.match)
        \/ /\ e.kind \notin {"finalized", "refunded"}
           /\ cycle' = [cycle EXCEPT ![c] = Applied(c)] /\ UNCHANGED cache
  /\ UNCHANGED <<log, rated, ladder, stored, cursor, work, boundVars>>

ReadRatings(c) ==
  /\ cycle[c].pc = "ratings"
  /\ cycle' = [cycle EXCEPT ![c].pc = "claim", ![c].seen = ladder]
  /\ UNCHANGED <<log, dbVars, cursor, cache, work, boundVars>>

NeverClaimed(m) == FALSE  \* mutant: the insert does not lock
Claimed(m) == \E w \in PlayersOf[m] : <<m, w>> \in rated

\* `applyRatingsOnce`: one transaction; the records written are the ones read before it.
ApplyRatings(c) ==
  /\ cycle[c].pc = "claim"
  /\ LET m == log[cycle[c].at].match IN
     /\ \/ Claimed(m) /\ UNCHANGED <<rated, ladder>>
        \/ /\ ~Claimed(m)
           /\ rated' = rated \cup {<<m, w>> : w \in PlayersOf[m]}
           /\ ladder' = [w \in Wallets |-> IF w \in PlayersOf[m] THEN cycle[c].seen[w] + 1
                                                                ELSE ladder[w]]
     /\ Ends(c, m)
  /\ UNCHANGED <<log, rows, payouts, stored, cursor, work, boundVars>>

Fails(c) == cycle[c].pc \in {"read", "write", "ratings", "claim"} /\ GivenUp(c)

\* The span is done: the memory's cursor, then the table's.
Finish(c) ==
  /\ cycle[c].pc = "apply" /\ cycle[c].at > cycle[c].to
  /\ cursor' = cycle[c].to
  /\ cycle' = [cycle EXCEPT ![c].pc = "save"]
  /\ UNCHANGED <<log, dbVars, cache, work, boundVars>>

\* The next span, or the end of the cycle: the head is reached, the cap on spans is,
\* or the blocks cannot be read.
Save(c) ==
  /\ cycle[c].pc = "save"
  /\ stored' = Max({stored, cycle[c].to})
  /\ \/ cursor < cycle[c].head
        /\ cycle' = [cycle EXCEPT ![c] = Spanning(cursor, cycle[c].head)]
     \/ cycle' = [cycle EXCEPT ![c] = Idle]
  /\ UNCHANGED <<log, rows, payouts, rated, ladder, cursor, cache, work, boundVars>>

SaveFails(c) ==
  /\ cycle[c].pc = "save" /\ misses < MaxMisses /\ misses' = misses + 1
  /\ cycle' = [cycle EXCEPT ![c] = Idle]
  /\ UNCHANGED <<log, dbVars, cursor, cache, work, missed, crashes>>

Crash ==
  /\ crashes < MaxCrashes /\ crashes' = crashes + 1
  /\ cursor' = stored /\ cache' = << >> /\ cycle' = [c \in Cycles |-> Idle] /\ work' = {}
  /\ UNCHANGED <<log, dbVars, missed, misses>>

-----------------------------------------------------------------------------
(* The settler.                                                            *)

LIVE == {"waiting", "activeUnrevealed", "picking", "settling"}
Cranks == {"revealed", "locked", "settled", "finalized", "refunded"}

List ==
  /\ work = {} /\ work' = {m \in Matches : rows[m] \in LIVE}
  /\ UNCHANGED <<log, dbVars, cursor, cache, cycle, boundVars>>

\* What the arena's own record of m is ready for; nothing, while a deadline runs or
\* a Window is open.
Crank(m) ==
  /\ m \in work /\ work' = work \ {m}
  /\ (\E kind \in Cranks : Happens(m, kind)) \/ UNCHANGED log
  /\ UNCHANGED <<dbVars, cursor, cache, cycle, boundVars>>

Cranked(m) == Crank(m) /\ log' # log

-----------------------------------------------------------------------------
Step(c) ==
  \/ Start(c) \/ Take(c) \/ ArenaRead(c) \/ Write(c)
  \/ ReadRatings(c) \/ ApplyRatings(c) \/ Finish(c) \/ Save(c)

Next ==
  \/ \E c \in Cycles : Step(c) \/ Fails(c) \/ SaveFails(c)
  \/ \E m \in Matches : Arena(m) \/ Crank(m)
  \/ List \/ Crash

Spec == Init /\ [][Next]_vars

\* The timers fire and calls return; a deadline passes and a Window is decided in
\* the end, so that a match the settler keeps looking at is cranked.
FairSpec ==
  /\ Spec /\ WF_vars(List)
  /\ \A c \in Cycles : WF_vars(Step(c))
  /\ \A m \in Matches : WF_vars(Crank(m)) /\ SF_vars(Cranked(m))

-----------------------------------------------------------------------------
\* "Its worklist is the projection": a match whose creation is behind the cursor and
\* that still owes something is one the settler finds, whatever crashed, overlapped
\* or failed, unless one of its own events was given up.
WorklistIsComplete ==
  \A i \in 1..stored :
    log[i].kind = "created" /\ ~Over(log[i].match) /\ log[i].match \notin missed =>
      rows[log[i].match] \in LIVE

\* "A re-read block cannot count a win twice": the ladder never counts more than the
\* results applied to it, which are of both players, of a card that settled and of a
\* pot that was decided.
LadderCountsOnce ==
  /\ \A w \in Wallets : ladder[w] <= Cardinality({m \in Matches : <<m, w>> \in rated})
  /\ \A m \in Matches : Claimed(m) =>
       /\ {"settled", "finalized"} \subseteq Told(m)
       /\ \A w \in PlayersOf[m] : <<m, w>> \in rated

\* What the tables say of a match that is over.
RowIsTrue(m) ==
  /\ rows[m] \in Told(m)
  /\ "settled" \in Told(m) => payouts[m] = "paid" /\ Claimed(m)

\* A duel both players paid for is opened or refunded, ended, and told as it ended
\* for good, whatever the restarts: the settler finds it because the projector does.
EveryDuelIsTold ==
  \A m \in Matches : "joined" \in Told(m) ~> [](Over(m) /\ RowIsTrue(m))

\* "Re-reading a block is harmless" (packages/db/src/games.ts:11): with the whole log
\* behind the cursor and no cycle under way, the tables tell how each match ended.
CaughtUpIsTrue ==
  stored = Len(log) /\ missed = {} /\ (\A c \in Cycles : cycle[c].pc = "idle") =>
    \A m \in Matches : Over(m) => RowIsTrue(m)

=============================================================================
