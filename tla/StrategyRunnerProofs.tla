------------------------ MODULE StrategyRunnerProofs ------------------------
(***************************************************************************)
(* What holds of the strategy runner for any strategies, owners, Windows,  *)
(* grants and faults.  That a Window is traded once is a fact about the    *)
(* reservations, whatever runs; that one order is in flight and that the   *)
(* rows are true are facts about the one process that holds the key.       *)
(***************************************************************************)
EXTENDS StrategyRunner, FiniteSetTheorems, TLAPS

States == Landed \cup {"none", "attempting", "unknown", "refused", "settled"}
TxStates == Landed \cup {"none", "pending", "settled"}
Row == [state: States, hash: BOOLEAN, nonce: Nat, side: Sides]
Decision == [gate: {"none", "pending", "trade", "held", "failed"}, side: Sides]
Listing == [key: Keys, hash: BOOLEAN, nonce: Nat]
Position == [opener: Strategies \cup {Own, Nobody}, from: SUBSET Strategies]

\* Where a process may be: between cycles, in one, or at a job of one.
Between == {"down", "idle", "list", "reconcile", "next"}
Sending == {"send", "answer", "await", "save"}
Jobbing == {"reserve"} \cup Sending
Cycling == Jobbing \cup {"settle", "scan", "model", "execute"}

Picks == {<<o, m, side>> : o \in Owners, m \in Markets, side \in Sides}

Process ==
  [pc: Between \cup Cycling, queue: SUBSET Strategies, todo: SUBSET Listing,
   unresolved: SUBSET Strategies, strategy: Strategies \cup {Nobody},
   accounts: SUBSET (Owners \X Markets), windows: SUBSET Markets,
   picks: SUBSET Picks, asked: Markets \cup {Nobody},
   job: [key: Keys \cup {Nobody}, side: Sides, nonce: Nat],
   fin: [state: States, hash: BOOLEAN], interrupted: SUBSET (Strategies \X Markets)]

StoreTypeOK ==
  /\ attempts \in [Keys -> Row] /\ decisions \in [Strategies \X Markets -> Decision]
  /\ sends \in [Keys -> Nat] /\ reads \in [Strategies \X Markets -> Nat]
ChainTypeOK ==
  /\ tx \in [Keys -> TxStates] /\ nonceOf \in [Keys -> Nat] /\ count \in Nat
  /\ held \in [Owners \X Markets -> [Sides -> Position]]
  /\ closed \subseteq Owners \X Markets /\ resolved \subseteq Markets
  /\ faults \in 0..MaxFaults
TypeOK == StoreTypeOK /\ ChainTypeOK /\ proc \in [Processes -> Process]

-----------------------------------------------------------------------------
(* One order a Window.                                                     *)

\* An agent's Window is traded on its stored verdict.
Called(s, m, side) == s \in Agents => decisions[<<s, m>>] = [gate |-> "trade", side |-> side]

\* What a process has in memory agrees with the store.
Agrees(r) ==
  /\ r.pc \in Cycling => r.strategy \in Strategies
  /\ r.pc = "model" => r.asked \in Markets
  /\ \A x \in r.picks : Called(r.strategy, x[2], x[3])
  /\ r.pc \in Jobbing =>
       /\ r.job.key \in Keys
       /\ r.job.key.kind = "order" => Called(r.job.key.strategy, r.job.key.market, r.job.side)
  /\ \A row \in r.todo : attempts[row.key].state # "none"
  /\ r.pc \in Sending => attempts[r.job.key].state # "none"
  /\ r.pc = "send" => sends[r.job.key] = 0
  /\ r.pc \in {"answer", "await"} => tx[r.job.key] # "none"
  /\ r.pc = "save" => r.fin.state # "none"

\* Two processes are never about to send under one reservation.
OneSender == \A p, q \in Processes :
  p # q /\ proc[p].pc = "send" /\ proc[q].pc = "send" => proc[p].job.key # proc[q].job.key

Reserved(k) == attempts[k].state # "none"

\* The books of what was sent and asked.
Counted ==
  /\ \A k \in Keys : sends[k] <= 1 /\ (sends[k] > 0 => Reserved(k))
  /\ \A d \in Strategies \X Markets : reads[d] <= 1 /\ (Unread(d) => reads[d] = 0)
  /\ \A k \in OrderKeys : Reserved(k) => Called(k.strategy, k.market, attempts[k].side)

OnceInv ==
  /\ TypeOK /\ OneSender /\ Counted
  /\ \A p \in Processes : Agrees(proc[p])

\* What no step takes back: a reservation and its side, a reading, a verdict.
Forward ==
  /\ \A k \in Keys : Reserved(k) => /\ Reserved(k)' /\ attempts'[k].side = attempts[k].side
                                    /\ attempts'[k].nonce = attempts[k].nonce
  /\ \A d \in Strategies \X Markets :
       /\ ~ Unread(d) => ~ Unread(d)'
       /\ decisions[d].gate = "trade" => decisions'[d] = decisions[d]

\* Nor is a broadcast taken back.
ChainMoves == ChainTypeOK' /\ \A k \in Keys : tx[k] # "none" => tx'[k] # "none"

LEMMA CalledStays ==
  ASSUME RunnerAssumption, Forward, NEW s, NEW m \in Markets, NEW side, Called(s, m, side)
  PROVE  Called(s, m, side)'
<1> SUFFICES ASSUME s \in Agents PROVE decisions'[<<s, m>>] = [gate |-> "trade", side |-> side]
  BY DEF Called
<1>1. PICK d \in Strategies \X Markets : d = <<s, m>>
  BY DEF RunnerAssumption
<1>2. decisions[d] = [gate |-> "trade", side |-> side]
  BY <1>1 DEF Called
<1>3. decisions'[d] = decisions[d]
  BY <1>2 DEF Forward
<1> QED
  BY <1>1, <1>2, <1>3

LEMMA PickFields ==
  ASSUME NEW x \in Picks
  PROVE  x[1] \in Owners /\ x[2] \in Markets /\ x[3] \in Sides /\ x = <<x[1], x[2], x[3]>>
BY DEF Picks

LEMMA KeyFields ==
  ASSUME NEW k \in Keys
  PROVE  k.kind \in {"order", "settle"} /\ k.strategy \in Strategies /\ k.owner \in Owners
         /\ k.market \in Markets
BY DEF Keys

(* What a process has in memory keeps agreeing with the store.             *)
LEMMA AgreesStays ==
  ASSUME RunnerAssumption, Forward, ChainMoves, NEW r \in Process, Agrees(r),
         r.pc = "send" => sends'[r.job.key] = sends[r.job.key]
  PROVE  Agrees(r)'
<1>1. r.picks \in SUBSET Picks
  BY DEF Process
<1>2. ASSUME NEW x \in r.picks PROVE Called(r.strategy, x[2], x[3])'
  <2>1. x[2] \in Markets /\ Called(r.strategy, x[2], x[3])
    BY <1>1, PickFields DEF Agrees
  <2> QED
    BY <2>1, CalledStays DEF Called
<1>3. ASSUME r.pc \in Jobbing
      PROVE  /\ r.job.key \in Keys
             /\ r.job.key.kind = "order" => Called(r.job.key.strategy, r.job.key.market, r.job.side)'
  <2>1. /\ r.job.key \in Keys
        /\ r.job.key.kind = "order" => Called(r.job.key.strategy, r.job.key.market, r.job.side)
    BY <1>3 DEF Agrees
  <2>2. r.job.key.market \in Markets
    BY <2>1, KeyFields
  <2> QED
    BY <2>1, <2>2, CalledStays DEF Called
<1>4. /\ r.pc \in Sending => attempts'[r.job.key].state # "none"
      /\ r.pc = "send" => sends'[r.job.key] = 0
      /\ r.pc \in {"answer", "await"} => tx'[r.job.key] # "none"
  BY DEF Agrees, Forward, Reserved, Jobbing, Sending, ChainMoves
<1>5. ASSUME NEW row \in r.todo PROVE attempts'[row.key].state # "none"
  <2>1. row.key \in Keys
    BY <1>5 DEF Process, Listing
  <2> QED
    BY <1>5, <2>1 DEF Agrees, Forward, Reserved
<1> QED
  BY <1>2, <1>3, <1>4, <1>5 DEF Agrees, Called

(* One process moves on to r.                                              *)
LEMMA OnceMoves ==
  ASSUME RunnerAssumption, OnceInv, NEW p \in Processes, NEW r \in Process,
         proc' = [proc EXCEPT ![p] = r], Agrees(r)',
         StoreTypeOK', ChainMoves, Counted', Forward,
         \A q \in Processes : q # p /\ proc[q].pc = "send" =>
           /\ sends'[proc[q].job.key] = sends[proc[q].job.key]
           /\ r.pc = "send" => proc[q].job.key # r.job.key
  PROVE  OnceInv'
<1>1. /\ proc \in [Processes -> Process] /\ OneSender
      /\ \A q \in Processes : Agrees(proc[q])
  BY DEF OnceInv, TypeOK
<1>2. /\ proc' \in [Processes -> Process] /\ proc'[p] = r
      /\ \A q \in Processes : q # p => proc'[q] = proc[q]
  BY <1>1
<1>3. OneSender'
  <2> SUFFICES ASSUME NEW a \in Processes, NEW b \in Processes, a # b,
                      proc'[a].pc = "send", proc'[b].pc = "send"
               PROVE  proc'[a].job.key # proc'[b].job.key
    BY DEF OneSender
  <2> QED
    BY <1>1, <1>2 DEF OneSender
<1>4. ASSUME NEW q \in Processes PROVE Agrees(proc[q])'
  <2>1. CASE q = p
    BY <1>2, <2>1 DEF Agrees, Called
  <2>2. CASE q # p
    <3>1. PICK s \in Process : s = proc[q] /\ s = proc'[q]
      BY <1>1, <1>2, <2>2
    <3>2. Agrees(s)'
      BY <1>1, <2>2, <3>1, AgreesStays
    <3> QED
      BY <3>1, <3>2 DEF Agrees, Called
  <2> QED
    BY <2>1, <2>2
<1> QED
  BY <1>2, <1>3, <1>4 DEF OnceInv, TypeOK, ChainMoves

(* A step that leaves the store and the sends alone.                       *)
LEMMA OnceMovesAlone ==
  ASSUME RunnerAssumption, OnceInv, NEW p \in Processes, NEW r \in Process,
         proc' = [proc EXCEPT ![p] = r], Agrees(r), r.pc # "send",
         ChainMoves, UNCHANGED <<attempts, decisions, sends, reads>>
  PROVE  OnceInv'
<1>1. StoreTypeOK' /\ Counted' /\ Forward
  BY DEF OnceInv, TypeOK, StoreTypeOK, Counted, Forward, Reserved, Unread, Called
<1>2. Agrees(r)'
  BY <1>1, AgreesStays
<1> QED
  BY <1>1, <1>2, OnceMoves

(* A step of the world outside.                                            *)
LEMMA OnceStays ==
  ASSUME RunnerAssumption, OnceInv, UNCHANGED <<attempts, decisions, sends, reads, proc>>,
         ChainMoves
  PROVE  OnceInv'
<1>1. StoreTypeOK' /\ Counted' /\ Forward /\ OneSender'
  BY DEF OnceInv, TypeOK, StoreTypeOK, Counted, Forward, Reserved, Unread, Called, OneSender
<1>2. ASSUME NEW q \in Processes PROVE Agrees(proc[q])'
  <2>1. PICK s \in Process : s = proc[q] /\ Agrees(s)
    BY DEF OnceInv, TypeOK
  <2>2. Agrees(s)'
    BY <1>1, <2>1, AgreesStays
  <2> QED
    BY <2>1, <2>2 DEF Agrees, Called
<1> QED
  BY <1>1, <1>2 DEF OnceInv, TypeOK, ChainMoves

LEMMA ProcessFields ==
  ASSUME NEW r \in Process
  PROVE  /\ r.pc \in Between \cup Cycling /\ r.queue \subseteq Strategies
         /\ r.todo \subseteq Listing /\ r.unresolved \subseteq Strategies
         /\ r.strategy \in Strategies \cup {Nobody} /\ r.accounts \subseteq Owners \X Markets
         /\ r.windows \subseteq Markets /\ r.picks \subseteq Picks
         /\ r.asked \in Markets \cup {Nobody}
         /\ r.job.key \in Keys \cup {Nobody} /\ r.job.side \in Sides /\ r.job.nonce \in Nat
         /\ r.job \in [key: Keys \cup {Nobody}, side: Sides, nonce: Nat]
         /\ r.fin.state \in States /\ r.fin.hash \in BOOLEAN
         /\ r.fin \in [state: States, hash: BOOLEAN]
         /\ r.interrupted \subseteq Strategies \X Markets
BY DEF Process

LEMMA IdleTyped ==
  /\ Idle \in Process /\ Idle.pc = "idle" /\ Idle.picks = {} /\ Idle.todo = {}
  /\ Idle.job \in [key: Keys \cup {Nobody}, side: Sides, nonce: Nat]
  /\ Idle.fin \in [state: States, hash: BOOLEAN]
BY DEF Idle, Process, Between, Sides, States

(* Between cycles a process has nothing to agree on.                       *)
LEMMA RestAgrees ==
  ASSUME NEW r \in Process, r.pc \in Between, r.picks = {}, r.todo = {}
  PROVE  Agrees(r) /\ r.pc # "send"
BY DEF Agrees, Between, Cycling, Jobbing, Sending

(* Where an exception, an end and an unknown attempt leave a cycle.        *)
LEMMA Rests ==
  ASSUME NEW q \in Process
  PROVE  /\ Thrown(q) \in Process /\ Thrown(q).pc = "list" /\ Thrown(q).picks = {} /\ Thrown(q).todo = {}
         /\ Thrown(q).queue = q.queue
         /\ After(q) \in Process /\ After(q).pc = "next" /\ After(q).picks = {} /\ After(q).todo = {}
         /\ After(q).queue = q.queue
         /\ q.strategy \in Strategies =>
              /\ Left(q) \in Process /\ Left(q).pc = "next" /\ Left(q).picks = {} /\ Left(q).todo = {}
              /\ Left(q).unresolved = {q.strategy}
<1>1. q.queue \subseteq Strategies
  BY ProcessFields
<1>2. "list" \in Between /\ "next" \in Between
  BY DEF Between
<1>3. Thrown(q) \in Process /\ Thrown(q).pc = "list" /\ Thrown(q).picks = {} /\ Thrown(q).todo = {} /\ Thrown(q).queue = q.queue
  BY <1>1, <1>2, IdleTyped DEF Thrown, Process
<1>4. After(q) \in Process /\ After(q).pc = "next" /\ After(q).picks = {} /\ After(q).todo = {} /\ After(q).queue = q.queue
  BY <1>1, <1>2, IdleTyped DEF After, Process
<1>5. q.strategy \in Strategies =>
        /\ Left(q) \in Process /\ Left(q).pc = "next" /\ Left(q).picks = {} /\ Left(q).todo = {}
        /\ Left(q).unresolved = {q.strategy}
  <2>1. PICK a \in Process : a = After(q) /\ a.pc = "next" /\ a.picks = {} /\ a.todo = {}
    BY <1>4
  <2>2. Left(q) = [a EXCEPT !.unresolved = {q.strategy}]
    BY <2>1 DEF Left
  <2> QED
    BY <2>1, <2>2 DEF Process
<1> QED
  BY <1>3, <1>4, <1>5

-----------------------------------------------------------------------------
(* The steps that leave the store alone.                                   *)

LEMMA ExceptionKeepsOnce ==
  ASSUME RunnerAssumption, OnceInv, NEW p \in Processes, Throw(p), ChainMoves,
         UNCHANGED <<attempts, decisions, sends, reads>>
  PROVE  OnceInv'
<1>1. PICK q \in Process : q = proc[p]
  BY DEF OnceInv, TypeOK
<1>2. PICK r \in Process : r = Thrown(q) /\ r.pc = "list" /\ r.picks = {} /\ r.todo = {}
  BY Rests
<1>3. proc' = [proc EXCEPT ![p] = r]
  BY <1>1, <1>2 DEF Throw
<1>4. Agrees(r) /\ r.pc # "send"
  BY <1>2, RestAgrees DEF Between
<1> QED
  BY <1>3, <1>4, OnceMovesAlone

LEMMA RecoveryKeepsOnce ==
  ASSUME RunnerAssumption, OnceInv, NEW p \in Processes, ChainMoves,
         UNCHANGED <<attempts, decisions, sends, reads>>,
         Boot(p) \/ Crash(p) \/ List(p) \/ Reconciled(p) \/ EndTick(p)
  PROVE  OnceInv'
<1>1. PICK q \in Process : q = proc[p] /\ Agrees(q)
  BY DEF OnceInv, TypeOK
<1>2. /\ attempts \in [Keys -> Row] /\ decisions \in [Strategies \X Markets -> Decision]
  BY DEF OnceInv, TypeOK, StoreTypeOK
<1>3. \A x \in Between : x \in Between \cup Cycling
  OBVIOUS
<1>4. ASSUME NEW r \in Process, r.pc \in Between, r.picks = {}, r.todo = {}, proc' = [proc EXCEPT ![p] = r]
      PROVE  OnceInv'
  BY <1>4, RestAgrees, OnceMovesAlone
<1>5. CASE Boot(p)
  <2>1. PICK i : i = {d \in DOMAIN decisions : decisions[d].gate = "pending"}
    OBVIOUS
  <2>2. PICK r : r = [Idle EXCEPT !.interrupted = i]
    OBVIOUS
  <2>3. r \in Process /\ r.pc \in Between /\ r.picks = {} /\ r.todo = {}
    BY <1>2, <2>1, <2>2, IdleTyped DEF Process, Between
  <2>4. proc' = [proc EXCEPT ![p] = r]
    BY <1>5, <2>1, <2>2 DEF Boot
  <2> QED
    BY <1>4, <2>3, <2>4
<1>6. CASE Crash(p)
  <2>1. PICK r : r = [Idle EXCEPT !.pc = "down"]
    OBVIOUS
  <2>2. r \in Process /\ r.pc \in Between /\ r.picks = {} /\ r.todo = {}
    BY <2>1, IdleTyped DEF Process, Between
  <2>3. proc' = [proc EXCEPT ![p] = r]
    BY <1>6, <2>1 DEF Crash
  <2> QED
    BY <1>4, <2>2, <2>3
<1>7. CASE proc' = [proc EXCEPT ![p] = Idle]
  BY <1>4, <1>7, IdleTyped DEF Between
<1>8. CASE List(p) /\ proc' = [proc EXCEPT ![p].pc = "reconcile", ![p].todo = Listed]
  <2>1. PICK r : r = [q EXCEPT !.pc = "reconcile", !.todo = Listed]
    OBVIOUS
  <2>2. Listed \subseteq Listing
    BY <1>2 DEF Listed, Listing, Unresolved, Row
  <2>3. r \in Process /\ r.pc = "reconcile" /\ r.picks = q.picks /\ r.todo = Listed /\ r.strategy = q.strategy
    BY <2>1, <2>2 DEF Process, Between
  <2>4. \A row \in Listed : attempts[row.key].state # "none"
    BY DEF Listed, Unresolved, Uncertain
  <2>5. Agrees(r) /\ r.pc # "send"
    BY <1>1, <2>3, <2>4 DEF Agrees, Cycling, Jobbing, Sending
  <2>6. proc' = [proc EXCEPT ![p] = r]
    BY <1>1, <1>8, <2>1 DEF OnceInv, TypeOK
  <2> QED
    BY <2>3, <2>5, <2>6, OnceMovesAlone
<1>9. CASE Reconciled(p)
  <2>1. PICK r : r = [q EXCEPT !.pc = "next"]
    OBVIOUS
  <2>2. r \in Process /\ r.pc = "next" /\ r.picks = q.picks /\ r.todo = q.todo /\ r.strategy = q.strategy
    BY <2>1 DEF Process, Between
  <2>3. Agrees(r) /\ r.pc # "send"
    BY <1>1, <2>2 DEF Agrees, Cycling, Jobbing, Sending
  <2>4. proc' = [proc EXCEPT ![p] = r]
    BY <1>1, <1>9, <2>1 DEF Reconciled, OnceInv, TypeOK
  <2> QED
    BY <2>2, <2>3, <2>4, OnceMovesAlone
<1> QED
  BY <1>5, <1>6, <1>7, <1>8, <1>9 DEF List, EndTick

(* What a reservation is asked for.                                        *)
LEMMA ReservingFields ==
  ASSUME NEW q \in Process, NEW key \in Keys, NEW side \in Sides, count \in Nat
  PROVE  /\ Reserving(q, key, side) \in Process
         /\ Reserving(q, key, side).pc = "reserve" /\ Reserving(q, key, side).strategy = q.strategy
         /\ Reserving(q, key, side).picks = q.picks /\ Reserving(q, key, side).todo = q.todo
         /\ Reserving(q, key, side).job = [key |-> key, side |-> side, nonce |-> count]
<1>1. PICK j : j = [key |-> key, side |-> side, nonce |-> count]
  OBVIOUS
<1>2. j \in [key: Keys \cup {Nobody}, side: Sides, nonce: Nat]
  BY <1>1
<1>3. PICK r : r = Reserving(q, key, side)
  OBVIOUS
<1>4. r = [q EXCEPT !.pc = "reserve", !.job = j]
  BY <1>1, <1>3 DEF Reserving
<1>5. /\ r \in Process /\ r.pc = "reserve" /\ r.strategy = q.strategy
      /\ r.picks = q.picks /\ r.todo = q.todo /\ r.job = j
  BY <1>2, <1>4 DEF Process, Cycling, Jobbing
<1> QED
  BY <1>1, <1>3, <1>5

LEMMA KeyOfFields ==
  ASSUME NEW kind \in {"order", "settle"}, NEW s \in Strategies, NEW o \in Owners, NEW m \in Markets
  PROVE  /\ KeyOf(kind, s, o, m) \in Keys
         /\ KeyOf(kind, s, o, m).kind = kind /\ KeyOf(kind, s, o, m).strategy = s
         /\ KeyOf(kind, s, o, m).owner = o /\ KeyOf(kind, s, o, m).market = m
BY DEF KeyOf, Keys

(* The fills of order rows: an origin is a strategy.                       *)
LEMMA OriginsTyped ==
  ASSUME NEW a, NEW s \in Origins(a)
  PROVE  s \in Strategies
<1>1. PICK side, k : k \in Matching(a, side) /\ s = k.strategy
  BY DEF Origins
<1>2. k \in Keys
  BY <1>1 DEF Matching, OrderKeys
<1> QED
  BY <1>1, <1>2, KeyFields

(* A cycle begins, and settles what the strategies opened.                 *)
LEMMA SettlingKeepsOnce ==
  ASSUME RunnerAssumption, OnceInv, NEW p \in Processes, ChainMoves,
         UNCHANGED <<attempts, decisions, sends, reads>>,
         \/ \E s \in Strategies : StartCycle(p, s)
         \/ \E a \in Owners \X Markets : SettleRead(p, a)
         \/ \E windows \in SUBSET Markets : Settled(p, windows)
  PROVE  OnceInv'
<1>1. PICK q \in Process : q = proc[p] /\ Agrees(q)
  BY DEF OnceInv, TypeOK
<1>2. count \in Nat /\ proc \in [Processes -> Process]
  BY DEF OnceInv, TypeOK, ChainTypeOK
<1>3. ASSUME NEW s \in Strategies, StartCycle(p, s) PROVE OnceInv'
  <2>1. PICK r : r = [Idle EXCEPT !.pc = "settle", !.strategy = s,
                        !.queue = q.queue \ {s}, !.accounts = Owners \X Markets]
    OBVIOUS
  <2>2. q.queue \ {s} \subseteq Strategies
    BY ProcessFields
  <2>3. r \in Process /\ r.pc = "settle" /\ r.picks = {} /\ r.todo = {} /\ r.strategy = s
    BY <2>1, <2>2, IdleTyped DEF Process, Cycling
  <2>4. Agrees(r) /\ r.pc # "send"
    BY <2>3 DEF Agrees, Cycling, Jobbing, Sending
  <2>5. proc' = [proc EXCEPT ![p] = r]
    BY <1>1, <1>3, <2>1 DEF StartCycle
  <2> QED
    BY <2>3, <2>4, <2>5, OnceMovesAlone
<1>4. ASSUME NEW a \in Owners \X Markets, SettleRead(p, a) PROVE OnceInv'
  <2>1. q.pc = "settle" /\ q.strategy \in Strategies /\ q.accounts \subseteq Owners \X Markets
    BY <1>1, <1>4, ProcessFields DEF SettleRead, At, Agrees, Cycling
  <2>2. CASE proc' = [proc EXCEPT ![p].accounts = @ \ {a}]
    <3>1. PICK r : r = [q EXCEPT !.accounts = q.accounts \ {a}]
      OBVIOUS
    <3>2. r \in Process /\ r.pc = "settle" /\ r.picks = q.picks /\ r.todo = q.todo /\ r.strategy = q.strategy
      BY <2>1, <3>1 DEF Process
    <3>3. Agrees(r) /\ r.pc # "send"
      BY <1>1, <2>1, <3>2 DEF Agrees, Cycling, Jobbing, Sending
    <3>4. proc' = [proc EXCEPT ![p] = r]
      BY <1>1, <1>2, <2>2, <3>1
    <3> QED
      BY <3>2, <3>3, <3>4, OnceMovesAlone
  <2>3. CASE Throw(p)
    BY <2>3, ExceptionKeepsOnce
  <2>4. ASSUME NEW s \in Origins(a), NEW key, key = KeyOf("settle", s, a[1], a[2]),
               proc' = [proc EXCEPT ![p] = Reserving(@, key, "up")]
        PROVE  OnceInv'
    <3>1. key \in Keys /\ key.kind = "settle"
      BY <2>4, OriginsTyped, KeyOfFields
    <3>2. PICK r \in Process :
            /\ r = Reserving(q, key, "up") /\ r.pc = "reserve" /\ r.strategy = q.strategy
            /\ r.picks = q.picks /\ r.todo = q.todo /\ r.job = [key |-> key, side |-> "up", nonce |-> count]
      BY <1>2, <3>1, ReservingFields DEF Sides
    <3>3. Agrees(r) /\ r.pc # "send"
      BY <1>1, <2>1, <3>1, <3>2 DEF Agrees, Cycling, Jobbing, Sending
    <3>4. proc' = [proc EXCEPT ![p] = r]
      BY <1>1, <1>2, <2>4, <3>2
    <3> QED
      BY <3>3, <3>4, OnceMovesAlone
  <2> QED
    BY <1>4, <2>2, <2>3, <2>4 DEF SettleRead
<1>5. ASSUME NEW windows \in SUBSET Markets, Settled(p, windows) PROVE OnceInv'
  <2>1. PICK r : r = [q EXCEPT !.pc = "scan", !.windows = windows]
    OBVIOUS
  <2>2. r \in Process /\ r.pc = "scan" /\ r.picks = q.picks /\ r.todo = q.todo /\ r.strategy = q.strategy
    BY <2>1 DEF Process, Cycling
  <2>3. Agrees(r) /\ r.pc # "send"
    BY <1>1, <1>5, <2>2 DEF Agrees, Cycling, Jobbing, Sending, Settled, At
  <2>4. proc' = [proc EXCEPT ![p] = r]
    BY <1>1, <1>2, <1>5, <2>1 DEF Settled
  <2> QED
    BY <2>2, <2>3, <2>4, OnceMovesAlone
<1> QED
  BY <1>3, <1>4, <1>5

(* A Window is picked for every owner, on the side that was called.        *)
LEMMA PickedFields ==
  ASSUME RunnerAssumption, NEW q \in Process, Agrees(q), q.strategy \in Strategies,
         NEW m \in Markets, NEW side,
         side \in Sides => Called(q.strategy, m, side)
  PROVE  /\ Picked(q, m, side) \in Process /\ Picked(q, m, side).pc = "scan"
         /\ Agrees(Picked(q, m, side))
         /\ Picked(q, m, side).strategy = q.strategy
         /\ Picked(q, m, side).queue = q.queue
<1>1. PICK x : x = IF side \in Sides THEN q.picks \cup {<<o, m, side>> : o \in Owners} ELSE q.picks
  OBVIOUS
<1>2. q.picks \subseteq Picks /\ q.windows \ {m} \subseteq Markets
  BY ProcessFields
<1>3. side \in Sides => {<<o, m, side>> : o \in Owners} \subseteq Picks
  BY DEF Picks
<1>4. x \subseteq Picks
  BY <1>1, <1>2, <1>3
<1>5. PICK r : r = Picked(q, m, side)
  OBVIOUS
<1>6. r = [q EXCEPT !.pc = "scan", !.windows = q.windows \ {m}, !.asked = Nobody, !.picks = x]
  BY <1>1, <1>5 DEF Picked
<1>7. /\ r \in Process /\ r.pc = "scan" /\ r.strategy = q.strategy /\ r.picks = x
      /\ r.todo = q.todo
      /\ r.queue = q.queue
  BY <1>2, <1>4, <1>6 DEF Process, Cycling
<1>8. ASSUME NEW y \in x PROVE Called(q.strategy, y[2], y[3])
  <2>1. CASE y \in q.picks
    BY <2>1 DEF Agrees
  <2>2. CASE side \in Sides /\ \E o \in Owners : y = <<o, m, side>>
    BY <2>2
  <2> QED
    BY <1>1, <1>8, <2>1, <2>2
<1>9. Agrees(r)
  BY <1>7, <1>8 DEF Agrees, Jobbing, Sending
<1> QED
  BY <1>5, <1>7, <1>9

(* The scan, when no model is asked.                                       *)
LEMMA ScanKeepsOnce ==
  ASSUME RunnerAssumption, OnceInv, NEW p \in Processes, ChainMoves,
         UNCHANGED <<attempts, decisions, sends, reads>>,
         \/ \E m \in Markets : \/ \E side \in Sides \cup {Nobody} : Follow(p, m, side)
                               \/ Recall(p, m)
         \/ Scanned(p) \/ Executed(p)
  PROVE  OnceInv'
<1>1. PICK q \in Process : q = proc[p] /\ Agrees(q)
  BY DEF OnceInv, TypeOK
<1>2. proc \in [Processes -> Process] /\ decisions \in [Strategies \X Markets -> Decision]
  BY DEF OnceInv, TypeOK, StoreTypeOK
<1>3. ASSUME NEW m \in Markets, NEW side, side \in Sides => Called(q.strategy, m, side),
             q.strategy \in Strategies, proc' = [proc EXCEPT ![p] = Picked(q, m, side)]
      PROVE  OnceInv'
  <2>1. PICK r \in Process : r = Picked(q, m, side) /\ r.pc = "scan" /\ Agrees(r)
    BY <1>1, <1>3, PickedFields
  <2> QED
    BY <1>3, <2>1, OnceMovesAlone
<1>4. ASSUME NEW m \in Markets, NEW side \in Sides \cup {Nobody}, Follow(p, m, side) PROVE OnceInv'
  <2>1. /\ q.pc = "scan" /\ (side \in Sides => q.strategy \notin Agents)
        /\ proc' = [proc EXCEPT ![p] = Picked(q, m, side)]
    BY <1>1, <1>4 DEF Follow, At
  <2>2. q.strategy \in Strategies
    BY <1>1, <2>1 DEF Agrees, Cycling
  <2> QED
    BY <1>3, <2>1, <2>2 DEF Called
<1>5. ASSUME NEW m \in Markets, Recall(p, m) PROVE OnceInv'
  <2>1. q.pc = "scan"
    BY <1>1, <1>5 DEF Recall, At
  <2>2. q.strategy \in Strategies
    BY <1>1, <2>1 DEF Agrees, Cycling
  <2>3. PICK d \in Decision : d = decisions[<<q.strategy, m>>]
    BY <1>2, <2>2
  <2>4. d.gate = "trade" /\ proc' = [proc EXCEPT ![p] = Picked(q, m, d.side)]
    BY <1>1, <1>5, <2>3 DEF Recall
  <2>5. Called(q.strategy, m, d.side)
    BY <2>3, <2>4 DEF Called, Decision
  <2> QED
    BY <1>3, <2>2, <2>4, <2>5
<1>6. CASE Scanned(p)
  <2>1. PICK r : r = [q EXCEPT !.pc = "execute"]
    OBVIOUS
  <2>2. r \in Process /\ r.pc = "execute" /\ r.picks = q.picks /\ r.todo = q.todo /\ r.strategy = q.strategy
    BY <2>1 DEF Process, Cycling
  <2>3. Agrees(r) /\ r.pc # "send"
    BY <1>1, <1>6, <2>2 DEF Agrees, Cycling, Jobbing, Sending, Scanned, At
  <2>4. proc' = [proc EXCEPT ![p] = r]
    BY <1>1, <1>2, <1>6, <2>1 DEF Scanned
  <2> QED
    BY <2>2, <2>3, <2>4, OnceMovesAlone
<1>7. CASE Executed(p)
  <2>1. PICK r \in Process : r = After(q) /\ r.pc = "next" /\ r.picks = {} /\ r.todo = {}
    BY Rests
  <2>2. Agrees(r) /\ r.pc # "send"
    BY <2>1, RestAgrees DEF Between
  <2>3. proc' = [proc EXCEPT ![p] = r]
    BY <1>1, <1>7, <2>1 DEF Executed
  <2> QED
    BY <2>2, <2>3, OnceMovesAlone
<1> QED
  BY <1>4, <1>5, <1>6, <1>7

(* Before an order: what the store and the chain say of the Window.        *)
LEMMA OrderReadKeepsOnce ==
  ASSUME RunnerAssumption, OnceInv, NEW p \in Processes, ChainMoves,
         UNCHANGED <<attempts, decisions, sends, reads>>,
         NEW o \in Owners, NEW m \in Markets, NEW side \in Sides, OrderRead(p, o, m, side)
  PROVE  OnceInv'
<1>1. PICK q \in Process : q = proc[p] /\ Agrees(q)
  BY DEF OnceInv, TypeOK
<1>2. proc \in [Processes -> Process] /\ count \in Nat
  BY DEF OnceInv, TypeOK, ChainTypeOK
<1>3. q.pc = "execute" /\ q.picks \subseteq Picks /\ <<o, m, side>> \in q.picks
  BY <1>1, ProcessFields DEF OrderRead, At
<1>4. q.strategy \in Strategies /\ Called(q.strategy, m, side)
  BY <1>1, <1>3 DEF Agrees, Cycling
<1>5. PICK key \in Keys : /\ key = KeyOf("order", q.strategy, o, m) /\ key.kind = "order"
                          /\ key.strategy = q.strategy /\ key.market = m
  BY <1>4, KeyOfFields
<1>6. CASE proc' = [proc EXCEPT ![p] = Left(@)]
  <2>1. PICK r \in Process : r = Left(q) /\ r.pc = "next" /\ r.picks = {} /\ r.todo = {}
    BY <1>4, Rests
  <2>2. Agrees(r) /\ r.pc # "send"
    BY <2>1, RestAgrees DEF Between
  <2>3. proc' = [proc EXCEPT ![p] = r]
    BY <1>1, <1>6, <2>1
  <2> QED
    BY <2>2, <2>3, OnceMovesAlone
<1>7. CASE Throw(p)
  BY <1>7, ExceptionKeepsOnce
<1>8. CASE proc' = [proc EXCEPT ![p].picks = @ \ {<<o, m, side>>}]
  <2>1. PICK r : r = [q EXCEPT !.picks = q.picks \ {<<o, m, side>>}]
    OBVIOUS
  <2>2. /\ r \in Process /\ r.pc = "execute" /\ r.picks \subseteq q.picks /\ r.todo = q.todo
        /\ r.strategy = q.strategy
    BY <1>3, <2>1 DEF Process
  <2>3. Agrees(r) /\ r.pc # "send"
    BY <1>1, <1>4, <2>2 DEF Agrees, Jobbing, Sending
  <2>4. proc' = [proc EXCEPT ![p] = r]
    BY <1>1, <1>2, <1>8, <2>1
  <2> QED
    BY <2>2, <2>3, <2>4, OnceMovesAlone
<1>9. CASE proc' = [proc EXCEPT ![p] = Reserving(@, key, side)]
  <2>1. PICK r \in Process :
          /\ r = Reserving(q, key, side) /\ r.pc = "reserve" /\ r.strategy = q.strategy
          /\ r.picks = q.picks /\ r.todo = q.todo /\ r.job = [key |-> key, side |-> side, nonce |-> count]
    BY <1>2, ReservingFields
  <2>2. Agrees(r) /\ r.pc # "send"
    BY <1>1, <1>4, <1>5, <2>1 DEF Agrees, Cycling, Jobbing, Sending
  <2>3. proc' = [proc EXCEPT ![p] = r]
    BY <1>1, <1>9, <2>1
  <2> QED
    BY <2>2, <2>3, OnceMovesAlone
<1> QED
  BY <1>1, <1>5, <1>6, <1>7, <1>8, <1>9 DEF OrderRead

-----------------------------------------------------------------------------
(* The steps that write to the store.                                      *)

(* Verdicts that are written: a reading is recorded once, and stays.       *)
LEMMA DecisionsMove ==
  ASSUME OnceInv, UNCHANGED <<attempts, sends>>,
         decisions' \in [Strategies \X Markets -> Decision],
         reads' \in [Strategies \X Markets -> Nat],
         \A d \in Strategies \X Markets :
           /\ ~ Unread(d) => decisions'[d].gate # "none"
           /\ decisions[d].gate = "trade" => decisions'[d] = decisions[d]
           /\ reads'[d] <= 1 /\ (decisions'[d].gate = "none" => reads'[d] = 0)
  PROVE  StoreTypeOK' /\ Counted' /\ Forward
<1>1. StoreTypeOK /\ Counted
  BY DEF OnceInv, TypeOK
<1>2. StoreTypeOK' /\ Forward
  BY <1>1 DEF StoreTypeOK, Forward, Unread, Reserved
<1>3. ASSUME NEW k \in OrderKeys, Reserved(k)', k.strategy \in Agents
      PROVE  decisions'[<<k.strategy, k.market>>] = [gate |-> "trade", side |-> attempts'[k].side]
  <2>1. k.strategy \in Strategies /\ k.market \in Markets
    BY KeyFields DEF OrderKeys
  <2>2. PICK d \in Strategies \X Markets : d = <<k.strategy, k.market>>
    BY <2>1
  <2>3. decisions[d] = [gate |-> "trade", side |-> attempts[k].side]
    BY <1>1, <1>3, <2>2 DEF Counted, Called, Reserved
  <2> QED
    BY <2>2, <2>3
<1> QED
  BY <1>1, <1>2, <1>3 DEF Counted, Called, Reserved, Unread

(* The first tick fails what a dead process left pending.                  *)
LEMMA TickKeepsOnce ==
  ASSUME RunnerAssumption, OnceInv, NEW p \in Processes, Tick(p), ChainMoves
  PROVE  OnceInv'
<1>1. /\ StoreTypeOK /\ Counted /\ decisions \in [Strategies \X Markets -> Decision]
      /\ reads \in [Strategies \X Markets -> Nat]
  BY DEF OnceInv, TypeOK, StoreTypeOK
<1>2. /\ UNCHANGED <<attempts, sends, reads>>
      /\ \A d \in Strategies \X Markets :
           decisions'[d] = IF d \in proc[p].interrupted /\ decisions[d].gate = "pending"
                           THEN [decisions[d] EXCEPT !.gate = "failed"] ELSE decisions[d]
      /\ decisions' = [d \in Strategies \X Markets |-> decisions'[d]]
  BY <1>1 DEF Tick, txVars
<1>3. ASSUME NEW d \in Strategies \X Markets
      PROVE  /\ decisions'[d] \in Decision
             /\ ~ Unread(d) => decisions'[d].gate # "none"
             /\ decisions[d].gate = "trade" => decisions'[d] = decisions[d]
             /\ reads'[d] <= 1 /\ (decisions'[d].gate = "none" => reads'[d] = 0)
  <2>1. PICK r \in Decision : r = decisions[d]
    BY <1>1
  <2>2. PICK x : x = [r EXCEPT !.gate = "failed"]
    OBVIOUS
  <2>3. x \in Decision /\ x.gate = "failed"
    BY <2>2 DEF Decision
  <2>4. reads[d] <= 1 /\ (r.gate = "none" => reads[d] = 0)
    BY <1>1, <2>1 DEF Counted, Unread
  <2>5. decisions'[d] = r \/ (r.gate = "pending" /\ decisions'[d] = x)
    BY <1>2, <2>1, <2>2
  <2> QED
    BY <1>2, <2>1, <2>3, <2>4, <2>5 DEF Unread
<1>4. StoreTypeOK' /\ Counted' /\ Forward
  <2>1. decisions' \in [Strategies \X Markets -> Decision]
    BY <1>2, <1>3
  <2> QED
    BY <1>1, <1>2, <1>3, <2>1, DecisionsMove
<1>5. PICK r : r = [Idle EXCEPT !.pc = "list", !.queue = Strategies]
  OBVIOUS
<1>6. r \in Process /\ r.pc = "list" /\ r.picks = {} /\ r.todo = {}
  BY <1>5, IdleTyped DEF Process, Between
<1>7. Agrees(r) /\ r.pc # "send"
  BY <1>6, RestAgrees DEF Between
<1>8. Agrees(r)'
  BY <1>4, <1>6, <1>7, AgreesStays
<1>9. proc' = [proc EXCEPT ![p] = r]
  BY <1>5 DEF Tick
<1> QED
  BY <1>2, <1>4, <1>6, <1>7, <1>8, <1>9, OnceMoves

(* An agent's Window is read once.                                         *)
LEMMA AskKeepsOnce ==
  ASSUME RunnerAssumption, OnceInv, NEW p \in Processes, NEW m \in Markets, AskModel(p, m),
         ChainMoves
  PROVE  OnceInv'
<1>1. /\ StoreTypeOK /\ Counted /\ decisions \in [Strategies \X Markets -> Decision]
      /\ reads \in [Strategies \X Markets -> Nat] /\ proc \in [Processes -> Process]
  BY DEF OnceInv, TypeOK, StoreTypeOK
<1>2. PICK q \in Process : q = proc[p] /\ Agrees(q)
  BY DEF OnceInv, TypeOK
<1>3. q.pc = "scan" /\ UNCHANGED <<attempts, sends>>
  BY <1>2 DEF AskModel, At, txVars
<1>4. q.strategy \in Strategies
  BY <1>2, <1>3 DEF Agrees, Cycling
<1>5. PICK d \in Strategies \X Markets : d = <<q.strategy, m>>
  BY <1>4
<1>6. /\ decisions[d].gate = "none"
      /\ decisions' = [decisions EXCEPT ![d].gate = "pending"]
      /\ reads' = [reads EXCEPT ![d] = @ + 1]
  BY <1>2, <1>5 DEF AskModel, Unread
<1>7. PICK x \in Decision : x = [decisions[d] EXCEPT !.gate = "pending"] /\ x.gate = "pending"
  <2>1. PICK y \in Decision : y = decisions[d]
    BY <1>1
  <2>2. [y EXCEPT !.gate = "pending"] \in Decision
    BY DEF Decision
  <2> QED
    BY <2>1, <2>2 DEF Decision
<1>8. decisions' = [decisions EXCEPT ![d] = x]
  BY <1>1, <1>6, <1>7
<1>9. reads[d] = 0
  BY <1>1, <1>6 DEF Counted, Unread
<1>10. StoreTypeOK' /\ Counted' /\ Forward
  <2>1. decisions' \in [Strategies \X Markets -> Decision]
    BY <1>1, <1>8
  <2>2. reads' \in [Strategies \X Markets -> Nat]
    BY <1>1, <1>6
  <2>3. ASSUME NEW e \in Strategies \X Markets
        PROVE  /\ ~ Unread(e) => decisions'[e].gate # "none"
               /\ decisions[e].gate = "trade" => decisions'[e] = decisions[e]
               /\ reads'[e] <= 1 /\ (decisions'[e].gate = "none" => reads'[e] = 0)
    <3>1. CASE e = d
      BY <1>1, <1>6, <1>7, <1>8, <1>9, <3>1 DEF Unread
    <3>2. CASE e # d
      <4>1. decisions'[e] = decisions[e] /\ reads'[e] = reads[e]
        BY <1>1, <1>6, <1>8, <3>2
      <4> QED
        BY <1>1, <4>1 DEF Unread, Counted
    <3> QED
      BY <3>1, <3>2
  <2> QED
    BY <1>3, <2>1, <2>2, <2>3, DecisionsMove
<1>11. PICK r : r = [q EXCEPT !.pc = "model", !.asked = m]
  OBVIOUS
<1>12. /\ r \in Process /\ r.pc = "model" /\ r.picks = q.picks /\ r.todo = q.todo
       /\ r.strategy = q.strategy /\ r.asked = m
  BY <1>11 DEF Process, Cycling
<1>13. Agrees(r) /\ r.pc # "send"
  BY <1>2, <1>4, <1>12 DEF Agrees, Cycling, Jobbing, Sending
<1>14. Agrees(r)'
  BY <1>10, <1>12, <1>13, AgreesStays
<1>15. proc' = [proc EXCEPT ![p] = r]
  BY <1>1, <1>2, <1>11 DEF AskModel
<1> QED
  BY <1>3, <1>10, <1>12, <1>13, <1>14, <1>15, OnceMoves

(* The model's answer, stored or not.                                      *)
LEMMA AnswerKeepsOnce ==
  ASSUME RunnerAssumption, OnceInv, NEW p \in Processes,
         NEW call \in Sides \cup {"held", "failed"}, ModelAnswers(p, call), ChainMoves
  PROVE  OnceInv'
<1>1. /\ StoreTypeOK /\ Counted /\ decisions \in [Strategies \X Markets -> Decision]
      /\ reads \in [Strategies \X Markets -> Nat] /\ proc \in [Processes -> Process]
  BY DEF OnceInv, TypeOK, StoreTypeOK
<1>2. PICK q \in Process : q = proc[p] /\ Agrees(q)
  BY DEF OnceInv, TypeOK
<1>3. q.pc = "model" /\ UNCHANGED <<attempts, sends, reads>>
  BY <1>2 DEF ModelAnswers, At, txVars
<1>4. q.strategy \in Strategies /\ q.asked \in Markets
  BY <1>2, <1>3 DEF Agrees, Cycling
<1>5. PICK d \in Strategies \X Markets : d = <<q.strategy, q.asked>>
  BY <1>4
<1>6. CASE Throw(p) /\ UNCHANGED decisions
  BY <1>3, <1>6, ExceptionKeepsOnce
<1>7. CASE /\ decisions[d].gate = "pending"
           /\ decisions' = [decisions EXCEPT ![d] =
                [gate |-> IF call \in Sides THEN "trade" ELSE call,
                 side |-> IF call \in Sides THEN call ELSE @.side]]
           /\ proc' = [proc EXCEPT ![p] = Picked(@, q.asked, call)]
  <2>1. PICK y \in Decision : y = decisions[d]
    BY <1>1
  <2>2. PICK x : x = [gate |-> IF call \in Sides THEN "trade" ELSE call,
                      side |-> IF call \in Sides THEN call ELSE y.side]
    OBVIOUS
  <2>3. /\ x \in Decision /\ x.gate # "none"
        /\ call \in Sides => x = [gate |-> "trade", side |-> call]
    BY <2>1, <2>2 DEF Decision, Sides
  <2>4. decisions' = [decisions EXCEPT ![d] = x]
    BY <1>7, <2>1, <2>2
  <2>5. /\ decisions' \in [Strategies \X Markets -> Decision]
        /\ decisions'[d] = x /\ \A e \in Strategies \X Markets : e # d => decisions'[e] = decisions[e]
    BY <1>1, <2>3, <2>4
  <2>6. StoreTypeOK' /\ Counted' /\ Forward
    <3>1. ASSUME NEW e \in Strategies \X Markets
          PROVE  /\ ~ Unread(e) => decisions'[e].gate # "none"
                 /\ decisions[e].gate = "trade" => decisions'[e] = decisions[e]
                 /\ reads'[e] <= 1 /\ (decisions'[e].gate = "none" => reads'[e] = 0)
      <4>1. reads[e] <= 1 /\ (decisions[e].gate = "none" => reads[e] = 0)
        BY <1>1 DEF Counted, Unread
      <4> QED
        BY <1>3, <1>7, <2>3, <2>5, <4>1 DEF Unread
    <3> QED
      BY <1>1, <1>3, <2>5, <3>1, DecisionsMove
  <2>7. Agrees(q)'
    BY <1>2, <1>3, <2>6, AgreesStays
  <2>8. PICK r : r = Picked(q, q.asked, call)
    OBVIOUS
  <2>9. r \in Process /\ r.pc = "scan" /\ Agrees(r)'
    <3>1. PICK x2 : x2 = IF call \in Sides THEN q.picks \cup {<<o, q.asked, call>> : o \in Owners}
                         ELSE q.picks
      OBVIOUS
    <3>2. q.picks \subseteq Picks /\ q.windows \ {q.asked} \subseteq Markets
      BY ProcessFields
    <3>3. call \in Sides => {<<o, q.asked, call>> : o \in Owners} \subseteq Picks
      BY <1>4 DEF Picks
    <3>4. x2 \subseteq Picks
      BY <3>1, <3>2, <3>3
    <3>5. r = [q EXCEPT !.pc = "scan", !.windows = q.windows \ {q.asked}, !.asked = Nobody,
                        !.picks = x2]
      BY <2>8, <3>1 DEF Picked
    <3>6. /\ r \in Process /\ r.pc = "scan" /\ r.strategy = q.strategy /\ r.picks = x2
          /\ r.todo = q.todo
      BY <3>2, <3>4, <3>5 DEF Process, Cycling
    <3>7. ASSUME NEW y2 \in x2 PROVE Called(q.strategy, y2[2], y2[3])'
      <4>1. CASE y2 \in q.picks
        BY <2>7, <4>1 DEF Agrees, Called
      <4>2. CASE call \in Sides /\ \E o \in Owners : y2 = <<o, q.asked, call>>
        BY <1>5, <2>3, <2>5, <4>2 DEF Called
      <4> QED
        BY <3>1, <3>7, <4>1, <4>2
    <3>8. Agrees(r)'
      BY <1>4, <2>7, <3>6, <3>7 DEF Agrees, Called, Jobbing, Sending
    <3> QED
      BY <3>6, <3>8
  <2>10. proc' = [proc EXCEPT ![p] = r]
    BY <1>2, <1>7, <2>8
  <2> QED
    BY <1>3, <2>6, <2>9, <2>10, OnceMoves
<1> QED
  BY <1>2, <1>5, <1>6, <1>7 DEF ModelAnswers

(* A row that is written once it is reserved.                              *)
LEMMA AttemptsMove ==
  ASSUME OnceInv, UNCHANGED <<decisions, reads, sends>>, NEW k \in Keys, NEW row \in Row,
         attempts' = [attempts EXCEPT ![k] = row], row.state # "none",
         Reserved(k) => row.side = attempts[k].side /\ row.nonce = attempts[k].nonce,
         k.kind = "order" => Called(k.strategy, k.market, row.side)
  PROVE  StoreTypeOK' /\ Counted' /\ Forward
<1>1. StoreTypeOK /\ Counted /\ attempts \in [Keys -> Row]
  BY DEF OnceInv, TypeOK, StoreTypeOK
<1>2. /\ attempts' \in [Keys -> Row] /\ attempts'[k] = row
      /\ \A j \in Keys : j # k => attempts'[j] = attempts[j]
  BY <1>1
<1>3. StoreTypeOK' /\ Forward
  BY <1>1, <1>2 DEF StoreTypeOK, Forward, Reserved, Unread
<1>4. ASSUME NEW j \in OrderKeys, Reserved(j)' PROVE Called(j.strategy, j.market, attempts[j].side)'
  <2>1. j \in Keys /\ j.kind = "order"
    BY DEF OrderKeys
  <2>2. CASE j = k
    BY <1>2, <2>1, <2>2 DEF Called
  <2>3. CASE j # k
    BY <1>1, <1>2, <1>4, <2>1, <2>3 DEF Called, Counted, Reserved
  <2> QED
    BY <2>2, <2>3
<1> QED
  BY <1>1, <1>2, <1>3, <1>4 DEF Counted, Reserved, Unread

(* `finishStrategyAttempt` and `recordAttemptFill` keep the reservation.   *)
LEMMA RecordedFields ==
  ASSUME NEW row \in Row, NEW state \in States \ {"none"}, NEW hash \in BOOLEAN
  PROVE  /\ Finished(row, state, hash) \in Row /\ Finished(row, state, hash).state # "none"
         /\ Finished(row, state, hash).side = row.side /\ Finished(row, state, hash).nonce = row.nonce
         /\ Recorded(row, state, hash) \in Row /\ Recorded(row, state, hash).state # "none"
         /\ Recorded(row, state, hash).side = row.side /\ Recorded(row, state, hash).nonce = row.nonce
<1>1. PICK f : f = Finished(row, state, hash)
  OBVIOUS
<1>2. /\ row.state \in States /\ row.hash \in BOOLEAN
  BY DEF Row
<1>3. f \in Row /\ f.state # "none" /\ f.side = row.side /\ f.nonce = row.nonce
  <2>1. CASE row.state \in {"filled", "settled"}
    BY <1>1, <2>1 DEF Finished
  <2>2. CASE row.state \notin {"filled", "settled"}
    <3>1. PICK h \in BOOLEAN : f = [row EXCEPT !.state = state, !.hash = h]
      BY <1>1, <1>2, <2>2 DEF Finished
    <3> QED
      BY <3>1 DEF Row
  <2> QED
    BY <2>1, <2>2
<1>4. PICK r : r = Recorded(row, state, hash)
  OBVIOUS
<1>5. r \in Row /\ r.state # "none" /\ r.side = row.side /\ r.nonce = row.nonce
  <2>1. CASE state = "filled"
    <3>1. r = [row EXCEPT !.state = "filled", !.hash = TRUE]
      BY <1>4, <2>1 DEF Recorded
    <3> QED
      BY <3>1 DEF Row, States, Landed
  <2>2. CASE state # "filled"
    BY <1>1, <1>3, <1>4, <2>2 DEF Recorded
  <2> QED
    BY <2>1, <2>2
<1> QED
  BY <1>1, <1>3, <1>4, <1>5

LEMMA ResumedFields ==
  ASSUME NEW q \in Process
  PROVE  /\ Resumed(q) \in Process /\ Resumed(q).pc \in {"execute", "settle"}
         /\ Resumed(q).strategy = q.strategy /\ Resumed(q).todo = q.todo
         /\ Resumed(q).picks \subseteq q.picks /\ Resumed(q).queue = q.queue
         /\ Resumed(q).pc = IF q.job.key.kind = "order" THEN "execute" ELSE "settle"
<1>1. PICK a, x, pc : /\ x = {y \in q.picks : <<y[1], y[2]>> # Account(q.job.key)}
                      /\ a = q.accounts \ {Account(q.job.key)}
                      /\ pc = IF q.job.key.kind = "order" THEN "execute" ELSE "settle"
  OBVIOUS
<1>2. PICK r : r = Resumed(q)
  OBVIOUS
<1>3. r = [q EXCEPT !.pc = pc, !.picks = x, !.accounts = a, !.job = Idle.job, !.fin = Idle.fin]
  BY <1>1, <1>2 DEF Resumed
<1>4. x \subseteq q.picks /\ a \subseteq q.accounts /\ pc \in {"execute", "settle"}
  BY <1>1
<1>5. x \subseteq Picks /\ a \subseteq Owners \X Markets
  BY <1>4, ProcessFields
<1>6. /\ r \in Process /\ r.pc = pc /\ r.strategy = q.strategy /\ r.todo = q.todo /\ r.picks = x
      /\ r.queue = q.queue
  BY <1>3, <1>4, <1>5, IdleTyped DEF Process, Cycling
<1> QED
  BY <1>1, <1>2, <1>4, <1>6

(* A job is over, one way or another, and the store moved on.              *)
LEMMA JobEnds ==
  ASSUME RunnerAssumption, OnceInv, NEW p \in Processes, NEW q \in Process,
         q = proc[p], Agrees(q), q.pc \in Jobbing,
         NEW r, r \in {Thrown(q), Left(q), Resumed(q)}, proc' = [proc EXCEPT ![p] = r],
         StoreTypeOK', ChainMoves, Counted', Forward, UNCHANGED sends
  PROVE  OnceInv'
<1>1. q.strategy \in Strategies
  BY DEF Agrees, Cycling
<1>2. CASE r = Thrown(q) \/ r = Left(q)
  <2>1. r \in Process /\ r.pc \in Between /\ r.picks = {} /\ r.todo = {}
    BY <1>1, <1>2, Rests DEF Between
  <2>2. Agrees(r) /\ r.pc # "send"
    BY <2>1, RestAgrees
  <2>3. Agrees(r)'
    BY <2>1, <2>2, AgreesStays
  <2> QED
    BY <2>1, <2>2, <2>3, OnceMoves
<1>3. CASE r = Resumed(q)
  <2>1. /\ r \in Process /\ r.pc \in {"execute", "settle"} /\ r.strategy = q.strategy
        /\ r.todo = q.todo /\ r.picks \subseteq q.picks
    BY <1>3, ResumedFields
  <2>2. Agrees(r) /\ r.pc # "send"
    BY <1>1, <2>1 DEF Agrees, Cycling, Jobbing, Sending
  <2>3. Agrees(r)'
    BY <2>1, <2>2, AgreesStays
  <2> QED
    BY <2>1, <2>2, <2>3, OnceMoves
<1> QED
  BY <1>2, <1>3

(* The reservation: the one step after which a Window is sent.             *)
LEMMA ReserveKeepsOnce ==
  ASSUME RunnerAssumption, OnceInv, NEW p \in Processes, Reserve(p), ChainMoves
  PROVE  OnceInv'
<1>1. PICK q \in Process : q = proc[p] /\ Agrees(q)
  BY DEF OnceInv, TypeOK
<1>2. /\ StoreTypeOK /\ Counted /\ attempts \in [Keys -> Row] /\ proc \in [Processes -> Process]
      /\ sends \in [Keys -> Nat] /\ \A x \in Processes : Agrees(proc[x])
  BY DEF OnceInv, TypeOK, StoreTypeOK
<1>3. q.pc = "reserve" /\ UNCHANGED <<decisions, reads, sends>>
  BY <1>1 DEF Reserve, At, txVars
<1>0. PICK j : j = q.job
  OBVIOUS
<1>4. PICK k \in Keys : k = j.key /\ j = q.job
  BY <1>0, <1>1, <1>3 DEF Agrees, Jobbing
<1>5. j.side \in Sides /\ j.nonce \in Nat /\ (k.kind = "order" => Called(k.strategy, k.market, j.side))
  BY <1>1, <1>3, <1>4, ProcessFields DEF Agrees, Jobbing
<1>6. PICK row \in Row :
        /\ row = [state |-> "attempting", hash |-> FALSE, nonce |-> j.nonce, side |-> j.side]
        /\ row.state = "attempting" /\ row.side = j.side
  <2>1. PICK x : x = [state |-> "attempting", hash |-> FALSE, nonce |-> j.nonce, side |-> j.side]
    OBVIOUS
  <2>2. x \in Row /\ x.state = "attempting" /\ x.side = j.side
    BY <1>5, <2>1 DEF Row, States
  <2> QED
    BY <2>1, <2>2
<1>7. ASSUME Free(k), attempts' = [attempts EXCEPT ![k] = row],
             proc' = [proc EXCEPT ![p].pc = "send"] \/ Throw(p)
      PROVE  OnceInv'
  <2>1. ~ Reserved(k)
    BY <1>7 DEF Free, Reserved
  <2>2. StoreTypeOK' /\ Counted' /\ Forward
    BY <1>3, <1>5, <1>6, <1>7, <2>1, AttemptsMove
  <2>3. CASE proc' = [proc EXCEPT ![p].pc = "send"]
    <3>1. PICK r : r = [q EXCEPT !.pc = "send"]
      OBVIOUS
    <3>2. /\ r \in Process /\ r.pc = "send" /\ r.picks = q.picks /\ r.todo = q.todo
          /\ r.strategy = q.strategy /\ r.job = j
      BY <1>4, <3>1 DEF Process, Cycling, Jobbing, Sending
    <3>3. proc' = [proc EXCEPT ![p] = r]
      BY <1>1, <1>2, <2>3, <3>1
    <3>4. Agrees(q)'
      BY <1>1, <1>3, <2>2, AgreesStays
    <3>5. sends[k] = 0
      BY <1>2, <2>1 DEF Counted
    <3>6. attempts'[k].state # "none"
      BY <1>2, <1>6, <1>7
    <3>7. Agrees(r)'
      BY <1>3, <1>4, <3>2, <3>4, <3>5, <3>6 DEF Agrees, Called, Cycling, Jobbing, Sending
    <3>8. ASSUME NEW x \in Processes, x # p, proc[x].pc = "send"
          PROVE  proc[x].job.key # k
      <4>1. attempts[proc[x].job.key].state # "none"
        BY <1>2, <3>8 DEF Agrees, Sending
      <4> QED
        BY <2>1, <4>1 DEF Reserved
    <3>9. \A x \in Processes : x # p /\ proc[x].pc = "send" =>
            /\ sends'[proc[x].job.key] = sends[proc[x].job.key]
            /\ r.pc = "send" => proc[x].job.key # r.job.key
      BY <1>3, <1>4, <3>2, <3>8
    <3> QED
      BY <2>2, <3>2, <3>3, <3>7, <3>9, OnceMoves
  <2>4. CASE Throw(p)
    <3>1. proc' = [proc EXCEPT ![p] = Thrown(q)]
      BY <1>1, <2>4 DEF Throw
    <3> QED
      BY <1>1, <1>3, <2>2, <3>1, JobEnds DEF Jobbing
  <2> QED
    BY <1>7, <2>3, <2>4
<1>8. CASE Throw(p) /\ UNCHANGED attempts
  BY <1>3, <1>8, ExceptionKeepsOnce
<1>9. CASE proc' = [proc EXCEPT ![p] = Resumed(@)] /\ UNCHANGED attempts
  <2>1. StoreTypeOK' /\ Counted' /\ Forward
    BY <1>2, <1>3, <1>9 DEF StoreTypeOK, Counted, Forward, Reserved, Unread, Called
  <2>2. proc' = [proc EXCEPT ![p] = Resumed(q)]
    BY <1>1, <1>9
  <2> QED
    BY <1>1, <1>3, <2>1, <2>2, JobEnds DEF Jobbing
<1> QED
  BY <1>1, <1>4, <1>6, <1>7, <1>8, <1>9 DEF Reserve

(* A send is broadcast once under its reservation.                         *)
LEMMA BroadcastKeepsOnce ==
  ASSUME RunnerAssumption, OnceInv, NEW p \in Processes, Broadcast(p), ChainMoves
  PROVE  OnceInv'
<1>1. PICK q \in Process : q = proc[p] /\ Agrees(q)
  BY DEF OnceInv, TypeOK
<1>2. /\ StoreTypeOK /\ Counted /\ OneSender /\ proc \in [Processes -> Process]
      /\ sends \in [Keys -> Nat] /\ \A x \in Processes : Agrees(proc[x])
  BY DEF OnceInv, TypeOK, StoreTypeOK
<1>3. q.pc = "send" /\ UNCHANGED <<decisions, reads, attempts>>
  BY <1>1 DEF Broadcast, At, storeVars
<1>4. PICK k \in Keys : k = q.job.key /\ attempts[k].state # "none" /\ sends[k] = 0
  BY <1>1, <1>3 DEF Agrees, Jobbing, Sending
<1>5. /\ sends' = [sends EXCEPT ![k] = @ + 1]
      /\ proc' = [proc EXCEPT ![p].pc = "answer"]
  BY <1>1, <1>4 DEF Broadcast
<1>6. /\ sends' \in [Keys -> Nat] /\ sends'[k] = 1
      /\ \A j \in Keys : j # k => sends'[j] = sends[j]
  BY <1>2, <1>4, <1>5
<1>7. StoreTypeOK' /\ Counted' /\ Forward
  BY <1>2, <1>3, <1>4, <1>6 DEF StoreTypeOK, Counted, Forward, Reserved, Unread, Called
<1>8. PICK r : r = [q EXCEPT !.pc = "answer"]
  OBVIOUS
<1>9. /\ r \in Process /\ r.pc = "answer" /\ r.picks = q.picks /\ r.todo = q.todo
      /\ r.strategy = q.strategy /\ r.job = q.job
  BY <1>8 DEF Process, Cycling, Jobbing, Sending
<1>10. PICK s \in Process : s = [q EXCEPT !.pc = "reserve"]
  BY DEF Process, Cycling, Jobbing
<1>11. Agrees(r)'
  <2>1. /\ s.pc = "reserve" /\ s.picks = q.picks /\ s.todo = q.todo
        /\ s.strategy = q.strategy /\ s.job = q.job
    BY <1>10 DEF Process
  <2>2. Agrees(s)
    BY <1>1, <1>3, <2>1 DEF Agrees, Cycling, Jobbing, Sending
  <2>3. Agrees(s)'
    BY <1>7, <2>1, <2>2, AgreesStays
  <2>4. tx'[k] # "none"
    <3>1. tx \in [Keys -> TxStates] /\ tx' = [tx EXCEPT ![k] = "pending"]
      BY <1>1, <1>4 DEF Broadcast, OnceInv, TypeOK, ChainTypeOK
    <3> QED
      BY <1>4, <3>1
  <2> QED
    BY <1>3, <1>4, <1>9, <2>1, <2>3, <2>4 DEF Agrees, Called, Cycling, Jobbing, Sending
<1>12. proc' = [proc EXCEPT ![p] = r]
  BY <1>1, <1>2, <1>5, <1>8
<1>13. ASSUME NEW x \in Processes, x # p, proc[x].pc = "send"
       PROVE  sends'[proc[x].job.key] = sends[proc[x].job.key]
  <2>1. proc[x].job.key # k /\ proc[x].job.key \in Keys
    BY <1>1, <1>2, <1>3, <1>4, <1>13 DEF OneSender, Agrees, Jobbing, Sending
  <2> QED
    BY <1>6, <2>1
<1> QED
  BY <1>7, <1>9, <1>11, <1>12, <1>13, OnceMoves

(* What the process makes of a send: no row is written yet.                *)
LEMMA ConcludingKeepsOnce ==
  ASSUME RunnerAssumption, OnceInv, NEW p \in Processes, ChainMoves,
         UNCHANGED <<attempts, decisions, sends, reads>>,
         \/ \E state \in {"refused", "unknown"} : NotSent(p, state)
         \/ Answered(p) \/ Awaited(p)
  PROVE  OnceInv'
<1>1. PICK q \in Process : q = proc[p] /\ Agrees(q)
  BY DEF OnceInv, TypeOK
<1>2. proc \in [Processes -> Process] /\ tx \in [Keys -> TxStates]
  BY DEF OnceInv, TypeOK, ChainTypeOK
<1>3. q.pc \in {"send", "answer", "await"}
  BY <1>1 DEF NotSent, Answered, Awaited, At
<1>4. ASSUME NEW state \in States \ {"none"}, NEW hash \in BOOLEAN, Concludes(p, state, hash)
      PROVE  OnceInv'
  <2>1. PICK f : f = [state |-> state, hash |-> hash]
    OBVIOUS
  <2>2. PICK r : r = [q EXCEPT !.pc = "save", !.fin = f]
    OBVIOUS
  <2>3. f \in [state: States, hash: BOOLEAN] /\ f.state # "none"
    BY <2>1
  <2>4. /\ r \in Process /\ r.pc = "save" /\ r.picks = q.picks /\ r.todo = q.todo
        /\ r.strategy = q.strategy /\ r.job = q.job /\ r.fin = f
    BY <2>2, <2>3 DEF Process, Cycling, Jobbing, Sending
  <2>5. Agrees(r) /\ r.pc # "send"
    BY <1>1, <1>3, <2>3, <2>4 DEF Agrees, Cycling, Jobbing, Sending
  <2>6. proc' = [proc EXCEPT ![p] = r]
    BY <1>1, <1>2, <1>4, <2>1, <2>2 DEF Concludes
  <2> QED
    BY <2>4, <2>5, <2>6, OnceMovesAlone
<1>5. CASE Answered(p) /\ proc' = [proc EXCEPT ![p].pc = "await"]
  <2>1. PICK r : r = [q EXCEPT !.pc = "await"]
    OBVIOUS
  <2>2. /\ r \in Process /\ r.pc = "await" /\ r.picks = q.picks /\ r.todo = q.todo
        /\ r.strategy = q.strategy /\ r.job = q.job
    BY <2>1 DEF Process, Cycling, Jobbing, Sending
  <2>3. Agrees(r) /\ r.pc # "send"
    BY <1>1, <1>5, <2>2 DEF Agrees, Cycling, Jobbing, Sending, Answered, At
  <2>4. proc' = [proc EXCEPT ![p] = r]
    BY <1>1, <1>2, <1>5, <2>1
  <2> QED
    BY <2>2, <2>3, <2>4, OnceMovesAlone
<1>6. CASE \E state \in {"refused", "unknown"}, hash \in BOOLEAN : Concludes(p, state, hash)
  BY <1>4, <1>6 DEF States
<1>7. CASE Awaited(p) /\ Concludes(p, tx[q.job.key], TRUE) /\ tx[q.job.key] # "pending"
  <2>1. q.job.key \in Keys /\ q.pc = "await"
    BY <1>1, <1>7 DEF Awaited, At, Agrees, Jobbing, Sending
  <2>2. PICK v \in TxStates : v = tx[q.job.key] /\ v # "pending" /\ v # "none"
    BY <1>1, <1>2, <1>7, <2>1 DEF Agrees
  <2>3. v \in States \ {"none"}
    BY <2>2 DEF TxStates, States
  <2> QED
    BY <1>4, <1>7, <2>2, <2>3
<1> QED
  BY <1>1, <1>5, <1>6, <1>7 DEF NotSent, Answered, Awaited

(* The outcome of a job is stored; if the store fails, as much as is.       *)
LEMMA SavingKeepsOnce ==
  ASSUME RunnerAssumption, OnceInv, NEW p \in Processes, ChainMoves, Save(p) \/ SaveFails(p)
  PROVE  OnceInv'
<1>1. PICK q \in Process : q = proc[p] /\ Agrees(q)
  BY DEF OnceInv, TypeOK
<1>2. /\ Counted /\ attempts \in [Keys -> Row] /\ proc \in [Processes -> Process]
  BY DEF OnceInv, TypeOK, StoreTypeOK
<1>3. q.pc = "save" /\ UNCHANGED <<decisions, reads, sends>>
  BY <1>1 DEF Save, SaveFails, At, txVars
<1>4. PICK k \in Keys : k = q.job.key /\ Reserved(k)
  BY <1>1, <1>3 DEF Agrees, Jobbing, Sending, Reserved
<1>5. PICK row \in Row, state \in States \ {"none"}, hash \in BOOLEAN :
        row = attempts[k] /\ state = q.fin.state /\ hash = q.fin.hash
  BY <1>1, <1>2, <1>3, ProcessFields DEF Agrees
<1>6. k.kind = "order" => Called(k.strategy, k.market, row.side)
  BY <1>2, <1>4, <1>5 DEF Counted, OrderKeys
<1>7. PICK u \in States \ {"none"}, no \in BOOLEAN : u = "unknown" /\ no = FALSE
  BY DEF States
<1>8. PICK written \in Row :
        /\ attempts' = [attempts EXCEPT ![k] = written] /\ written.state # "none"
        /\ written.side = row.side /\ written.nonce = row.nonce
  <2>1. PICK saved \in Row : /\ saved = Recorded(row, state, hash) /\ saved.state # "none"
                             /\ saved.side = row.side /\ saved.nonce = row.nonce
    BY RecordedFields
  <2>2. CASE Save(p)
    <3>1. attempts' = [attempts EXCEPT ![k] = saved]
      BY <1>1, <1>2, <1>4, <1>5, <2>1, <2>2 DEF Save
    <3> QED
      BY <2>1, <3>1
  <2>3. ASSUME NEW x \in Row, x = row \/ x = saved
        PROVE  /\ Finished(x, u, no) \in Row /\ Finished(x, u, no).state # "none"
               /\ Finished(x, u, no).side = row.side /\ Finished(x, u, no).nonce = row.nonce
    <3>1. /\ Finished(x, u, no) \in Row /\ Finished(x, u, no).state # "none"
          /\ Finished(x, u, no).side = x.side /\ Finished(x, u, no).nonce = x.nonce
      BY RecordedFields
    <3> QED
      BY <2>1, <2>3, <3>1
  <2>4. CASE SaveFails(p)
    <3>1. PICK stored : stored = {row, saved}
      OBVIOUS
    <3>2. stored = {attempts[k], Recorded(attempts[k], q.fin.state, q.fin.hash)}
      BY <1>5, <2>1, <3>1
    <3>3. \E r \in stored \cup {Finished(x, "unknown", FALSE) : x \in stored} :
            attempts' = [attempts EXCEPT ![k] = r]
      BY <1>1, <1>4, <2>4, <3>2 DEF SaveFails
    <3>4. PICK r : /\ attempts' = [attempts EXCEPT ![k] = r]
                   /\ \/ r = row \/ r = saved
                      \/ r = Finished(row, u, no) \/ r = Finished(saved, u, no)
      BY <1>7, <3>1, <3>3
    <3>5. row.state # "none"
      BY <1>4, <1>5 DEF Reserved
    <3>6. r \in Row /\ r.state # "none" /\ r.side = row.side /\ r.nonce = row.nonce
      <4>1. CASE r = row
        BY <3>5, <4>1
      <4>2. CASE r = saved
        BY <2>1, <4>2
      <4>3. CASE r = Finished(row, u, no)
        BY <2>3, <4>3
      <4>4. CASE r = Finished(saved, u, no)
        BY <2>1, <2>3, <4>4
      <4> QED
        BY <3>4, <4>1, <4>2, <4>3, <4>4
    <3> QED
      BY <3>4, <3>6
  <2> QED
    BY <2>2, <2>4
<1>9. StoreTypeOK' /\ Counted' /\ Forward
  BY <1>3, <1>5, <1>6, <1>8, AttemptsMove
<1>10. PICK r : r \in {Thrown(q), Left(q), Resumed(q)} /\ proc' = [proc EXCEPT ![p] = r]
  <2>1. \/ proc' = [proc EXCEPT ![p] = Thrown(q)] \/ proc' = [proc EXCEPT ![p] = Left(q)]
        \/ proc' = [proc EXCEPT ![p] = Resumed(q)]
    BY <1>1 DEF Save, SaveFails, Throw
  <2> QED
    BY <2>1
<1> QED
  BY <1>1, <1>3, <1>9, <1>10, JobEnds DEF Jobbing, Sending

(* A listed row is settled from the chain, never sent again.               *)
LEMMA ReconcileKeepsOnce ==
  ASSUME RunnerAssumption, OnceInv, NEW p \in Processes, ChainMoves,
         NEW row \in proc[p].todo, NEW found \in Findings(row), Reconcile(p, row, found)
  PROVE  OnceInv'
<1>1. PICK q \in Process : q = proc[p] /\ Agrees(q)
  BY DEF OnceInv, TypeOK
<1>2. /\ StoreTypeOK /\ Counted /\ attempts \in [Keys -> Row] /\ proc \in [Processes -> Process]
  BY DEF OnceInv, TypeOK, StoreTypeOK
<1>3. q.pc = "reconcile" /\ row \in q.todo /\ UNCHANGED <<decisions, reads, sends>>
  BY <1>1 DEF Reconcile, At, txVars
<1>4. row \in Listing
  BY <1>3, ProcessFields
<1>5. PICK k \in Keys : k = row.key /\ Reserved(k) /\ k.strategy \in Strategies
  BY <1>1, <1>3, <1>4, KeyFields DEF Listing, Agrees, Reserved
<1>6. PICK old \in Row : old = attempts[k]
  BY <1>2
<1>7. found = "unreadable" \/ found \in States \ {"none"}
  BY DEF Findings, States, Landed
<1>8. StoreTypeOK' /\ Counted' /\ Forward
  <2>1. CASE found = "unreadable"
    BY <1>2, <1>3, <2>1 DEF Reconcile, StoreTypeOK, Counted, Forward, Reserved, Unread, Called
  <2>2. CASE found # "unreadable"
    <3>1. PICK new \in Row : /\ new = Recorded(old, found, found \in Landed) /\ new.state # "none"
                             /\ new.side = old.side /\ new.nonce = old.nonce
      <4>1. PICK v \in States \ {"none"} : v = found
        BY <1>7, <2>2
      <4>2. PICK h : h = (found \in Landed)
        OBVIOUS
      <4>3. h \in BOOLEAN
        BY <4>2
      <4>4. Recorded(old, v, h) = Recorded(old, found, found \in Landed)
        BY <4>1, <4>2
      <4>5. /\ Recorded(old, v, h) \in Row /\ Recorded(old, v, h).state # "none"
            /\ Recorded(old, v, h).side = old.side /\ Recorded(old, v, h).nonce = old.nonce
        BY <4>3, RecordedFields
      <4> QED
        BY <4>4, <4>5
    <3>2. attempts' = [attempts EXCEPT ![k] = new]
      BY <1>5, <1>6, <2>2, <3>1 DEF Reconcile
    <3>3. k.kind = "order" => Called(k.strategy, k.market, new.side)
      BY <1>2, <1>5, <1>6, <3>1 DEF Counted, OrderKeys
    <3> QED
      BY <1>3, <1>6, <3>1, <3>2, <3>3, AttemptsMove
  <2> QED
    BY <2>1, <2>2
<1>9. PICK u : /\ u \subseteq Strategies
               /\ u = IF found \in {"unknown", "unreadable"} THEN q.unresolved \cup {k.strategy}
                      ELSE q.unresolved
  <2>1. q.unresolved \cup {k.strategy} \subseteq Strategies /\ q.unresolved \subseteq Strategies
    BY <1>5, ProcessFields
  <2> QED
    BY <2>1
<1>10. PICK r : r = [q EXCEPT !.todo = q.todo \ {row}, !.unresolved = u]
  OBVIOUS
<1>11. /\ r \in Process /\ r.pc = "reconcile" /\ r.picks = q.picks /\ r.todo \subseteq q.todo
       /\ r.strategy = q.strategy
  BY <1>3, <1>9, <1>10 DEF Process
<1>12. Agrees(r) /\ r.pc # "send"
  BY <1>1, <1>11 DEF Agrees, Cycling, Jobbing, Sending
<1>13. Agrees(r)'
  BY <1>8, <1>11, <1>12, AgreesStays
<1>14. proc' = [proc EXCEPT ![p] = r]
  BY <1>1, <1>2, <1>5, <1>9, <1>10 DEF Reconcile
<1> QED
  BY <1>3, <1>8, <1>11, <1>12, <1>13, <1>14, OnceMoves

-----------------------------------------------------------------------------
(* The chain's own variables.                                              *)

LEMMA FaultTyped ==
  ASSUME RunnerAssumption, faults \in 0..MaxFaults, Fault \/ UNCHANGED faults
  PROVE  faults' \in 0..MaxFaults
BY DEF RunnerAssumption, Fault

LEMMA PositionsTyped ==
  ASSUME RunnerAssumption
  PROVE  /\ Empty \in Position /\ Flat \in [Sides -> Position]
         /\ [opener |-> Own, from |-> {}] \in Position
         /\ \A x \in Position, s \in Strategies :
              [opener |-> IF x = Empty THEN s ELSE x.opener, from |-> x.from \cup {s}] \in Position
<1>1. Empty \in Position
  BY DEF Empty, Position
<1>2. Flat \in [Sides -> Position]
  BY <1>1 DEF Flat
<1>3. [opener |-> Own, from |-> {}] \in Position
  BY DEF Position
<1>4. ASSUME NEW x \in Position, NEW s \in Strategies
      PROVE  [opener |-> IF x = Empty THEN s ELSE x.opener, from |-> x.from \cup {s}] \in Position
  <2>1. PICK o : o = IF x = Empty THEN s ELSE x.opener
    OBVIOUS
  <2>2. o \in Strategies \cup {Own, Nobody} /\ x.from \cup {s} \in SUBSET Strategies
    BY <2>1 DEF Position
  <2>3. [opener |-> o, from |-> x.from \cup {s}] \in Position
    BY <2>2 DEF Position
  <2> QED
    BY <2>1, <2>3
<1> QED
  BY <1>1, <1>2, <1>3, <1>4

(* A side of one position changes.                                         *)
LEMMA SideTyped ==
  ASSUME NEW h \in [Owners \X Markets -> [Sides -> Position]], NEW a \in Owners \X Markets,
         NEW side \in Sides, NEW x \in Position
  PROVE  [h EXCEPT ![a][side] = x] \in [Owners \X Markets -> [Sides -> Position]]
<1>1. PICK f \in [Sides -> Position] : f = h[a]
  OBVIOUS
<1>2. PICK g : g = [f EXCEPT ![side] = x]
  OBVIOUS
<1>3. g \in [Sides -> Position]
  BY <1>2
<1>4. [h EXCEPT ![a][side] = x] = [h EXCEPT ![a] = g]
  BY <1>1, <1>2
<1> QED
  BY <1>3, <1>4

LEMMA OutsideMovesChain ==
  ASSUME RunnerAssumption, TypeOK, Outside
  PROVE  ChainMoves
<1>1. /\ tx \in [Keys -> TxStates] /\ nonceOf \in [Keys -> Nat] /\ count \in Nat
      /\ held \in [Owners \X Markets -> [Sides -> Position]]
      /\ closed \subseteq Owners \X Markets /\ resolved \subseteq Markets
      /\ faults \in 0..MaxFaults /\ attempts \in [Keys -> Row]
  BY DEF TypeOK, ChainTypeOK, StoreTypeOK
<1>2. ASSUME NEW k \in Keys, NEW v \in Landed \cup {"settled"}, Mine(k, v)
      PROVE  ChainMoves
  <2>1. PICK a \in Owners \X Markets : a = Account(k)
    BY KeyFields DEF Account
  <2>2. PICK side \in Sides : side = attempts[k].side
    BY <1>1 DEF Row
  <2>3. /\ tx' = [tx EXCEPT ![k] = v] /\ UNCHANGED <<nonceOf, count, resolved, faults>>
        /\ closed' = IF v = "settled" THEN closed \cup {a} ELSE closed
    BY <1>2, <2>1 DEF Mine
  <2>4. v \in TxStates /\ v # "none"
    BY DEF TxStates, Landed
  <2>5. held' \in [Owners \X Markets -> [Sides -> Position]]
    <3>1. PICK y \in Position : y = held[a][side]
      BY <1>1
    <3>2. PICK x : x = [opener |-> IF y = Empty THEN k.strategy ELSE y.opener,
                        from |-> y.from \cup {k.strategy}]
      OBVIOUS
    <3>3. x \in Position
      BY <3>2, PositionsTyped, KeyFields
    <3>4. CASE v = "filled"
      <4>1. held' = [held EXCEPT ![a][side] = x]
        BY <1>2, <2>1, <2>2, <3>1, <3>2, <3>4 DEF Mine
      <4> QED
        BY <1>1, <3>3, <4>1, SideTyped
    <3>5. CASE v = "settled"
      BY <1>1, <1>2, <2>1, <3>5, PositionsTyped DEF Mine
    <3>6. CASE v \notin {"filled", "settled"}
      BY <1>1, <1>2, <3>6 DEF Mine
    <3> QED
      BY <3>4, <3>5, <3>6
  <2> QED
    BY <1>1, <2>1, <2>3, <2>4, <2>5 DEF ChainMoves, ChainTypeOK
<1>3. ASSUME NEW a \in Owners \X Markets, OwnerSettles(a) PROVE ChainMoves
  <2>1. held' = [held EXCEPT ![a] = Flat] /\ closed' = closed \cup {a}
        /\ UNCHANGED <<tx, nonceOf, count, resolved, faults>>
    BY <1>3 DEF OwnerSettles, txVars
  <2>2. held' \in [Owners \X Markets -> [Sides -> Position]]
    BY <1>1, <2>1, PositionsTyped
  <2> QED
    BY <1>1, <2>1, <2>2 DEF ChainMoves, ChainTypeOK
<1>4. ASSUME NEW a \in Owners \X Markets, NEW side \in OwnerSides, OwnerTrades(a, side)
      PROVE  ChainMoves
  <2>1. side \in Sides
    BY DEF RunnerAssumption
  <2>2. PICK x : /\ x \in Position
                 /\ x = IF held[a][side] = Empty THEN [opener |-> Own, from |-> {}] ELSE Empty
    BY PositionsTyped
  <2>3. held' = [held EXCEPT ![a][side] = x]
        /\ UNCHANGED <<tx, nonceOf, count, resolved, closed, faults>>
    BY <1>4, <2>2 DEF OwnerTrades, txVars
  <2>4. held' \in [Owners \X Markets -> [Sides -> Position]]
    BY <1>1, <2>1, <2>2, <2>3, SideTyped
  <2> QED
    BY <1>1, <2>3, <2>4 DEF ChainMoves, ChainTypeOK
<1>5. ASSUME NEW m \in Markets, Resolve(m) PROVE ChainMoves
  BY <1>1, <1>5 DEF ChainMoves, ChainTypeOK, Resolve, txVars
<1> QED
  BY <1>2, <1>3, <1>4, <1>5 DEF Outside

LEMMA RunnerMovesChain ==
  ASSUME RunnerAssumption, OnceInv, NEW p \in Processes, Running(p) \/ Crash(p)
  PROVE  ChainMoves
<1>1. ChainTypeOK /\ faults \in 0..MaxFaults
  BY DEF OnceInv, TypeOK, ChainTypeOK
<1>2. CASE Broadcast(p)
  <2>1. PICK q \in Process : q = proc[p] /\ Agrees(q)
    BY DEF OnceInv, TypeOK
  <2>2. PICK k \in Keys : k = q.job.key
    BY <1>2, <2>1 DEF Broadcast, At, Agrees, Jobbing, Sending
  <2>3. /\ tx' = [tx EXCEPT ![k] = "pending"] /\ nonceOf' = [nonceOf EXCEPT ![k] = count]
        /\ count' = count + 1 /\ UNCHANGED <<vaultVars, faults>>
    BY <1>2, <2>1, <2>2 DEF Broadcast
  <2> QED
    BY <1>1, <2>2, <2>3 DEF ChainMoves, ChainTypeOK, TxStates, vaultVars
<1>3. CASE UNCHANGED <<txVars, vaultVars>> /\ (Fault \/ UNCHANGED faults)
  <2>1. faults' \in 0..MaxFaults
    BY <1>1, <1>3, FaultTyped
  <2> QED
    BY <1>1, <1>3, <2>1 DEF ChainMoves, ChainTypeOK, txVars, vaultVars
<1>4. CASE Boot(p) \/ Crash(p) \/ Recovery(p)
  BY <1>3, <1>4 DEF Boot, Crash, Recovery, Tick, List, Reconciled, EndTick, Reconcile
<1>5. CASE Cycle(p)
  BY <1>3, <1>5 DEF Cycle, StartCycle, SettleRead, Settled, Follow, Recall, AskModel, ModelAnswers,
                    Scanned, Executed, OrderRead
<1>6. CASE Job(p)
  BY <1>2, <1>3, <1>6 DEF Job, Reserve, Answered, Awaited, Save, SaveFails, NotSent
<1> QED
  BY <1>4, <1>5, <1>6 DEF Running

-----------------------------------------------------------------------------
LEMMA OnceAtStart ==
  ASSUME RunnerAssumption, Init
  PROVE  OnceInv
<1>1. PICK r : r = [Idle EXCEPT !.pc = "down"]
  OBVIOUS
<1>2. r \in Process /\ r.pc = "down" /\ r.picks = {} /\ r.todo = {}
  BY <1>1, IdleTyped DEF Process, Between
<1>3. proc = [p \in Processes |-> r] /\ Agrees(r) /\ r.pc # "send"
  BY <1>1, <1>2, RestAgrees DEF Init, Between
<1>4. NoRow \in Row /\ NoRow.state = "none"
  BY DEF NoRow, Row, States, Sides
<1>5. StoreTypeOK /\ Counted
  <2>1. PICK d : d = [gate |-> "none", side |-> "up"]
    OBVIOUS
  <2>2. d \in Decision /\ d.gate = "none"
    BY <2>1 DEF Decision, Sides
  <2>3. /\ attempts = [k \in Keys |-> NoRow] /\ decisions = [e \in Strategies \X Markets |-> d]
        /\ sends = [k \in Keys |-> 0] /\ reads = [e \in Strategies \X Markets |-> 0]
    BY <2>1 DEF Init
  <2> QED
    BY <1>4, <2>2, <2>3 DEF StoreTypeOK, Counted, Unread, Reserved, OrderKeys
<1>6. ChainTypeOK
  BY PositionsTyped DEF Init, ChainTypeOK, TxStates, RunnerAssumption
<1> QED
  BY <1>2, <1>3, <1>5, <1>6 DEF OnceInv, TypeOK, OneSender

LEMMA StepKeepsOnce ==
  ASSUME RunnerAssumption, OnceInv, [Next]_vars
  PROVE  OnceInv'
<1>1. CASE UNCHANGED vars
  <2>1. UNCHANGED <<attempts, decisions, sends, reads, proc>>
    BY <1>1 DEF vars, storeVars, txVars
  <2>2. ChainMoves
    BY <1>1 DEF OnceInv, TypeOK, vars, txVars, vaultVars, ChainMoves, ChainTypeOK
  <2> QED
    BY <2>1, <2>2, OnceStays
<1>2. CASE Outside
  <2>1. UNCHANGED <<attempts, decisions, sends, reads, proc>>
    BY <1>2 DEF Outside, Mine, OwnerSettles, OwnerTrades, Resolve, storeVars, txVars
  <2>2. ChainMoves
    BY <1>2, OutsideMovesChain DEF OnceInv
  <2> QED
    BY <2>1, <2>2, OnceStays
<1>3. ASSUME NEW p \in Processes, Running(p) \/ Crash(p) PROVE OnceInv'
  <2>1. ChainMoves
    BY <1>3, RunnerMovesChain
  <2>2. CASE Boot(p) \/ Crash(p) \/ List(p) \/ Reconciled(p) \/ EndTick(p)
    <3>1. UNCHANGED <<attempts, decisions, sends, reads>>
      BY <2>2 DEF Boot, Crash, List, Reconciled, EndTick, storeVars, txVars
    <3> QED
      BY <2>1, <2>2, <3>1, RecoveryKeepsOnce
  <2>3. CASE Tick(p)
    BY <2>1, <2>3, TickKeepsOnce
  <2>4. ASSUME NEW row \in proc[p].todo, NEW found \in Findings(row), Reconcile(p, row, found)
        PROVE  OnceInv'
    BY <2>1, <2>4, ReconcileKeepsOnce
  <2>5. CASE \/ \E s \in Strategies : StartCycle(p, s)
             \/ \E a \in Owners \X Markets : SettleRead(p, a)
             \/ \E windows \in SUBSET Markets : Settled(p, windows)
    <3>1. UNCHANGED <<attempts, decisions, sends, reads>>
      BY <2>5 DEF StartCycle, SettleRead, Settled, storeVars, txVars
    <3> QED
      BY <2>1, <2>5, <3>1, SettlingKeepsOnce
  <2>6. CASE \/ \E m \in Markets : \/ \E side \in Sides \cup {Nobody} : Follow(p, m, side)
                                   \/ Recall(p, m)
             \/ Scanned(p) \/ Executed(p)
    <3>1. UNCHANGED <<attempts, decisions, sends, reads>>
      BY <2>6 DEF Follow, Recall, Scanned, Executed, storeVars, txVars
    <3> QED
      BY <2>1, <2>6, <3>1, ScanKeepsOnce
  <2>7. ASSUME NEW m \in Markets, AskModel(p, m) PROVE OnceInv'
    BY <2>1, <2>7, AskKeepsOnce
  <2>8. ASSUME NEW call \in Sides \cup {"held", "failed"}, ModelAnswers(p, call) PROVE OnceInv'
    BY <2>1, <2>8, AnswerKeepsOnce
  <2>9. ASSUME NEW o \in Owners, NEW m \in Markets, NEW side \in Sides, OrderRead(p, o, m, side)
        PROVE  OnceInv'
    <3>1. UNCHANGED <<attempts, decisions, sends, reads>>
      BY <2>9 DEF OrderRead, storeVars, txVars
    <3> QED
      BY <2>1, <2>9, <3>1, OrderReadKeepsOnce
  <2>10. CASE Cycle(p)
    BY <2>5, <2>6, <2>7, <2>8, <2>9, <2>10 DEF Cycle
  <2>11. CASE Reserve(p)
    BY <2>1, <2>11, ReserveKeepsOnce
  <2>12. CASE Broadcast(p)
    BY <2>1, <2>12, BroadcastKeepsOnce
  <2>13. CASE \/ \E state \in {"refused", "unknown"} : NotSent(p, state)
              \/ Answered(p) \/ Awaited(p)
    <3>1. UNCHANGED <<attempts, decisions, sends, reads>>
      BY <2>13 DEF NotSent, Answered, Awaited, storeVars, txVars
    <3> QED
      BY <2>1, <2>13, <3>1, ConcludingKeepsOnce
  <2>14. CASE Save(p) \/ SaveFails(p)
    BY <2>1, <2>14, SavingKeepsOnce
  <2>15. CASE Job(p)
    BY <2>11, <2>12, <2>13, <2>14, <2>15 DEF Job
  <2> QED
    BY <1>3, <2>2, <2>3, <2>4, <2>10, <2>15 DEF Running, Recovery
<1> QED
  BY <1>1, <1>2, <1>3 DEF Next

LEMMA AlwaysOnce ==
  ASSUME RunnerAssumption
  PROVE  Spec => []OnceInv
<1>1. Init => OnceInv
  BY OnceAtStart
<1>2. OnceInv /\ [Next]_vars => OnceInv'
  BY StepKeepsOnce
<1> QED
  BY <1>1, <1>2, PTL DEF Spec

(* The rows, the chain and what every process has in memory stay within    *)
(* their types (strategy-attempts.ts, strategy-decisions.ts).              *)
THEOREM TypeCorrect ==
  ASSUME RunnerAssumption
  PROVE  Spec => []TypeOK
<1>1. OnceInv => TypeOK
  BY DEF OnceInv
<1> QED
  BY <1>1, AlwaysOnce, PTL

(* "At most one IOC" per decision (execute.ts:29), "never asks twice"      *)
(* (strategy-decisions.ts:42): whatever crashes, storage failures, lost    *)
(* answers and runners started with the same key, a subscriber's Window is *)
(* sent one order and one settlement, and an agent reads it once and       *)
(* trades it only on the verdict that was stored.                          *)
THEOREM OncePerWindowHolds ==
  ASSUME RunnerAssumption
  PROVE  Spec => []OncePerWindow
<1>1. OnceInv => OncePerWindow
  <2> SUFFICES ASSUME OnceInv PROVE OncePerWindow
    OBVIOUS
  <2>1. Counted /\ DOMAIN reads = Strategies \X Markets /\ DOMAIN sends = Keys
    BY DEF OnceInv, TypeOK, StoreTypeOK, ChainTypeOK
  <2>2. ASSUME NEW k \in OrderKeys, k.strategy \in Agents, sends[k] > 0
        PROVE  decisions[<<k.strategy, k.market>>] = [gate |-> "trade", side |-> attempts[k].side]
    BY <2>1, <2>2 DEF Counted, Called, OrderKeys
  <2> QED
    BY <2>1, <2>2 DEF OncePerWindow, Counted, OrderKeys
<1> QED
  BY <1>1, AlwaysOnce, PTL

-----------------------------------------------------------------------------
(* One order in flight, and rows that are true: with one process on the    *)
(* key, and no broadcast whose answer is lost read as a refusal.           *)

OneKeyHolder == "reset" \notin SendErrors /\ \A p, q \in Processes : p = q

IsUncertain(k) == attempts[k].state \in Uncertain
\* No order that was sent is without its outcome.
Clear == \A k \in Keys : ~ IsUncertain(k)

\* What a row says happened did.
Told == \A k \in Keys :
  /\ attempts[k].state \in Landed => tx[k] = attempts[k].state
  /\ attempts[k].state \in {"none", "refused"} => tx[k] = "none"
  /\ "settled" \in {attempts[k].state, tx[k]} => k.kind = "settle" /\ Account(k) \in closed

\* A nonce tells one transaction; an uncertain row that was not sent holds the next.
Nonces ==
  /\ \A k \in Keys :
       /\ tx[k] # "none" => nonceOf[k] < count /\ attempts[k].nonce = nonceOf[k]
       /\ tx[k] = "none" /\ IsUncertain(k) => attempts[k].nonce = count
  /\ \A j, k \in Keys : tx[j] # "none" /\ tx[k] # "none" /\ nonceOf[j] = nonceOf[k] => j = k

\* What a strategy opened holds its fill only.
Only(k) == [opener |-> k.strategy, from |-> {k.strategy}]
Owned(x) == x = Empty \/ x.opener = Own
Explained(a, side) ==
  \E k \in OrderKeys : /\ Account(k) = a /\ held[a][side] = Only(k)
                       /\ tx[k] = "filled" /\ attempts[k].side = side
Positions == \A a \in Owners \X Markets, side \in Sides :
  Owned(held[a][side]) \/ Explained(a, side)
OwnersAlone(k) == \A side \in Sides : Owned(held[Account(k)][side])

\* The position is the strategy's, or it is settled.
Attributed(k) ==
  /\ k.market \in resolved /\ (Account(k) \in closed \/ ~ (\A side \in Sides : held[Account(k)][side] = Empty))
  /\ \A side \in Sides : held[Account(k)][side] \in {Empty, Only(k)}
SettleRows == \A k \in Keys : k.kind = "settle" /\ Reserved(k) => Attributed(k)

OneFlies == \A j, k \in OrderKeys : tx[j] = "pending" /\ tx[k] = "pending" => j = k
Flight ==
  /\ OneFlies
  /\ \A k \in OrderKeys : tx[k] = "pending" => OwnersAlone(k)

World == Told /\ Nonces /\ Positions /\ SettleRows /\ Flight

\* A listed row is as the store has it.
Current(row) ==
  /\ IsUncertain(row.key)
  /\ row.nonce = attempts[row.key].nonce /\ row.hash = attempts[row.key].hash

\* What the process knows of the key's orders, at each of its awaits.
Knows(r) ==
  /\ r.pc \in {"settle", "scan", "model", "execute", "reserve"} => Clear
  /\ r.pc = "next" => Clear \/ r.unresolved # {}
  /\ r.pc = "reconcile" =>
       /\ \A row \in r.todo : Current(row)
       /\ r.unresolved # {} \/ \A k \in Keys : IsUncertain(k) => \E row \in r.todo : row.key = k
  /\ r.pc \in Sending =>
       /\ attempts[r.job.key].state = "attempting"
       /\ \A k \in Keys : IsUncertain(k) => k = r.job.key
  /\ r.pc = "reserve" =>
       r.job.nonce = count /\ (r.job.key.kind = "settle" => Attributed(r.job.key))
  /\ r.pc = "send" => tx[r.job.key] = "none"
  /\ r.pc \in {"reserve", "send"} /\ r.job.key.kind = "order" => OwnersAlone(r.job.key)
  /\ r.pc = "save" =>
       /\ r.fin.state \in Landed => tx[r.job.key] = r.fin.state
       /\ r.fin.state = "refused" => tx[r.job.key] = "none"
       /\ r.fin.state = "settled" => r.job.key.kind = "settle" /\ Account(r.job.key) \in closed
       /\ r.fin.state # "attempting"

SoloInv == OnceInv /\ World /\ \A p \in Processes : Knows(proc[p])

LEMMA AccountTyped ==
  ASSUME NEW k \in Keys
  PROVE  Account(k) \in Owners \X Markets
BY KeyFields DEF Account

LEMMA SoloMoves ==
  ASSUME OneKeyHolder, SoloInv, OnceInv', NEW p \in Processes, NEW r \in Process,
         proc' = [proc EXCEPT ![p] = r], World', Knows(r)'
  PROVE  SoloInv'
<1>1. proc \in [Processes -> Process]
  BY DEF SoloInv, OnceInv, TypeOK
<1>2. ASSUME NEW q \in Processes PROVE Knows(proc[q])'
  <2>1. q = p
    BY DEF OneKeyHolder
  <2>2. proc'[q] = r
    BY <1>1, <2>1
  <2> QED
    BY <2>2 DEF Knows
<1> QED
  BY <1>2 DEF SoloInv

(* A step that leaves the rows, the chain and the vault alone.             *)
LEMMA SoloMovesAlone ==
  ASSUME OneKeyHolder, SoloInv, OnceInv', NEW p \in Processes, NEW r \in Process,
         proc' = [proc EXCEPT ![p] = r], Knows(r), UNCHANGED <<attempts, txVars, vaultVars>>
  PROVE  SoloInv'
<1>1. UNCHANGED <<attempts, tx, nonceOf, count, held, closed, resolved>>
  BY DEF txVars, vaultVars
<1>2. World /\ Told /\ Nonces /\ Positions /\ SettleRows /\ Flight
  BY DEF SoloInv, World
<1>3. Told'
  BY <1>1, <1>2 DEF Told
<1>4. Nonces'
  BY <1>1, <1>2 DEF Nonces, IsUncertain
<1>5. Positions'
  BY <1>1, <1>2 DEF Positions, Explained
<1>6. ASSUME NEW k PROVE Attributed(k)' <=> Attributed(k)
  BY <1>1 DEF Attributed
<1>7. ASSUME NEW k PROVE OwnersAlone(k)' <=> OwnersAlone(k)
  BY <1>1 DEF OwnersAlone
<1>8. SettleRows'
  BY <1>1, <1>2, <1>6 DEF SettleRows, Reserved
<1>9. Flight'
  BY <1>1, <1>2, <1>7 DEF Flight, OneFlies
<1>10. Knows(r)'
  BY <1>1, <1>6, <1>7 DEF Knows, Clear, Current, IsUncertain
<1> QED
  BY <1>3, <1>4, <1>5, <1>8, <1>9, <1>10, SoloMoves DEF World

(* Where nothing needs to be known.                                        *)
LEMMA RestKnows ==
  ASSUME NEW r, r.pc \in {"down", "idle", "list"} \/ (r.pc = "next" /\ r.unresolved # {})
  PROVE  Knows(r)
BY DEF Knows, Sending

LEMMA ClearKnows ==
  ASSUME NEW r, r.pc \in {"next", "settle", "scan", "model", "execute"}, Clear
  PROVE  Knows(r)
BY DEF Knows, Sending

(* An order that is pending has no outcome in the store.                   *)
LEMMA PendingIsUncertain ==
  ASSUME SoloInv, NEW k \in OrderKeys, tx[k] # "none", ~ IsUncertain(k)
  PROVE  attempts[k].state = tx[k] /\ tx[k] \in Landed
<1>1. k \in Keys /\ k.kind = "order"
  BY DEF OrderKeys
<1>2. attempts \in [Keys -> Row] /\ attempts[k].state \in States
  BY <1>1 DEF SoloInv, OnceInv, TypeOK, StoreTypeOK, Row
<1>3. Told
  BY DEF SoloInv, World
<1> QED
  BY <1>1, <1>2, <1>3 DEF Told, IsUncertain, States, Uncertain

-----------------------------------------------------------------------------
(* The steps that only look.                                               *)

LEMMA ExceptionKeepsSolo ==
  ASSUME RunnerAssumption, OneKeyHolder, SoloInv, OnceInv', NEW p \in Processes, Throw(p),
         UNCHANGED <<attempts, txVars, vaultVars>>
  PROVE  SoloInv'
<1>1. PICK q \in Process : q = proc[p]
  BY DEF SoloInv, OnceInv, TypeOK
<1>2. PICK r \in Process : r = Thrown(q) /\ r.pc = "list"
  BY Rests
<1>3. proc' = [proc EXCEPT ![p] = r]
  BY <1>1, <1>2 DEF Throw
<1>4. Knows(r)
  BY <1>2, RestKnows
<1> QED
  BY <1>3, <1>4, SoloMovesAlone

LEMMA RecoveryKeepsSolo ==
  ASSUME RunnerAssumption, OneKeyHolder, SoloInv, OnceInv', NEW p \in Processes,
         UNCHANGED <<attempts, txVars, vaultVars>>,
         Boot(p) \/ Crash(p) \/ Tick(p) \/ List(p) \/ Reconciled(p) \/ EndTick(p)
  PROVE  SoloInv'
<1>1. PICK q \in Process : q = proc[p] /\ Agrees(q) /\ Knows(q)
  BY DEF SoloInv, OnceInv, TypeOK
<1>2. /\ attempts \in [Keys -> Row] /\ decisions \in [Strategies \X Markets -> Decision]
      /\ proc \in [Processes -> Process]
  BY DEF SoloInv, OnceInv, TypeOK, StoreTypeOK
<1>3. ASSUME NEW r \in Process, r.pc \in {"down", "idle", "list"}, proc' = [proc EXCEPT ![p] = r]
      PROVE  SoloInv'
  BY <1>3, RestKnows, SoloMovesAlone
<1>4. CASE Boot(p)
  <2>1. PICK i : i = {d \in DOMAIN decisions : decisions[d].gate = "pending"}
    OBVIOUS
  <2>2. PICK r : r = [Idle EXCEPT !.interrupted = i]
    OBVIOUS
  <2>3. r \in Process /\ r.pc = "idle"
    BY <1>2, <2>1, <2>2, IdleTyped DEF Process
  <2>4. proc' = [proc EXCEPT ![p] = r]
    BY <1>4, <2>1, <2>2 DEF Boot
  <2> QED
    BY <1>3, <2>3, <2>4
<1>5. CASE Crash(p)
  <2>1. PICK r : r = [Idle EXCEPT !.pc = "down"]
    OBVIOUS
  <2>2. r \in Process /\ r.pc = "down"
    BY <2>1, IdleTyped DEF Process, Between
  <2>3. proc' = [proc EXCEPT ![p] = r]
    BY <1>5, <2>1 DEF Crash
  <2> QED
    BY <1>3, <2>2, <2>3
<1>6. CASE Tick(p)
  <2>1. PICK r : r = [Idle EXCEPT !.pc = "list", !.queue = Strategies]
    OBVIOUS
  <2>2. r \in Process /\ r.pc = "list"
    BY <2>1, IdleTyped DEF Process, Between
  <2>3. proc' = [proc EXCEPT ![p] = r]
    BY <1>6, <2>1 DEF Tick
  <2> QED
    BY <1>3, <2>2, <2>3
<1>7. CASE proc' = [proc EXCEPT ![p] = Idle]
  BY <1>3, <1>7, IdleTyped
<1>8. CASE List(p) /\ proc' = [proc EXCEPT ![p].pc = "reconcile", ![p].todo = Listed]
  <2>1. PICK r : r = [q EXCEPT !.pc = "reconcile", !.todo = Listed]
    OBVIOUS
  <2>2. Listed \subseteq Listing
    BY <1>2 DEF Listed, Listing, Unresolved, Row
  <2>3. r \in Process /\ r.pc = "reconcile" /\ r.todo = Listed
    BY <2>1, <2>2 DEF Process, Between
  <2>4. \A row \in Listed : Current(row)
    BY DEF Listed, Unresolved, Current, IsUncertain
  <2>5. ASSUME NEW k \in Keys, IsUncertain(k) PROVE \E row \in Listed : row.key = k
    <3>1. PICK row : row = [key |-> k, hash |-> attempts[k].hash, nonce |-> attempts[k].nonce]
      OBVIOUS
    <3>2. row \in Listed
      BY <2>5, <3>1 DEF Listed, Unresolved, IsUncertain
    <3> QED
      BY <3>1, <3>2
  <2>6. Knows(r)
    BY <2>3, <2>4, <2>5 DEF Knows, Sending
  <2>7. proc' = [proc EXCEPT ![p] = r]
    BY <1>1, <1>2, <1>8, <2>1
  <2> QED
    BY <2>3, <2>6, <2>7, SoloMovesAlone
<1>9. CASE Reconciled(p)
  <2>1. PICK r : r = [q EXCEPT !.pc = "next"]
    OBVIOUS
  <2>2. r \in Process /\ r.pc = "next" /\ r.unresolved = q.unresolved
    BY <2>1 DEF Process, Between
  <2>3. Clear \/ q.unresolved # {}
    BY <1>1, <1>9 DEF Knows, Reconciled, At, Clear
  <2>4. Knows(r)
    BY <2>2, <2>3, RestKnows, ClearKnows
  <2>5. proc' = [proc EXCEPT ![p] = r]
    BY <1>1, <1>2, <1>9, <2>1 DEF Reconciled
  <2> QED
    BY <2>2, <2>4, <2>5, SoloMovesAlone
<1> QED
  BY <1>4, <1>5, <1>6, <1>7, <1>8, <1>9 DEF List, EndTick

(* Every fill is recorded when a cycle settles: the strategy whose rows    *)
(* explain each side of the position is the one that holds it.             *)
LEMMA OriginIsOpener ==
  ASSUME RunnerAssumption, SoloInv, Clear, NEW a \in Owners \X Markets, NEW s \in Strategies,
         Due(a), Cardinality(Origins(a)) = 1, s \in Origins(a)
  PROVE  Attributed(KeyOf("settle", s, a[1], a[2]))
<1>1. PICK k \in Keys : /\ k = KeyOf("settle", s, a[1], a[2]) /\ k.strategy = s
                        /\ k.owner = a[1] /\ k.market = a[2] /\ Account(k) = a
  <2>1. a[1] \in Owners /\ a[2] \in Markets /\ a = <<a[1], a[2]>>
    OBVIOUS
  <2> QED
    BY <2>1, KeyOfFields DEF Account
<1>2. Origins(a) = {s}
  <2>1. IsFiniteSet(Origins(a))
    BY OriginsTyped, FS_Subset DEF RunnerAssumption
  <2> QED
    BY <2>1, FS_Singleton
<1>3. held \in [Owners \X Markets -> [Sides -> Position]]
  BY DEF SoloInv, OnceInv, TypeOK, ChainTypeOK
<1>4. ASSUME NEW side \in Sides, held[a][side] # Empty
      PROVE  held[a][side] = Only(k)
  <2>1. Matching(a, side) # {}
    BY <1>2, <1>4 DEF Origins, Holds
  <2>2. held[a][side].opener # Own
    BY <2>1 DEF Matching
  <2>3. PICK j \in OrderKeys : /\ Account(j) = a /\ held[a][side] = Only(j)
                              /\ tx[j] = "filled" /\ attempts[j].side = side
    BY <1>4, <2>2 DEF SoloInv, World, Positions, Owned, Explained
  <2>4. attempts[j].state = "filled"
    BY <2>3, PendingIsUncertain DEF Clear, OrderKeys
  <2>5. held[a][side].opener = j.strategy /\ j.owner = a[1]
    BY <2>3 DEF Only, Account
  <2>6. j \in Matching(a, side)
    BY <2>2, <2>3, <2>4, <2>5 DEF Matching, Account
  <2>7. j.strategy \in Origins(a)
    <3>1. side \in Holds(a)
      BY <1>4 DEF Holds
    <3> QED
      BY <1>2, <2>6, <3>1 DEF Origins
  <2> QED
    BY <1>1, <1>2, <2>3, <2>7 DEF Only
<1>5. k.market \in resolved /\ \E side \in Sides : held[a][side] # Empty
  BY <1>1 DEF Due, Holds
<1>6. Attributed(k)
  BY <1>1, <1>4, <1>5 DEF Attributed
<1> QED
  BY <1>1, <1>6

(* A cycle begins, and settles what the strategies opened.                 *)
LEMMA SettlingKeepsSolo ==
  ASSUME RunnerAssumption, OneKeyHolder, SoloInv, OnceInv', NEW p \in Processes,
         UNCHANGED <<attempts, txVars, vaultVars>>,
         \/ \E s \in Strategies : StartCycle(p, s)
         \/ \E a \in Owners \X Markets : SettleRead(p, a)
         \/ \E windows \in SUBSET Markets : Settled(p, windows)
  PROVE  SoloInv'
<1>1. PICK q \in Process : q = proc[p] /\ Agrees(q) /\ Knows(q)
  BY DEF SoloInv, OnceInv, TypeOK
<1>2. count \in Nat /\ proc \in [Processes -> Process]
  BY DEF SoloInv, OnceInv, TypeOK, ChainTypeOK
<1>3. ASSUME NEW s \in Strategies, StartCycle(p, s) PROVE SoloInv'
  <2>1. PICK r : r = [Idle EXCEPT !.pc = "settle", !.strategy = s,
                        !.queue = q.queue \ {s}, !.accounts = Owners \X Markets]
    OBVIOUS
  <2>2. q.queue \ {s} \subseteq Strategies
    BY ProcessFields
  <2>3. r \in Process /\ r.pc = "settle"
    BY <2>1, <2>2, IdleTyped DEF Process, Cycling
  <2>4. Clear
    BY <1>1, <1>3 DEF StartCycle, At, Knows
  <2>5. proc' = [proc EXCEPT ![p] = r]
    BY <1>1, <1>3, <2>1 DEF StartCycle
  <2>9. Knows(r)
    BY <2>3, <2>4, <2>5, ClearKnows
  <2> QED
    BY <2>3, <2>4, <2>5, <2>9, SoloMovesAlone
<1>4. ASSUME NEW a \in Owners \X Markets, SettleRead(p, a) PROVE SoloInv'
  <2>1. q.pc = "settle" /\ Clear
    BY <1>1, <1>4 DEF SettleRead, At, Knows
  <2>2. CASE proc' = [proc EXCEPT ![p].accounts = @ \ {a}]
    <3>1. PICK r : r = [q EXCEPT !.accounts = q.accounts \ {a}]
      OBVIOUS
    <3>2. q.accounts \ {a} \subseteq Owners \X Markets
      BY ProcessFields
    <3>3. r \in Process /\ r.pc = "settle"
      BY <2>1, <3>1, <3>2 DEF Process
    <3>4. proc' = [proc EXCEPT ![p] = r]
      BY <1>1, <1>2, <2>2, <3>1
    <3>9. Knows(r)
      BY <2>1, <3>3, <3>4, ClearKnows
    <3> QED
      BY <2>1, <3>3, <3>4, <3>9, SoloMovesAlone
  <2>3. CASE Throw(p)
    BY <2>3, ExceptionKeepsSolo
  <2>4. ASSUME Due(a), Cardinality(Origins(a)) = 1,
               NEW s \in Origins(a), NEW key, key = KeyOf("settle", s, a[1], a[2]),
               proc' = [proc EXCEPT ![p] = Reserving(@, key, "up")]
        PROVE  SoloInv'
    <3>1. key \in Keys /\ key.kind = "settle" /\ Attributed(key)
      BY <2>1, <2>4, OriginsTyped, KeyOfFields, OriginIsOpener
    <3>2. PICK r \in Process :
            /\ r = Reserving(q, key, "up") /\ r.pc = "reserve"
            /\ r.job = [key |-> key, side |-> "up", nonce |-> count]
      BY <1>2, <3>1, ReservingFields DEF Sides
    <3>3. Knows(r)
      BY <2>1, <3>1, <3>2 DEF Knows, Sending
    <3>4. proc' = [proc EXCEPT ![p] = r]
      BY <1>1, <1>2, <2>4, <3>2
    <3> QED
      BY <3>3, <3>4, SoloMovesAlone
  <2> QED
    BY <1>4, <2>2, <2>3, <2>4 DEF SettleRead
<1>5. ASSUME NEW windows \in SUBSET Markets, Settled(p, windows) PROVE SoloInv'
  <2>1. PICK r : r = [q EXCEPT !.pc = "scan", !.windows = windows]
    OBVIOUS
  <2>2. r \in Process /\ r.pc = "scan"
    BY <2>1 DEF Process, Cycling
  <2>3. Clear
    BY <1>1, <1>5 DEF Settled, At, Knows
  <2>4. proc' = [proc EXCEPT ![p] = r]
    BY <1>1, <1>2, <1>5, <2>1 DEF Settled
  <2>9. Knows(r)
    BY <2>2, <2>3, <2>4, ClearKnows
  <2> QED
    BY <2>2, <2>3, <2>4, <2>9, SoloMovesAlone
<1> QED
  BY <1>3, <1>4, <1>5

LEMMA PickedTyped ==
  ASSUME NEW q \in Process, NEW m \in Markets, NEW side
  PROVE  Picked(q, m, side) \in Process /\ Picked(q, m, side).pc = "scan"
<1>1. PICK x : x = IF side \in Sides THEN q.picks \cup {<<o, m, side>> : o \in Owners} ELSE q.picks
  OBVIOUS
<1>2. q.picks \subseteq Picks /\ q.windows \ {m} \subseteq Markets
  BY ProcessFields
<1>3. side \in Sides => {<<o, m, side>> : o \in Owners} \subseteq Picks
  BY DEF Picks
<1>4. x \subseteq Picks
  BY <1>1, <1>2, <1>3
<1>5. PICK r : r = [q EXCEPT !.pc = "scan", !.windows = q.windows \ {m}, !.asked = Nobody, !.picks = x]
  OBVIOUS
<1>6. r \in Process /\ r.pc = "scan"
  BY <1>2, <1>4, <1>5 DEF Process, Cycling
<1>7. r = Picked(q, m, side)
  BY <1>1, <1>5 DEF Picked
<1> QED
  BY <1>6, <1>7

(* The scan and the model's call, and the end of a cycle.                  *)
LEMMA ScanKeepsSolo ==
  ASSUME RunnerAssumption, OneKeyHolder, SoloInv, OnceInv', NEW p \in Processes,
         UNCHANGED <<attempts, txVars, vaultVars>>,
         \/ \E m \in Markets : \/ \E side \in Sides \cup {Nobody} : Follow(p, m, side)
                               \/ Recall(p, m) \/ AskModel(p, m)
         \/ \E call \in Sides \cup {"held", "failed"} : ModelAnswers(p, call)
         \/ Scanned(p) \/ Executed(p)
  PROVE  SoloInv'
<1>1. PICK q \in Process : q = proc[p] /\ Agrees(q) /\ Knows(q)
  BY DEF SoloInv, OnceInv, TypeOK
<1>2. proc \in [Processes -> Process]
  BY DEF SoloInv, OnceInv, TypeOK
<1>3. q.pc \in {"scan", "model", "execute"} /\ Clear
  <2>1. q.pc \in {"scan", "model", "execute"}
    BY <1>1 DEF Follow, Recall, AskModel, ModelAnswers, Scanned, Executed, At
  <2> QED
    BY <1>1, <2>1 DEF Knows
<1>4. ASSUME NEW m \in Markets, NEW side, proc' = [proc EXCEPT ![p] = Picked(@, m, side)]
      PROVE  SoloInv'
  <2>1. PICK r \in Process : r = Picked(q, m, side) /\ r.pc = "scan"
    BY PickedTyped
  <2>2. proc' = [proc EXCEPT ![p] = r]
    BY <1>1, <1>4, <2>1
  <2>9. Knows(r)
    BY <1>3, <2>1, <2>2, ClearKnows
  <2> QED
    BY <1>3, <2>1, <2>2, <2>9, SoloMovesAlone
<1>5. ASSUME NEW m \in Markets, AskModel(p, m) PROVE SoloInv'
  <2>1. PICK r : r = [q EXCEPT !.pc = "model", !.asked = m]
    OBVIOUS
  <2>2. r \in Process /\ r.pc = "model"
    BY <2>1 DEF Process, Cycling
  <2>3. proc' = [proc EXCEPT ![p] = r]
    BY <1>1, <1>2, <1>5, <2>1 DEF AskModel
  <2>9. Knows(r)
    BY <1>3, <2>2, <2>3, ClearKnows
  <2> QED
    BY <1>3, <2>2, <2>3, <2>9, SoloMovesAlone
<1>6. ASSUME NEW call, ModelAnswers(p, call) PROVE SoloInv'
  <2>1. q.asked \in Markets
    BY <1>1, <1>6 DEF ModelAnswers, At, Agrees
  <2>2. CASE Throw(p)
    BY <2>2, ExceptionKeepsSolo
  <2>3. CASE proc' = [proc EXCEPT ![p] = Picked(@, q.asked, call)]
    BY <1>4, <2>1, <2>3
  <2> QED
    BY <1>1, <1>6, <2>2, <2>3 DEF ModelAnswers
<1>7. CASE Scanned(p)
  <2>1. PICK r : r = [q EXCEPT !.pc = "execute"]
    OBVIOUS
  <2>2. r \in Process /\ r.pc = "execute"
    BY <2>1 DEF Process, Cycling
  <2>3. proc' = [proc EXCEPT ![p] = r]
    BY <1>1, <1>2, <1>7, <2>1 DEF Scanned
  <2>9. Knows(r)
    BY <1>3, <2>2, <2>3, ClearKnows
  <2> QED
    BY <1>3, <2>2, <2>3, <2>9, SoloMovesAlone
<1>8. CASE Executed(p)
  <2>1. PICK r \in Process : r = After(q) /\ r.pc = "next"
    BY Rests
  <2>2. proc' = [proc EXCEPT ![p] = r]
    BY <1>1, <1>8, <2>1 DEF Executed
  <2>9. Knows(r)
    BY <1>3, <2>1, <2>2, ClearKnows
  <2> QED
    BY <1>3, <2>1, <2>2, <2>9, SoloMovesAlone
<1>9. ASSUME NEW m \in Markets, NEW side, Follow(p, m, side) PROVE SoloInv'
  BY <1>4, <1>9 DEF Follow
<1>10. ASSUME NEW m \in Markets, Recall(p, m) PROVE SoloInv'
  <2>1. PICK side : proc' = [proc EXCEPT ![p] = Picked(@, m, side)]
    BY <1>10 DEF Recall
  <2> QED
    BY <1>4, <2>1
<1> QED
  BY <1>5, <1>6, <1>7, <1>8, <1>9, <1>10

(* An order is prepared where nothing is held and nothing is in flight.    *)
LEMMA OrderReadKeepsSolo ==
  ASSUME RunnerAssumption, OneKeyHolder, SoloInv, OnceInv', NEW p \in Processes,
         UNCHANGED <<attempts, txVars, vaultVars>>,
         NEW o \in Owners, NEW m \in Markets, NEW side \in Sides, OrderRead(p, o, m, side)
  PROVE  SoloInv'
<1>1. PICK q \in Process : q = proc[p] /\ Agrees(q) /\ Knows(q)
  BY DEF SoloInv, OnceInv, TypeOK
<1>2. proc \in [Processes -> Process] /\ count \in Nat
  BY DEF SoloInv, OnceInv, TypeOK, ChainTypeOK
<1>3. q.pc = "execute" /\ Clear
  BY <1>1 DEF OrderRead, At, Knows
<1>4. q.strategy \in Strategies
  BY <1>1, <1>3 DEF Agrees, Cycling
<1>5. PICK key \in Keys : /\ key = KeyOf("order", q.strategy, o, m) /\ key.kind = "order"
                          /\ Account(key) = <<o, m>>
  BY <1>4, KeyOfFields DEF Account
<1>6. CASE proc' = [proc EXCEPT ![p] = Left(@)]
  <2>1. PICK r \in Process : r = Left(q) /\ r.pc = "next" /\ r.unresolved # {}
    BY <1>4, Rests
  <2>2. proc' = [proc EXCEPT ![p] = r]
    BY <1>1, <1>6, <2>1
  <2>9. Knows(r)
    BY <2>1, <2>2, RestKnows
  <2> QED
    BY <2>1, <2>2, <2>9, SoloMovesAlone
<1>7. CASE Throw(p)
  BY <1>7, ExceptionKeepsSolo
<1>8. CASE proc' = [proc EXCEPT ![p].picks = @ \ {<<o, m, side>>}]
  <2>1. PICK r : r = [q EXCEPT !.picks = q.picks \ {<<o, m, side>>}]
    OBVIOUS
  <2>2. q.picks \ {<<o, m, side>>} \subseteq Picks
    BY ProcessFields
  <2>3. r \in Process /\ r.pc = "execute"
    BY <1>3, <2>1, <2>2 DEF Process
  <2>4. proc' = [proc EXCEPT ![p] = r]
    BY <1>1, <1>2, <1>8, <2>1
  <2>9. Knows(r)
    BY <1>3, <2>3, <2>4, ClearKnows
  <2> QED
    BY <1>3, <2>3, <2>4, <2>9, SoloMovesAlone
<1>9. CASE proc' = [proc EXCEPT ![p] = Reserving(@, key, side)] /\ Holds(<<o, m>>) = {}
  <2>1. PICK r \in Process :
          /\ r = Reserving(q, key, side) /\ r.pc = "reserve"
          /\ r.job = [key |-> key, side |-> side, nonce |-> count]
    BY <1>2, ReservingFields
  <2>2. OwnersAlone(key)
    BY <1>5, <1>9 DEF OwnersAlone, Holds, Owned
  <2>3. Knows(r)
    BY <1>3, <1>5, <2>1, <2>2 DEF Knows, Sending
  <2>4. proc' = [proc EXCEPT ![p] = r]
    BY <1>1, <1>9, <2>1
  <2> QED
    BY <2>3, <2>4, SoloMovesAlone
<1> QED
  BY <1>1, <1>5, <1>6, <1>7, <1>8, <1>9 DEF OrderRead

(* What the process makes of a send: an answer that is lost is "unknown".  *)
LEMMA ConcludingKeepsSolo ==
  ASSUME RunnerAssumption, OneKeyHolder, SoloInv, OnceInv', NEW p \in Processes,
         UNCHANGED <<attempts, txVars, vaultVars>>,
         \/ \E state \in {"refused", "unknown"} : NotSent(p, state)
         \/ Answered(p) \/ Awaited(p)
  PROVE  SoloInv'
<1>1. PICK q \in Process : q = proc[p] /\ Agrees(q) /\ Knows(q)
  BY DEF SoloInv, OnceInv, TypeOK
<1>2. proc \in [Processes -> Process] /\ tx \in [Keys -> TxStates]
  BY DEF SoloInv, OnceInv, TypeOK, ChainTypeOK
<1>3. q.pc \in {"send", "answer", "await"}
  BY <1>1 DEF NotSent, Answered, Awaited, At
<1>4. PICK k \in Keys : k = q.job.key
  BY <1>1, <1>3 DEF Agrees, Jobbing, Sending
<1>5. ASSUME NEW state \in States \ {"none", "attempting"}, NEW hash \in BOOLEAN,
             Concludes(p, state, hash),
             state \in Landed => tx[k] = state,
             state = "refused" => tx[k] = "none",
             state = "settled" => k.kind = "settle" /\ Account(k) \in closed
      PROVE  SoloInv'
  <2>1. PICK f : f = [state |-> state, hash |-> hash]
    OBVIOUS
  <2>2. PICK r : r = [q EXCEPT !.pc = "save", !.fin = f]
    OBVIOUS
  <2>3. f \in [state: States, hash: BOOLEAN] /\ f.state = state
    BY <2>1
  <2>4. r \in Process /\ r.pc = "save" /\ r.job = q.job /\ r.fin = f
    BY <2>2, <2>3 DEF Process, Cycling, Jobbing, Sending
  <2>5. Knows(r)
    BY <1>1, <1>3, <1>4, <1>5, <2>3, <2>4 DEF Knows, Sending
  <2>6. proc' = [proc EXCEPT ![p] = r]
    BY <1>1, <1>2, <1>5, <2>1, <2>2 DEF Concludes
  <2> QED
    BY <2>4, <2>5, <2>6, SoloMovesAlone
<1>6. CASE Answered(p) /\ proc' = [proc EXCEPT ![p].pc = "await"]
  <2>1. PICK r : r = [q EXCEPT !.pc = "await"]
    OBVIOUS
  <2>2. r \in Process /\ r.pc = "await" /\ r.job = q.job
    BY <2>1 DEF Process, Cycling, Jobbing, Sending
  <2>3. Knows(r)
    BY <1>1, <1>3, <2>2 DEF Knows, Sending
  <2>4. proc' = [proc EXCEPT ![p] = r]
    BY <1>1, <1>2, <1>6, <2>1
  <2> QED
    BY <2>2, <2>3, <2>4, SoloMovesAlone
<1>7. CASE \E hash \in BOOLEAN : Concludes(p, "unknown", hash)
  BY <1>5, <1>7 DEF States, Landed
<1>8. CASE NotSent(p, "refused")
  <2>1. Concludes(p, "refused", FALSE) /\ tx[k] = "none"
    BY <1>1, <1>4, <1>8 DEF NotSent, At, Knows
  <2> QED
    BY <1>5, <2>1 DEF States, Landed
<1>9. CASE Awaited(p) /\ Concludes(p, tx[k], TRUE) /\ tx[k] # "pending"
  <2>1. PICK v \in TxStates : v = tx[k] /\ v # "pending" /\ v # "none"
    BY <1>1, <1>2, <1>4, <1>9 DEF Awaited, At, Agrees
  <2>2. v \in States \ {"none", "attempting"} /\ v # "refused"
    BY <2>1 DEF TxStates, States, Landed
  <2>3. v = "settled" => k.kind = "settle" /\ Account(k) \in closed
    BY <2>1 DEF SoloInv, World, Told
  <2> QED
    BY <1>5, <1>9, <2>1, <2>2, <2>3
<1> QED
  BY <1>1, <1>4, <1>6, <1>7, <1>8, <1>9 DEF NotSent, Answered, Awaited, OneKeyHolder

-----------------------------------------------------------------------------
(* The steps that write a row.                                             *)

\* A row that may be written for k as the chain stands.
TrueRow(k, row) ==
  /\ row.state \in Landed => tx[k] = row.state
  /\ row.state \in {"none", "refused"} => tx[k] = "none"
  /\ row.state = "settled" => k.kind = "settle" /\ Account(k) \in closed
  /\ tx[k] # "none" => row.nonce = nonceOf[k]
  /\ tx[k] = "none" /\ row.state \in Uncertain => row.nonce = count

LEMMA RowMoves ==
  ASSUME SoloInv, NEW k \in Keys, NEW row \in Row, attempts' = [attempts EXCEPT ![k] = row],
         UNCHANGED <<txVars, vaultVars>>, TrueRow(k, row),
         k.kind = "settle" => Attributed(k), row.side = attempts[k].side \/ tx[k] = "none"
  PROVE  World'
<1>1. UNCHANGED <<tx, nonceOf, count, held, closed, resolved>>
  BY DEF txVars, vaultVars
<1>2. World /\ Told /\ Nonces /\ Positions /\ SettleRows /\ Flight
  BY DEF SoloInv, World
<1>3. /\ attempts'[k] = row /\ \A j \in Keys : j # k => attempts'[j] = attempts[j]
  BY DEF SoloInv, OnceInv, TypeOK, StoreTypeOK
<1>4. Told'
  <2> SUFFICES ASSUME NEW j \in Keys
               PROVE  /\ attempts'[j].state \in Landed => tx[j] = attempts'[j].state
                      /\ attempts'[j].state \in {"none", "refused"} => tx[j] = "none"
                      /\ "settled" \in {attempts'[j].state, tx[j]} => j.kind = "settle" /\ Account(j) \in closed
    BY <1>1 DEF Told
  <2>1. CASE j = k
    BY <1>2, <1>3, <2>1 DEF Told, TrueRow
  <2>2. CASE j # k
    BY <1>2, <1>3, <2>2 DEF Told
  <2> QED
    BY <2>1, <2>2
<1>5. Nonces'
  <2>1. ASSUME NEW j \in Keys
        PROVE  /\ tx[j] # "none" => nonceOf[j] < count /\ attempts'[j].nonce = nonceOf[j]
               /\ tx[j] = "none" /\ attempts'[j].state \in Uncertain => attempts'[j].nonce = count
    <3>1. CASE j = k
      BY <1>2, <1>3, <3>1 DEF Nonces, TrueRow
    <3>2. CASE j # k
      BY <1>2, <1>3, <3>2 DEF Nonces, IsUncertain
    <3> QED
      BY <3>1, <3>2
  <2> QED
    BY <1>1, <1>2, <2>1 DEF Nonces, IsUncertain
<1>6. Positions'
  <2>1. ASSUME NEW a \in Owners \X Markets, NEW side \in Sides, Explained(a, side)
        PROVE  Explained(a, side)'
    <3>1. PICK j \in OrderKeys : /\ Account(j) = a /\ held[a][side] = Only(j)
                                /\ tx[j] = "filled" /\ attempts[j].side = side
      BY <2>1 DEF Explained
    <3>2. attempts'[j].side = side
      BY <1>3, <3>1 DEF OrderKeys
    <3> QED
      BY <1>1, <3>1, <3>2 DEF Explained
  <2> QED
    BY <1>1, <1>2, <2>1 DEF Positions
<1>7. ASSUME NEW j PROVE Attributed(j)' <=> Attributed(j)
  BY <1>1 DEF Attributed
<1>8. SettleRows'
  <2> SUFFICES ASSUME NEW j \in Keys, j.kind = "settle", attempts'[j].state # "none"
               PROVE  Attributed(j)'
    BY DEF SettleRows, Reserved
  <2>1. CASE j = k
    BY <1>7, <2>1
  <2>2. CASE j # k
    BY <1>2, <1>3, <1>7, <2>2 DEF SettleRows, Reserved
  <2> QED
    BY <2>1, <2>2
<1>9. ASSUME NEW j PROVE OwnersAlone(j)' <=> OwnersAlone(j)
  BY <1>1 DEF OwnersAlone
<1>10. Flight'
  BY <1>1, <1>2, <1>9 DEF Flight, OneFlies
<1> QED
  BY <1>4, <1>5, <1>6, <1>8, <1>10 DEF World

(* The row of an order that is being sent, or was, takes a true outcome.   *)
LEMMA OutcomeIsTrue ==
  ASSUME SoloInv, NEW k \in Keys, IsUncertain(k), NEW row, row.nonce = attempts[k].nonce,
         row.state \in Landed => tx[k] = row.state,
         row.state \in {"none", "refused"} => tx[k] = "none",
         row.state = "settled" => k.kind = "settle" /\ Account(k) \in closed
  PROVE  TrueRow(k, row)
BY DEF SoloInv, World, Nonces, TrueRow

LEMMA FinishedFields ==
  ASSUME NEW row \in Row, NEW state, NEW hash
  PROVE  /\ Finished(row, state, hash).state
               = IF row.state \in {"filled", "settled"} THEN row.state ELSE state
         /\ row.state \in Uncertain => Recorded(row, state, hash).state = state
<1>1. row.state \in Uncertain => row.state \notin {"filled", "settled"}
  BY DEF Uncertain
<1>2. CASE row.state \in {"filled", "settled"}
  <2>1. Finished(row, state, hash) = row
    BY <1>2 DEF Finished
  <2> QED
    BY <1>1, <1>2, <2>1
<1>3. CASE row.state \notin {"filled", "settled"}
  <2>1. PICK h : h = (row.hash \/ hash)
    OBVIOUS
  <2>2. PICK x : x = [row EXCEPT !.state = state, !.hash = h]
    OBVIOUS
  <2>3. Finished(row, state, hash) = x
    BY <1>3, <2>1, <2>2 DEF Finished
  <2>4. x.state = state
    BY <2>2 DEF Row
  <2>5. CASE state = "filled"
    <3>1. Recorded(row, state, hash) = [row EXCEPT !.state = "filled", !.hash = TRUE]
      BY <2>5 DEF Recorded
    <3> QED
      BY <1>3, <2>3, <2>4, <2>5, <3>1 DEF Row
  <2>6. CASE state # "filled"
    BY <1>3, <2>3, <2>4, <2>6 DEF Recorded
  <2> QED
    BY <2>5, <2>6
<1> QED
  BY <1>2, <1>3

(* The reservation, with the nonce the order will have.                    *)
LEMMA ReserveKeepsSolo ==
  ASSUME RunnerAssumption, OneKeyHolder, SoloInv, OnceInv', NEW p \in Processes, Reserve(p)
  PROVE  SoloInv'
<1>1. PICK q \in Process : q = proc[p] /\ Agrees(q) /\ Knows(q)
  BY DEF SoloInv, OnceInv, TypeOK
<1>2. proc \in [Processes -> Process] /\ attempts \in [Keys -> Row]
  BY DEF SoloInv, OnceInv, TypeOK, StoreTypeOK
<1>3. q.pc = "reserve" /\ Clear /\ UNCHANGED <<txVars, vaultVars>>
  BY <1>1 DEF Reserve, At, Knows
<1>0. PICK j : j = q.job
  OBVIOUS
<1>4. PICK k \in Keys : k = j.key /\ j = q.job
  BY <1>0, <1>1, <1>3 DEF Agrees, Jobbing
<1>5. /\ j.side \in Sides /\ j.nonce \in Nat /\ j.nonce = count
      /\ k.kind = "settle" => Attributed(k)
      /\ k.kind = "order" => OwnersAlone(k)
  BY <1>1, <1>3, <1>4, ProcessFields DEF Knows
<1>6. PICK row \in Row :
        /\ row = [state |-> "attempting", hash |-> FALSE, nonce |-> j.nonce, side |-> j.side]
        /\ row.state = "attempting" /\ row.nonce = count
  <2>1. PICK x : x = [state |-> "attempting", hash |-> FALSE, nonce |-> j.nonce, side |-> j.side]
    OBVIOUS
  <2>2. x \in Row /\ x.state = "attempting" /\ x.nonce = count
    BY <1>5, <2>1 DEF Row, States
  <2> QED
    BY <2>1, <2>2
<1>7. ASSUME NEW r \in Process, r.pc = "next" \/ r.pc \in {"settle", "execute"},
             proc' = [proc EXCEPT ![p] = r], UNCHANGED attempts
      PROVE  SoloInv'
  <2>1. Knows(r)
    BY <1>3, <1>7, ClearKnows
  <2> QED
    BY <1>3, <1>7, <2>1, SoloMovesAlone
<1>8. ASSUME Free(k), attempts' = [attempts EXCEPT ![k] = row],
             proc' = [proc EXCEPT ![p].pc = "send"] \/ Throw(p)
      PROVE  SoloInv'
  <2>1. tx[k] = "none"
    BY <1>8 DEF Free, SoloInv, World, Told
  <2>2. TrueRow(k, row)
    BY <1>6, <2>1 DEF TrueRow, Landed
  <2>3. World'
    BY <1>3, <1>5, <1>8, <2>1, <2>2, RowMoves
  <2>4. /\ attempts'[k] = row /\ \A i \in Keys : i # k => attempts'[i] = attempts[i]
    BY <1>2, <1>8
  <2>5. CASE proc' = [proc EXCEPT ![p].pc = "send"]
    <3>1. PICK r : r = [q EXCEPT !.pc = "send"]
      OBVIOUS
    <3>2. r \in Process /\ r.pc = "send" /\ r.job.key = k
      BY <1>4, <3>1 DEF Process, Cycling, Jobbing, Sending
    <3>3. \A i \in Keys : IsUncertain(i)' => i = k
      BY <1>3, <2>4 DEF Clear, IsUncertain
    <3>4. tx'[k] = "none"
      BY <1>3, <2>1 DEF txVars
    <3>5. k.kind = "order" => OwnersAlone(k)'
      BY <1>3, <1>5 DEF OwnersAlone, vaultVars
    <3>6. attempts'[k].state = "attempting"
      BY <1>6, <2>4
    <3>7. Knows(r)'
      BY <3>2, <3>3, <3>4, <3>5, <3>6 DEF Knows, Sending, OwnersAlone
    <3>8. proc' = [proc EXCEPT ![p] = r]
      BY <1>1, <1>2, <2>5, <3>1
    <3> QED
      BY <2>3, <3>2, <3>7, <3>8, SoloMoves
  <2>6. CASE Throw(p)
    <3>1. PICK r \in Process : r = Thrown(q) /\ r.pc = "list"
      BY Rests
    <3>2. proc' = [proc EXCEPT ![p] = r]
      BY <1>1, <2>6, <3>1 DEF Throw
    <3>3. Knows(r)'
      BY <3>1 DEF Knows, Sending
    <3> QED
      BY <2>3, <3>2, <3>3, SoloMoves
  <2> QED
    BY <1>8, <2>5, <2>6
<1>9. CASE Throw(p) /\ UNCHANGED attempts
  BY <1>3, <1>9, ExceptionKeepsSolo
<1>10. CASE proc' = [proc EXCEPT ![p] = Resumed(@)] /\ UNCHANGED attempts
  <2>1. PICK r \in Process : r = Resumed(q) /\ r.pc \in {"execute", "settle"}
    BY ResumedFields
  <2>2. proc' = [proc EXCEPT ![p] = r]
    BY <1>1, <1>10, <2>1
  <2> QED
    BY <1>7, <1>10, <2>1, <2>2
<1> QED
  BY <1>1, <1>4, <1>6, <1>8, <1>9, <1>10 DEF Reserve

(* The outcome of the job is the chain's, and is stored as far as it can.  *)
LEMMA SavingKeepsSolo ==
  ASSUME RunnerAssumption, OneKeyHolder, SoloInv, OnceInv', NEW p \in Processes,
         Save(p) \/ SaveFails(p)
  PROVE  SoloInv'
<1>1. PICK q \in Process : q = proc[p] /\ Agrees(q) /\ Knows(q)
  BY DEF SoloInv, OnceInv, TypeOK
<1>2. proc \in [Processes -> Process] /\ attempts \in [Keys -> Row]
  BY DEF SoloInv, OnceInv, TypeOK, StoreTypeOK
<1>3. q.pc = "save" /\ UNCHANGED <<txVars, vaultVars>>
  BY <1>1 DEF Save, SaveFails, At
<1>4. PICK k \in Keys : k = q.job.key
  BY <1>1, <1>3 DEF Agrees, Jobbing, Sending
<1>5. /\ attempts[k].state = "attempting" /\ IsUncertain(k)
      /\ \A j \in Keys : IsUncertain(j) => j = k
  BY <1>1, <1>3, <1>4 DEF Knows, Sending, IsUncertain, Uncertain
<1>6. PICK row \in Row, state \in States \ {"none"}, hash \in BOOLEAN :
        row = attempts[k] /\ state = q.fin.state /\ hash = q.fin.hash
  BY <1>1, <1>2, <1>3, ProcessFields DEF Agrees
<1>7. /\ state \in Landed => tx[k] = state
      /\ state = "refused" => tx[k] = "none"
      /\ state = "settled" => k.kind = "settle" /\ Account(k) \in closed
      /\ state # "attempting"
  BY <1>1, <1>3, <1>4, <1>6 DEF Knows
<1>8. k.kind = "settle" => Attributed(k)
  BY <1>5 DEF SoloInv, World, SettleRows, Reserved
<1>9. PICK saved \in Row : /\ saved = Recorded(row, state, hash) /\ saved.state = state
                           /\ saved.side = row.side /\ saved.nonce = row.nonce
  BY <1>5, <1>6, RecordedFields, FinishedFields DEF IsUncertain
<1>10. ASSUME NEW new \in Row, attempts' = [attempts EXCEPT ![k] = new], new.side = row.side,
              new.nonce = row.nonce, new.state \in {state, "unknown", "attempting"}
       PROVE  World'
  <2>1. TrueRow(k, new)
    BY <1>5, <1>6, <1>7, <1>10, OutcomeIsTrue DEF Landed
  <2> QED
    BY <1>3, <1>6, <1>8, <1>10, <2>1, RowMoves
<1>11. ASSUME World', proc' = [proc EXCEPT ![p] = Thrown(q)] \/ proc' = [proc EXCEPT ![p] = Left(q)]
       PROVE  SoloInv'
  <2>1. q.strategy \in Strategies
    BY <1>1, <1>3 DEF Agrees, Cycling, Jobbing, Sending
  <2>2. PICK r \in Process : /\ r.pc = "list" \/ (r.pc = "next" /\ r.unresolved # {})
                             /\ proc' = [proc EXCEPT ![p] = r]
    BY <1>11, <2>1, Rests
  <2>3. Knows(r)'
    BY <2>2 DEF Knows, Sending
  <2> QED
    BY <1>11, <2>2, <2>3, SoloMoves
<1>12. CASE Save(p)
  <2>1. attempts' = [attempts EXCEPT ![k] = saved]
    BY <1>1, <1>2, <1>4, <1>6, <1>9, <1>12 DEF Save
  <2>2. World'
    BY <1>9, <1>10, <2>1
  <2>3. \/ proc' = [proc EXCEPT ![p] = Thrown(q)] \/ proc' = [proc EXCEPT ![p] = Left(q)]
        \/ state \notin Uncertain /\ proc' = [proc EXCEPT ![p] = Resumed(q)]
    BY <1>1, <1>4, <1>6, <1>7, <1>12 DEF Save, Throw, Uncertain
  <2>4. CASE state \notin Uncertain /\ proc' = [proc EXCEPT ![p] = Resumed(q)]
    <3>1. PICK r \in Process : r = Resumed(q) /\ r.pc \in {"execute", "settle"}
      BY ResumedFields
    <3>2. /\ attempts'[k] = saved /\ \A i \in Keys : i # k => attempts'[i] = attempts[i]
      BY <1>2, <2>1
    <3>3. Clear'
      BY <1>5, <1>9, <2>4, <3>2 DEF Clear, IsUncertain
    <3>4. Knows(r)'
      BY <3>1, <3>3 DEF Knows, Sending
    <3>5. proc' = [proc EXCEPT ![p] = r]
      BY <2>4, <3>1
    <3> QED
      BY <2>2, <3>4, <3>5, SoloMoves
  <2> QED
    BY <1>11, <2>2, <2>3, <2>4
<1>13. CASE SaveFails(p)
  <2>1. PICK u \in States \ {"none"}, no \in BOOLEAN : u = "unknown" /\ no = FALSE
    BY DEF States
  <2>2. ASSUME NEW x \in Row, x = row \/ x = saved
        PROVE  /\ Finished(x, u, no) \in Row /\ Finished(x, u, no).state \in {state, "unknown"}
               /\ Finished(x, u, no).side = row.side /\ Finished(x, u, no).nonce = row.nonce
    <3>1. /\ Finished(x, u, no) \in Row
          /\ Finished(x, u, no).side = x.side /\ Finished(x, u, no).nonce = x.nonce
          /\ Finished(x, u, no).state = IF x.state \in {"filled", "settled"} THEN x.state ELSE u
      BY RecordedFields, FinishedFields
    <3>2. row.state = "attempting"
      BY <1>5, <1>6
    <3> QED
      BY <1>9, <2>1, <2>2, <3>1, <3>2
  <2>3. PICK stored : stored = {row, saved}
    OBVIOUS
  <2>4. stored = {attempts[k], Recorded(attempts[k], q.fin.state, q.fin.hash)}
    BY <1>6, <1>9, <2>3
  <2>5. \E r \in stored \cup {Finished(x, "unknown", FALSE) : x \in stored} :
          attempts' = [attempts EXCEPT ![k] = r]
    BY <1>1, <1>4, <1>13, <2>4 DEF SaveFails
  <2>6. PICK new : /\ attempts' = [attempts EXCEPT ![k] = new]
                   /\ \/ new = row \/ new = saved
                      \/ new = Finished(row, u, no) \/ new = Finished(saved, u, no)
    BY <2>1, <2>3, <2>5
  <2>7. /\ new \in Row /\ new.side = row.side /\ new.nonce = row.nonce
        /\ new.state \in {state, "unknown", "attempting"}
    <3>1. CASE new = row
      BY <1>5, <1>6, <3>1
    <3>2. CASE new = saved
      BY <1>9, <3>2
    <3>3. CASE new = Finished(row, u, no)
      BY <2>2, <3>3
    <3>4. CASE new = Finished(saved, u, no)
      BY <1>9, <2>2, <3>4
    <3> QED
      BY <2>6, <3>1, <3>2, <3>3, <3>4
  <2>8. World'
    BY <1>10, <2>6, <2>7
  <2>9. proc' = [proc EXCEPT ![p] = Thrown(q)] \/ proc' = [proc EXCEPT ![p] = Left(q)]
    BY <1>1, <1>13 DEF SaveFails, Throw
  <2> QED
    BY <1>11, <2>8, <2>9
<1> QED
  BY <1>12, <1>13

(* What the chain answers for a listed row is about the row's own          *)
(* transaction: no other transaction of the key has its nonce.             *)
LEMMA FindingsAreTrue ==
  ASSUME SoloInv, NEW row \in Listing, Current(row), NEW found \in Findings(row),
         found # "unreadable"
  PROVE  /\ found \in Landed \cup {"unknown", "settled"}
         /\ found \in Landed => tx[row.key] = found
         /\ found = "settled" => row.key.kind = "settle" /\ Account(row.key) \in closed
<1>1. PICK k \in Keys : k = row.key
  BY DEF Listing
<1>2. IsUncertain(k) /\ row.nonce = attempts[k].nonce
  BY <1>1 DEF Current
<1>3. World /\ Nonces /\ SettleRows
  BY DEF SoloInv, World
<1>4. CASE k.kind = "settle"
  <2>1. Attributed(k)
    BY <1>2, <1>3, <1>4 DEF SettleRows, Reserved, IsUncertain, Uncertain
  <2>2. Holds(Account(k)) = {} => Account(k) \in closed
    BY <2>1 DEF Attributed, Holds
  <2>3. \/ found = "settled" /\ Holds(Account(k)) = {}
        \/ found = "reverted" /\ tx[k] = "reverted"
        \/ found = "unknown"
    BY <1>1, <1>4 DEF Findings
  <2> QED
    BY <1>1, <1>4, <2>2, <2>3 DEF Landed
<1>5. CASE k.kind # "settle"
  <2>1. found = "unknown" \/ found \in Landed
    BY <1>1, <1>5 DEF Findings
  <2>2. ASSUME found \in Landed PROVE tx[k] = found
    <3>1. CASE row.hash /\ tx[k] = found
      BY <3>1
    <3>2. CASE \E j \in OrderKeys : tx[j] = found /\ Evidence(row, j)
      <4>1. PICK j \in Keys : tx[j] = found /\ nonceOf[j] = row.nonce
        BY <3>2 DEF Evidence, OrderKeys
      <4>2. tx[j] # "none" /\ nonceOf[j] < count
        BY <1>3, <2>2, <4>1 DEF Nonces, Landed
      <4>3. nonceOf[j] \in Nat /\ count \in Nat
        BY DEF SoloInv, OnceInv, TypeOK, ChainTypeOK
      <4>4. tx[k] # "none"
        BY <1>2, <1>3, <4>1, <4>2, <4>3 DEF Nonces
      <4>5. j = k
        BY <1>2, <1>3, <4>1, <4>2, <4>4 DEF Nonces
      <4> QED
        BY <4>1, <4>5
    <3> QED
      BY <1>1, <1>5, <2>1, <2>2, <3>1, <3>2 DEF Findings, Landed
  <2> QED
    BY <1>1, <2>1, <2>2 DEF Landed
<1> QED
  BY <1>4, <1>5

LEMMA ReconcileKeepsSolo ==
  ASSUME RunnerAssumption, OneKeyHolder, SoloInv, OnceInv', NEW p \in Processes,
         NEW row \in proc[p].todo, NEW found \in Findings(row), Reconcile(p, row, found)
  PROVE  SoloInv'
<1>1. PICK q \in Process : q = proc[p] /\ Agrees(q) /\ Knows(q)
  BY DEF SoloInv, OnceInv, TypeOK
<1>2. proc \in [Processes -> Process] /\ attempts \in [Keys -> Row]
  BY DEF SoloInv, OnceInv, TypeOK, StoreTypeOK
<1>3. q.pc = "reconcile" /\ row \in q.todo /\ UNCHANGED <<txVars, vaultVars>>
  BY <1>1 DEF Reconcile, At
<1>4. row \in Listing /\ Current(row)
  BY <1>1, <1>3, ProcessFields DEF Knows
<1>5. PICK k \in Keys : k = row.key /\ k.strategy \in Strategies
  BY <1>4, KeyFields DEF Listing
<1>6. PICK old \in Row : old = attempts[k] /\ old.state \in Uncertain
  BY <1>2, <1>4, <1>5 DEF Current, IsUncertain
<1>7. PICK u : /\ u \subseteq Strategies
               /\ found \in {"unknown", "unreadable"} => u # {}
               /\ u = IF found \in {"unknown", "unreadable"} THEN q.unresolved \cup {k.strategy}
                      ELSE q.unresolved
  <2>1. q.unresolved \cup {k.strategy} \subseteq Strategies /\ q.unresolved \subseteq Strategies
    BY <1>5, ProcessFields
  <2> QED
    BY <2>1
<1>8. PICK r : r = [q EXCEPT !.todo = q.todo \ {row}, !.unresolved = u]
  OBVIOUS
<1>9. /\ r \in Process /\ r.pc = "reconcile" /\ r.todo = q.todo \ {row} /\ r.unresolved = u
  <2>1. q.todo \ {row} \subseteq Listing
    BY ProcessFields
  <2> QED
    BY <1>3, <1>7, <1>8, <2>1 DEF Process
<1>10. proc' = [proc EXCEPT ![p] = r]
  BY <1>1, <1>2, <1>5, <1>7, <1>8 DEF Reconcile
<1>11. CASE found = "unreadable"
  <2>1. UNCHANGED attempts
    BY <1>11 DEF Reconcile
  <2>2. \A x \in r.todo : Current(x)
    BY <1>1, <1>3, <1>9 DEF Knows
  <2>3. Knows(r)
    BY <1>7, <1>9, <1>11, <2>2 DEF Knows, Sending
  <2> QED
    BY <1>3, <1>9, <1>10, <2>1, <2>3, SoloMovesAlone
<1>12. CASE found # "unreadable"
  <2>1. /\ found \in Landed \cup {"unknown", "settled"}
        /\ found \in Landed => tx[k] = found
        /\ found = "settled" => k.kind = "settle" /\ Account(k) \in closed
    BY <1>4, <1>5, <1>12, FindingsAreTrue
  <2>0. PICK h : h = (found \in Landed)
    OBVIOUS
  <2>2. PICK v \in States \ {"none"} : v = found /\ h = (found \in Landed)
    BY <2>0, <2>1 DEF States, Landed
  <2>3. h \in BOOLEAN
    BY <2>2
  <2>4. PICK new \in Row : /\ new = Recorded(old, v, h) /\ new.state = v
                           /\ new.side = old.side /\ new.nonce = old.nonce
    BY <1>6, <2>3, RecordedFields, FinishedFields
  <2>5. attempts' = [attempts EXCEPT ![k] = new]
    BY <1>5, <1>6, <1>12, <2>2, <2>4 DEF Reconcile
  <2>6. TrueRow(k, new)
    BY <1>6, <2>1, <2>2, <2>4, OutcomeIsTrue DEF Landed, IsUncertain
  <2>7. k.kind = "settle" => Attributed(k)
    BY <1>6 DEF SoloInv, World, SettleRows, Reserved, Uncertain
  <2>8. World'
    BY <1>3, <1>6, <2>4, <2>5, <2>6, <2>7, RowMoves
  <2>9. /\ attempts'[k] = new /\ \A i \in Keys : i # k => attempts'[i] = attempts[i]
    BY <1>2, <2>5
  <2>10. ASSUME NEW x \in r.todo PROVE Current(x)'
    <3>1. x \in Listing /\ Current(x) /\ x # row
      BY <1>1, <1>3, <1>9, ProcessFields DEF Knows
    <3>2. x.key # k
      BY <1>4, <1>5, <3>1 DEF Current, Listing
    <3>3. x.key \in Keys
      BY <3>1 DEF Listing
    <3> QED
      BY <2>9, <3>1, <3>2, <3>3 DEF Current, IsUncertain
  <2>11. u # {} \/ \A i \in Keys : IsUncertain(i)' => \E x \in r.todo : x.key = i
    <3> SUFFICES ASSUME u = {}, NEW i \in Keys, IsUncertain(i)' PROVE \E x \in r.todo : x.key = i
      OBVIOUS
    <3>1. v \notin Uncertain /\ q.unresolved = {}
      BY <1>7, <2>1, <2>2 DEF Uncertain, Landed
    <3>2. i # k
      BY <2>4, <2>9, <3>1 DEF IsUncertain
    <3>3. IsUncertain(i)
      BY <2>9, <3>2 DEF IsUncertain
    <3>4. PICK x \in q.todo : x.key = i
      BY <1>1, <1>3, <3>1, <3>3 DEF Knows
    <3> QED
      BY <1>5, <1>9, <3>2, <3>4
  <2>12. Knows(r)'
    BY <1>9, <2>10, <2>11 DEF Knows, Sending, Current, IsUncertain
  <2> QED
    BY <1>9, <1>10, <2>8, <2>12, SoloMoves
<1> QED
  BY <1>11, <1>12

(* An order leaves when no other is in flight.                             *)
LEMMA BroadcastKeepsSolo ==
  ASSUME RunnerAssumption, OneKeyHolder, SoloInv, OnceInv', NEW p \in Processes, Broadcast(p)
  PROVE  SoloInv'
<1>1. PICK q \in Process : q = proc[p] /\ Agrees(q) /\ Knows(q)
  BY DEF SoloInv, OnceInv, TypeOK
<1>2. /\ proc \in [Processes -> Process] /\ tx \in [Keys -> TxStates]
      /\ nonceOf \in [Keys -> Nat] /\ count \in Nat
  BY DEF SoloInv, OnceInv, TypeOK, ChainTypeOK
<1>3. q.pc = "send" /\ UNCHANGED <<attempts, held, closed, resolved>>
  BY <1>1 DEF Broadcast, At, storeVars, vaultVars
<1>4. PICK k \in Keys : k = q.job.key
  BY <1>1, <1>3 DEF Agrees, Jobbing, Sending
<1>5. /\ attempts[k].state = "attempting" /\ \A j \in Keys : IsUncertain(j) => j = k
      /\ tx[k] = "none" /\ (k.kind = "order" => OwnersAlone(k))
  BY <1>1, <1>3, <1>4 DEF Knows, Sending
<1>6. /\ tx'[k] = "pending" /\ nonceOf'[k] = count /\ count' = count + 1
      /\ \A j \in Keys : j # k => tx'[j] = tx[j] /\ nonceOf'[j] = nonceOf[j]
  BY <1>1, <1>2, <1>4 DEF Broadcast
<1>7. World /\ Told /\ Nonces /\ Positions /\ SettleRows /\ Flight
  BY DEF SoloInv, World
<1>8. Told'
  <2> SUFFICES ASSUME NEW j \in Keys
               PROVE  /\ attempts[j].state \in Landed => tx'[j] = attempts[j].state
                      /\ attempts[j].state \in {"none", "refused"} => tx'[j] = "none"
                      /\ "settled" \in {attempts[j].state, tx'[j]} => j.kind = "settle" /\ Account(j) \in closed
    BY <1>3 DEF Told
  <2>1. CASE j = k
    BY <1>5, <1>6, <2>1 DEF Landed
  <2>2. CASE j # k
    BY <1>6, <1>7, <2>2 DEF Told
  <2> QED
    BY <2>1, <2>2
<1>9. Nonces'
  <2>1. ASSUME NEW j \in Keys
        PROVE  /\ tx'[j] # "none" => nonceOf'[j] < count' /\ attempts[j].nonce = nonceOf'[j]
               /\ tx'[j] = "none" => ~ IsUncertain(j)
    <3>1. CASE j = k
      <4>1. attempts[k].nonce = count
        BY <1>5, <1>7 DEF Nonces, IsUncertain, Uncertain
      <4> QED
        BY <1>2, <1>6, <3>1, <4>1
    <3>2. CASE j # k
      <4>1. tx[j] # "none" => nonceOf[j] < count /\ attempts[j].nonce = nonceOf[j]
        BY <1>7 DEF Nonces
      <4>2. nonceOf[j] \in Nat
        BY <1>2
      <4> QED
        BY <1>2, <1>5, <1>6, <3>2, <4>1, <4>2
    <3> QED
      BY <3>1, <3>2
  <2>2. ASSUME NEW i \in Keys, NEW j \in Keys, tx'[i] # "none", tx'[j] # "none", nonceOf'[i] = nonceOf'[j]
        PROVE  i = j
    <3>1. \A x \in Keys : tx[x] # "none" => nonceOf[x] < count /\ nonceOf[x] \in Nat
      BY <1>2, <1>7 DEF Nonces
    <3>2. CASE i # k /\ j # k
      BY <1>6, <1>7, <2>2, <3>2 DEF Nonces
    <3>3. CASE i = k /\ j # k
      BY <1>2, <1>6, <2>2, <3>1, <3>3
    <3>4. CASE i # k /\ j = k
      BY <1>2, <1>6, <2>2, <3>1, <3>4
    <3> QED
      BY <3>2, <3>3, <3>4
  <2> QED
    BY <1>3, <2>1, <2>2 DEF Nonces, IsUncertain
<1>10. Positions'
  <2>1. ASSUME NEW a \in Owners \X Markets, NEW side \in Sides, Explained(a, side)
        PROVE  Explained(a, side)'
    <3>1. PICK j \in OrderKeys : /\ Account(j) = a /\ held[a][side] = Only(j)
                                /\ tx[j] = "filled" /\ attempts[j].side = side
      BY <2>1 DEF Explained
    <3>2. tx'[j] = "filled"
      BY <1>5, <1>6, <3>1 DEF OrderKeys
    <3> QED
      BY <1>3, <3>1, <3>2 DEF Explained
  <2> QED
    BY <1>3, <1>7, <2>1 DEF Positions
<1>11. ASSUME NEW j PROVE (Attributed(j)' <=> Attributed(j)) /\ (OwnersAlone(j)' <=> OwnersAlone(j))
  BY <1>3 DEF Attributed, OwnersAlone
<1>12. SettleRows'
  BY <1>3, <1>7, <1>11 DEF SettleRows, Reserved
<1>13. Flight'
  <2>1. ASSUME NEW j \in OrderKeys, tx'[j] = "pending" PROVE j = k
    <3>1. CASE j # k
      <4>1. j \in Keys /\ tx[j] = "pending"
        BY <1>6, <2>1, <3>1 DEF OrderKeys
      <4>2. IsUncertain(j)
        BY <4>1, PendingIsUncertain DEF Landed
      <4> QED
        BY <1>5, <4>1, <4>2
    <3> QED
      BY <3>1
  <2> QED
    BY <1>5, <1>11, <2>1 DEF Flight, OneFlies, OrderKeys
<1>14. PICK r : r = [q EXCEPT !.pc = "answer"]
  OBVIOUS
<1>15. r \in Process /\ r.pc = "answer" /\ r.job = q.job
  BY <1>14 DEF Process, Cycling, Jobbing, Sending
<1>16. Knows(r)'
  <2>1. attempts'[k].state = "attempting" /\ \A j \in Keys : IsUncertain(j)' => j = k
    BY <1>3, <1>5 DEF IsUncertain
  <2> QED
    BY <1>4, <1>15, <2>1 DEF Knows, Sending
<1>17. proc' = [proc EXCEPT ![p] = r]
  BY <1>1, <1>2, <1>14 DEF Broadcast
<1> QED
  BY <1>8, <1>9, <1>10, <1>12, <1>13, <1>15, <1>16, <1>17, SoloMoves DEF World

-----------------------------------------------------------------------------
(* The chain, the owners and the venue.                                    *)

\* A transaction that is mined stays as it is, and a tally that is settled.
ChainAhead ==
  /\ closed \subseteq closed'
  /\ \A k \in Keys :
       \/ tx'[k] = tx[k]
       \/ tx[k] = "pending" /\ tx'[k] \in Landed
       \/ tx[k] = "pending" /\ tx'[k] = "settled" /\ k.kind = "settle" /\ Account(k) \in closed'
\* What is attributed to a strategy stays its own until it is settled.
AttributionsStay == \A k \in Keys : Attributed(k) => Attributed(k)'
\* An order that may land, or is about to be sent.
Exposed(k) ==
  \/ tx[k] = "pending"
  \/ \E p \in Processes : proc[p].pc \in {"reserve", "send"} /\ proc[p].job.key = k
ExposuresStay == \A k \in OrderKeys : Exposed(k)' => OwnersAlone(k)'

(* What the world outside may do, as far as the rows and the process care. *)
LEMMA SoloStays ==
  ASSUME OneKeyHolder, SoloInv, OnceInv', UNCHANGED <<attempts, proc, nonceOf, count>>,
         ChainAhead, AttributionsStay, ExposuresStay, Positions'
  PROVE  SoloInv'
<1>1. World /\ Told /\ Nonces /\ SettleRows /\ Flight
  BY DEF SoloInv, World
<1>2. attempts \in [Keys -> Row] /\ proc \in [Processes -> Process]
  BY DEF SoloInv, OnceInv, TypeOK, StoreTypeOK
<1>3. Told'
  <2> SUFFICES ASSUME NEW k \in Keys
               PROVE  /\ attempts[k].state \in Landed => tx'[k] = attempts[k].state
                      /\ attempts[k].state \in {"none", "refused"} => tx'[k] = "none"
                      /\ "settled" \in {attempts[k].state, tx'[k]} =>
                           k.kind = "settle" /\ Account(k) \in closed'
    BY DEF Told
  <2> QED
    BY <1>1 DEF Told, ChainAhead, Landed
<1>4. Nonces'
  <2>1. \A k \in Keys : tx'[k] = "none" <=> tx[k] = "none"
    BY DEF ChainAhead, Landed
  <2> QED
    BY <1>1, <2>1 DEF Nonces, IsUncertain
<1>5. SettleRows'
  BY <1>1 DEF SettleRows, Reserved, AttributionsStay
<1>6. Flight'
  <2>1. \A k \in Keys : tx'[k] = "pending" => tx[k] = "pending"
    BY DEF ChainAhead, Landed
  <2>2. \A k \in OrderKeys : tx'[k] = "pending" => OwnersAlone(k)'
    BY DEF ExposuresStay, Exposed
  <2> QED
    BY <1>1, <2>1, <2>2 DEF Flight, OneFlies, OrderKeys
<1>7. ASSUME NEW p \in Processes PROVE Knows(proc[p])'
  <2>1. PICK q \in Process : q = proc[p] /\ q = proc'[p] /\ Agrees(q) /\ Knows(q)
    BY <1>2 DEF SoloInv, OnceInv
  <2>2. q.pc \in Jobbing => q.job.key \in Keys
    BY <2>1 DEF Agrees
  <2>3. q.pc = "reserve" => (q.job.key.kind = "settle" => Attributed(q.job.key)')
    BY <2>1, <2>2 DEF Knows, Jobbing, AttributionsStay
  <2>4. q.pc \in {"reserve", "send"} /\ q.job.key.kind = "order" => OwnersAlone(q.job.key)'
    <3>1. q.pc \in {"reserve", "send"} /\ q.job.key.kind = "order" =>
            q.job.key \in OrderKeys /\ Exposed(q.job.key)'
      BY <2>1, <2>2 DEF Exposed, OrderKeys, Jobbing, Sending
    <3> QED
      BY <3>1 DEF ExposuresStay
  <2>5. q.pc = "send" => tx'[q.job.key] = "none"
    BY <2>1, <2>2 DEF Knows, ChainAhead, Jobbing, Sending
  <2>6. q.pc = "save" =>
          /\ q.fin.state \in Landed => tx'[q.job.key] = q.fin.state
          /\ q.fin.state = "refused" => tx'[q.job.key] = "none"
          /\ q.fin.state = "settled" => q.job.key.kind = "settle" /\ Account(q.job.key) \in closed'
          /\ q.fin.state # "attempting"
    BY <2>1, <2>2 DEF Knows, ChainAhead, Jobbing, Sending, Landed
  <2>7. Knows(q)'
    BY <2>1, <2>3, <2>4, <2>5, <2>6 DEF Knows, Clear, Current, IsUncertain
  <2> QED
    BY <2>1, <2>7 DEF Knows
<1> QED
  BY <1>3, <1>4, <1>5, <1>6, <1>7 DEF SoloInv, World

LEMMA AboutToSend ==
  ASSUME SoloInv, NEW p \in Processes, proc[p].pc \in {"reserve", "send"},
         NEW j \in OrderKeys
  PROVE  tx[j] # "pending"
<1> SUFFICES ASSUME tx[j] = "pending" PROVE FALSE
  OBVIOUS
<1>1. PICK q \in Process : q = proc[p] /\ Knows(q)
  BY DEF SoloInv, OnceInv, TypeOK
<1>2. j \in Keys /\ IsUncertain(j)
  BY PendingIsUncertain DEF Landed, OrderKeys
<1> QED
  BY <1>1, <1>2 DEF Knows, Sending, Clear

LEMMA ExposedAlone ==
  ASSUME SoloInv, NEW k \in OrderKeys, Exposed(k)
  PROVE  OwnersAlone(k) /\ \A j \in OrderKeys : tx[j] = "pending" => j = k
<1>1. /\ k \in Keys /\ k.kind = "order" /\ Flight
  BY DEF OrderKeys, SoloInv, World
<1>2. CASE tx[k] = "pending"
  BY <1>1, <1>2 DEF Flight, OneFlies
<1>3. ASSUME NEW p \in Processes, proc[p].pc \in {"reserve", "send"}, proc[p].job.key = k
      PROVE  OwnersAlone(k) /\ \A j \in OrderKeys : tx[j] = "pending" => j = k
  <2>1. PICK q \in Process : q = proc[p] /\ Knows(q)
    BY DEF SoloInv, OnceInv, TypeOK
  <2>2. OwnersAlone(k)
    BY <1>1, <1>3, <2>1 DEF Knows
  <2> QED
    BY <1>3, <2>2, AboutToSend
<1> QED
  BY <1>2, <1>3 DEF Exposed

LEMMA FlatIsEmpty ==
  ASSUME NEW side \in Sides
  PROVE  Flat[side] = Empty
BY DEF Flat

OrdersUnmoved == \A k \in OrderKeys : tx'[k] = tx[k]

(* A position is settled: nothing of it is held any more.                  *)
LEMMA SettlingStays ==
  ASSUME SoloInv, NEW a \in Owners \X Markets, held' = [held EXCEPT ![a] = Flat],
         closed' = closed \cup {a}, UNCHANGED <<attempts, proc, resolved>>, OrdersUnmoved
  PROVE  AttributionsStay /\ ExposuresStay /\ Positions'
<1>1. /\ held \in [Owners \X Markets -> [Sides -> Position]] /\ Positions
  BY DEF SoloInv, OnceInv, TypeOK, ChainTypeOK, World
<1>2. /\ \A side \in Sides : held'[a][side] = Empty
      /\ \A b \in Owners \X Markets : b # a => held'[b] = held[b]
  BY <1>1, FlatIsEmpty
<1>3. AttributionsStay
  <2> SUFFICES ASSUME NEW k \in Keys, Attributed(k) PROVE Attributed(k)'
    BY DEF AttributionsStay
  <2>1. PICK b \in Owners \X Markets : b = Account(k)
    BY AccountTyped
  <2>2. CASE b = a
    BY <1>2, <2>1, <2>2 DEF Attributed
  <2>3. CASE b # a
    BY <1>2, <2>1, <2>3 DEF Attributed
  <2> QED
    BY <2>2, <2>3
<1>4. ExposuresStay
  <2> SUFFICES ASSUME NEW k \in OrderKeys, Exposed(k)' PROVE OwnersAlone(k)'
    BY DEF ExposuresStay
  <2>1. PICK b \in Owners \X Markets : b = Account(k)
    BY AccountTyped DEF OrderKeys
  <2>2. OwnersAlone(k)
    <3>1. Exposed(k)
      BY DEF Exposed, OrdersUnmoved
    <3> QED
      BY <3>1, ExposedAlone
  <2>3. CASE b = a
    BY <1>2, <2>1, <2>3 DEF OwnersAlone, Owned
  <2>4. CASE b # a
    BY <1>2, <2>1, <2>2, <2>4 DEF OwnersAlone
  <2> QED
    BY <2>3, <2>4
<1>5. Positions'
  <2> SUFFICES ASSUME NEW b \in Owners \X Markets, NEW side \in Sides
               PROVE  Owned(held'[b][side]) \/ Explained(b, side)'
    BY DEF Positions
  <2>1. CASE b = a
    BY <1>2, <2>1 DEF Owned
  <2>2. CASE b # a
    <3>1. Owned(held[b][side]) \/ Explained(b, side)
      BY <1>1 DEF Positions
    <3> QED
      BY <1>2, <2>2, <3>1 DEF Explained, OrdersUnmoved
  <2> QED
    BY <2>1, <2>2
<1> QED
  BY <1>3, <1>4, <1>5

(* One side of a position changes, in a Window that still trades.          *)
LEMMA SideChanges ==
  ASSUME SoloInv, NEW a \in Owners \X Markets, NEW side \in Sides, NEW x,
         held' = [held EXCEPT ![a][side] = x], a[2] \notin resolved,
         UNCHANGED <<resolved, closed>>
  PROVE  /\ AttributionsStay /\ held'[a][side] = x
         /\ \A b \in Owners \X Markets, s \in Sides : b # a \/ s # side => held'[b][s] = held[b][s]
<1>1. held \in [Owners \X Markets -> [Sides -> Position]]
  BY DEF SoloInv, OnceInv, TypeOK, ChainTypeOK
<1>2. PICK f, g : f \in [Sides -> Position] /\ f = held[a] /\ g = [f EXCEPT ![side] = x]
  BY <1>1
<1>3. held' = [held EXCEPT ![a] = g]
  BY <1>2
<1>4. /\ held'[a][side] = x /\ \A b \in Owners \X Markets : b # a => held'[b] = held[b]
      /\ \A s \in Sides : s # side => held'[a][s] = held[a][s]
  BY <1>1, <1>2, <1>3
<1>5. ASSUME NEW k \in Keys, Attributed(k) PROVE Attributed(k)'
  <2>1. PICK b \in Owners \X Markets : b = Account(k) /\ b[2] = k.market
    BY AccountTyped DEF Account
  <2>2. b # a
    BY <1>5, <2>1 DEF Attributed
  <2> QED
    BY <1>4, <1>5, <2>1, <2>2 DEF Attributed
<1> QED
  BY <1>4, <1>5 DEF AttributionsStay

(* A transaction is mined.                                                 *)
LEMMA MineKeepsSolo ==
  ASSUME RunnerAssumption, OneKeyHolder, SoloInv, OnceInv',
         NEW k \in Keys, NEW v \in Landed \cup {"settled"}, Mine(k, v)
  PROVE  SoloInv'
<1>1. /\ held \in [Owners \X Markets -> [Sides -> Position]] /\ tx \in [Keys -> TxStates]
      /\ attempts \in [Keys -> Row] /\ Positions
  BY DEF SoloInv, OnceInv, TypeOK, ChainTypeOK, StoreTypeOK, World
<1>2. PICK a \in Owners \X Markets : a = Account(k) /\ a[2] = k.market
  BY AccountTyped DEF Account
<1>3. /\ tx[k] = "pending" /\ tx'[k] = v /\ \A j \in Keys : j # k => tx'[j] = tx[j]
      /\ closed' = IF v = "settled" THEN closed \cup {a} ELSE closed
      /\ UNCHANGED <<attempts, proc, nonceOf, count, resolved>>
  BY <1>1, <1>2 DEF Mine, storeVars
<1>4. /\ v = "settled" => k.kind # "order"
      /\ v = "filled" => k.kind = "order" /\ k.market \notin resolved
  BY DEF Mine, Verdicts
<1>5. k.kind \in {"order", "settle"}
  BY KeyFields
<1>6. ChainAhead
  BY <1>2, <1>3, <1>4, <1>5 DEF ChainAhead
<1>7. CASE v = "settled"
  <2>1. held' = [held EXCEPT ![a] = Flat]
    BY <1>2, <1>7 DEF Mine
  <2>2. OrdersUnmoved
    BY <1>3, <1>4, <1>7 DEF OrdersUnmoved, OrderKeys
  <2>3. closed' = closed \cup {a}
    BY <1>3, <1>7
  <2>4. AttributionsStay /\ ExposuresStay /\ Positions'
    BY <1>3, <2>1, <2>2, <2>3, SettlingStays
  <2> QED
    BY <1>3, <1>6, <2>4, SoloStays
<1>8. ASSUME NEW b \in Owners \X Markets, NEW s \in Sides, Explained(b, s), held'[b][s] = held[b][s]
      PROVE  Explained(b, s)'
  <2>1. PICK j \in OrderKeys : /\ Account(j) = b /\ held[b][s] = Only(j)
                              /\ tx[j] = "filled" /\ attempts[j].side = s
    BY <1>8 DEF Explained
  <2>2. tx'[j] = "filled"
    BY <1>3, <2>1 DEF OrderKeys
  <2> QED
    BY <1>3, <1>8, <2>1, <2>2 DEF Explained
<1>9. CASE v = "filled"
  <2>1. PICK side \in Sides : side = attempts[k].side
    BY <1>1 DEF Row
  <2>2. PICK y, x : /\ y = held[a][side]
                    /\ x = [opener |-> IF y = Empty THEN k.strategy ELSE y.opener,
                            from |-> y.from \cup {k.strategy}]
    OBVIOUS
  <2>3. held' = [held EXCEPT ![a][side] = x]
    BY <1>2, <1>9, <2>1, <2>2 DEF Mine
  <2>4. closed' = closed /\ a[2] \notin resolved /\ k \in OrderKeys
    BY <1>2, <1>3, <1>4, <1>9 DEF OrderKeys
  <2>5. /\ AttributionsStay /\ held'[a][side] = x
        /\ \A b \in Owners \X Markets, s \in Sides : b # a \/ s # side => held'[b][s] = held[b][s]
    BY <1>3, <2>3, <2>4, SideChanges
  <2>6. ExposuresStay
    <3> SUFFICES ASSUME NEW j \in OrderKeys, Exposed(j)' PROVE FALSE
      BY DEF ExposuresStay
    <3>1. j \in Keys
      BY DEF OrderKeys
    <3>2. CASE tx'[j] = "pending"
      <4>1. j # k /\ tx[j] = "pending"
        BY <1>3, <1>9, <3>1, <3>2
      <4>2. Exposed(j)
        BY <4>1 DEF Exposed
      <4> QED
        BY <1>3, <2>4, <4>1, <4>2, ExposedAlone
    <3>3. CASE \E p \in Processes : proc[p].pc \in {"reserve", "send"}
      BY <1>3, <2>4, <3>3, AboutToSend
    <3> QED
      BY <1>3, <3>2, <3>3 DEF Exposed
  <2>7. Positions'
    <3> SUFFICES ASSUME NEW b \in Owners \X Markets, NEW s \in Sides
                 PROVE  Owned(held'[b][s]) \/ Explained(b, s)'
      BY DEF Positions
    <3>1. CASE b # a \/ s # side
      BY <1>1, <1>8, <2>5, <3>1 DEF Positions
    <3>2. CASE b = a /\ s = side
      <4>1. Owned(y)
        <5>1. OwnersAlone(k)
          BY <1>3, <2>4 DEF SoloInv, World, Flight
        <5> QED
          BY <1>2, <2>2, <5>1 DEF OwnersAlone
      <4>2. CASE y = Empty
        <5>1. x = Only(k)
          BY <2>2, <4>2 DEF Only, Empty
        <5> QED
          BY <1>2, <1>3, <1>9, <2>1, <2>4, <2>5, <3>2, <5>1 DEF Explained
      <4>3. CASE y # Empty /\ y.opener = Own
        BY <2>2, <2>5, <3>2, <4>3 DEF Owned
      <4> QED
        BY <4>1, <4>2, <4>3 DEF Owned
    <3> QED
      BY <3>1, <3>2
  <2> QED
    BY <1>3, <1>6, <2>5, <2>6, <2>7, SoloStays
<1>10. CASE v \notin {"filled", "settled"}
  <2>1. held' = held /\ closed' = closed
    BY <1>3, <1>10 DEF Mine
  <2>2. AttributionsStay
    BY <1>3, <2>1 DEF AttributionsStay, Attributed
  <2>3. ExposuresStay
    <3> SUFFICES ASSUME NEW j \in OrderKeys, Exposed(j)' PROVE OwnersAlone(j)'
      BY DEF ExposuresStay
    <3>1. tx'[j] = "pending" => tx[j] = "pending"
      BY <1>3, <1>10 DEF OrderKeys
    <3>2. Exposed(j)
      BY <1>3, <3>1 DEF Exposed
    <3>3. OwnersAlone(j)
      BY <3>2, ExposedAlone
    <3> QED
      BY <2>1, <3>3 DEF OwnersAlone
  <2>4. Positions'
    BY <1>1, <1>8, <2>1 DEF Positions
  <2> QED
    BY <1>3, <1>6, <2>2, <2>3, <2>4, SoloStays
<1> QED
  BY <1>7, <1>9, <1>10

(* The owners trade and settle for themselves, and Windows resolve.        *)
LEMMA OwnersKeepSolo ==
  ASSUME RunnerAssumption, OneKeyHolder, SoloInv, OnceInv',
         \/ \E a \in Owners \X Markets : OwnerSettles(a) \/ \E side \in OwnerSides : OwnerTrades(a, side)
         \/ \E m \in Markets : Resolve(m)
  PROVE  SoloInv'
<1>1. UNCHANGED <<attempts, proc, nonceOf, count, tx>>
  BY DEF OwnerSettles, OwnerTrades, Resolve, storeVars, txVars
<1>2. Positions
  BY DEF SoloInv, World
<1>3. ASSUME NEW k \in OrderKeys, Exposed(k)' PROVE Exposed(k)
  BY <1>1, <1>3 DEF Exposed
<1>4. ASSUME NEW a \in Owners \X Markets, OwnerSettles(a) PROVE SoloInv'
  <2>1. held' = [held EXCEPT ![a] = Flat] /\ closed' = closed \cup {a} /\ UNCHANGED resolved
    BY <1>4 DEF OwnerSettles
  <2>2. ChainAhead /\ OrdersUnmoved
    BY <1>1, <2>1 DEF ChainAhead, OrdersUnmoved
  <2>3. AttributionsStay /\ ExposuresStay /\ Positions'
    BY <1>1, <2>1, <2>2, SettlingStays
  <2> QED
    BY <1>1, <2>2, <2>3, SoloStays
<1>5. ASSUME NEW a \in Owners \X Markets, NEW side \in OwnerSides, OwnerTrades(a, side)
      PROVE  SoloInv'
  <2>1. PICK x : Owned(x) /\ held' = [held EXCEPT ![a][side] = x]
    <3>1. PICK x : /\ x = IF held[a][side] = Empty THEN [opener |-> Own, from |-> {}] ELSE Empty
      OBVIOUS
    <3>2. Owned(x)
      BY <3>1 DEF Owned
    <3>3. held' = [held EXCEPT ![a][side] = x]
      BY <1>5, <3>1 DEF OwnerTrades
    <3> QED
      BY <3>2, <3>3
  <2>2. a[2] \notin resolved /\ UNCHANGED <<closed, resolved>>
    BY <1>5 DEF OwnerTrades
  <2>3. side \in Sides
    BY DEF RunnerAssumption
  <2>4. /\ AttributionsStay /\ held'[a][side] = x
        /\ \A b \in Owners \X Markets, s \in Sides : b # a \/ s # side => held'[b][s] = held[b][s]
    BY <2>1, <2>2, <2>3, SideChanges
  <2>5. ChainAhead
    BY <1>1, <2>2 DEF ChainAhead
  <2>6. ExposuresStay
    <3> SUFFICES ASSUME NEW j \in OrderKeys, Exposed(j)' PROVE OwnersAlone(j)'
      BY DEF ExposuresStay
    <3>1. OwnersAlone(j)
      BY <1>3, ExposedAlone
    <3>2. PICK b \in Owners \X Markets : b = Account(j)
      BY AccountTyped DEF OrderKeys
    <3>3. \A s \in Sides : Owned(held'[b][s])
      BY <2>1, <2>4, <3>1, <3>2 DEF OwnersAlone
    <3> QED
      BY <3>2, <3>3 DEF OwnersAlone
  <2>7. Positions'
    <3> SUFFICES ASSUME NEW b \in Owners \X Markets, NEW s \in Sides
                 PROVE  Owned(held'[b][s]) \/ Explained(b, s)'
      BY DEF Positions
    <3>1. CASE b = a /\ s = side
      BY <2>1, <2>4, <3>1
    <3>2. CASE b # a \/ s # side
      <4>1. held'[b][s] = held[b][s]
        BY <2>4, <3>2
      <4> QED
        BY <1>1, <1>2, <4>1 DEF Positions, Explained
    <3> QED
      BY <3>1, <3>2
  <2> QED
    BY <1>1, <2>4, <2>5, <2>6, <2>7, SoloStays
<1>6. ASSUME NEW m \in Markets, Resolve(m) PROVE SoloInv'
  <2>1. UNCHANGED <<held, closed>> /\ resolved \subseteq resolved'
    BY <1>6 DEF Resolve
  <2>2. ChainAhead
    BY <1>1, <2>1 DEF ChainAhead
  <2>3. AttributionsStay
    BY <2>1 DEF AttributionsStay, Attributed
  <2>4. ExposuresStay
    <3> SUFFICES ASSUME NEW j \in OrderKeys, Exposed(j)' PROVE OwnersAlone(j)'
      BY DEF ExposuresStay
    <3>1. OwnersAlone(j)
      BY <1>3, ExposedAlone
    <3> QED
      BY <2>1, <3>1 DEF OwnersAlone
  <2>5. Positions'
    BY <1>1, <1>2, <2>1 DEF Positions, Explained
  <2> QED
    BY <1>1, <2>2, <2>3, <2>4, <2>5, SoloStays
<1> QED
  BY <1>4, <1>5, <1>6

-----------------------------------------------------------------------------
LEMMA SoloAtStart ==
  ASSUME RunnerAssumption, Init
  PROVE  SoloInv
<1>1. OnceInv
  BY OnceAtStart
<1>2. /\ attempts = [k \in Keys |-> NoRow] /\ tx = [k \in Keys |-> "none"]
      /\ held = [a \in Owners \X Markets |-> Flat] /\ NoRow.state = "none"
  BY DEF Init, NoRow
<1>3. Told
  BY <1>2 DEF Told, Landed
<1>4. Nonces
  BY <1>2 DEF Nonces, IsUncertain, Uncertain
<1>5. Positions
  BY <1>2, FlatIsEmpty DEF Positions, Owned
<1>6. SettleRows /\ Flight
  BY <1>2 DEF SettleRows, Reserved, Flight, OneFlies, OrderKeys
<1>7. ASSUME NEW p \in Processes PROVE Knows(proc[p])
  <2>1. PICK r \in Process : r = proc[p]
    BY <1>1 DEF OnceInv, TypeOK
  <2>2. r.pc = "down"
    BY <2>1, IdleTyped DEF Init, Process
  <2> QED
    BY <2>1, <2>2, RestKnows
<1> QED
  BY <1>1, <1>3, <1>4, <1>5, <1>6, <1>7 DEF SoloInv, World

LEMMA StepKeepsSolo ==
  ASSUME RunnerAssumption, OneKeyHolder, SoloInv, [Next]_vars
  PROVE  SoloInv'
<1>1. OnceInv'
  BY StepKeepsOnce DEF SoloInv
<1>2. CASE UNCHANGED vars
  <2>1. UNCHANGED <<attempts, proc, nonceOf, count, tx, held, closed, resolved>>
    BY <1>2 DEF vars, storeVars, txVars, vaultVars
  <2>2. ChainAhead
    BY <2>1 DEF ChainAhead
  <2>3. AttributionsStay
    BY <2>1 DEF AttributionsStay, Attributed
  <2>4. ExposuresStay
    <3> SUFFICES ASSUME NEW j \in OrderKeys, Exposed(j)' PROVE OwnersAlone(j)'
      BY DEF ExposuresStay
    <3>1. Exposed(j)
      BY <2>1 DEF Exposed
    <3>2. OwnersAlone(j)
      BY <3>1, ExposedAlone
    <3> QED
      BY <2>1, <3>2 DEF OwnersAlone
  <2>5. Positions'
    BY <2>1 DEF SoloInv, World, Positions, Explained
  <2> QED
    BY <1>1, <2>1, <2>2, <2>3, <2>4, <2>5, SoloStays
<1>3. CASE Outside
  <2>1. ASSUME NEW k \in Keys, NEW v \in Landed \cup {"settled"}, Mine(k, v) PROVE SoloInv'
    BY <1>1, <2>1, MineKeepsSolo
  <2> QED
    BY <1>1, <1>3, <2>1, OwnersKeepSolo DEF Outside
<1>4. ASSUME NEW p \in Processes, Running(p) \/ Crash(p) PROVE SoloInv'
  <2>1. CASE Boot(p) \/ Crash(p) \/ Tick(p) \/ List(p) \/ Reconciled(p) \/ EndTick(p)
    <3>1. UNCHANGED <<attempts, txVars, vaultVars>>
      BY <2>1 DEF Boot, Crash, Tick, List, Reconciled, EndTick, storeVars
    <3> QED
      BY <1>1, <2>1, <3>1, RecoveryKeepsSolo
  <2>2. ASSUME NEW row \in proc[p].todo, NEW found \in Findings(row), Reconcile(p, row, found)
        PROVE  SoloInv'
    BY <1>1, <2>2, ReconcileKeepsSolo
  <2>3. CASE \/ \E s \in Strategies : StartCycle(p, s)
             \/ \E a \in Owners \X Markets : SettleRead(p, a)
             \/ \E windows \in SUBSET Markets : Settled(p, windows)
    <3>1. UNCHANGED <<attempts, txVars, vaultVars>>
      BY <2>3 DEF StartCycle, SettleRead, Settled, storeVars
    <3> QED
      BY <1>1, <2>3, <3>1, SettlingKeepsSolo
  <2>4. CASE \/ \E m \in Markets : \/ \E side \in Sides \cup {Nobody} : Follow(p, m, side)
                                   \/ Recall(p, m) \/ AskModel(p, m)
             \/ \E call \in Sides \cup {"held", "failed"} : ModelAnswers(p, call)
             \/ Scanned(p) \/ Executed(p)
    <3>1. UNCHANGED <<attempts, txVars, vaultVars>>
      BY <2>4 DEF Follow, Recall, AskModel, ModelAnswers, Scanned, Executed, storeVars
    <3> QED
      BY <1>1, <2>4, <3>1, ScanKeepsSolo
  <2>5. ASSUME NEW o \in Owners, NEW m \in Markets, NEW side \in Sides, OrderRead(p, o, m, side)
        PROVE  SoloInv'
    <3>1. UNCHANGED <<attempts, txVars, vaultVars>>
      BY <2>5 DEF OrderRead, storeVars
    <3> QED
      BY <1>1, <2>5, <3>1, OrderReadKeepsSolo
  <2>6. CASE Cycle(p)
    BY <2>3, <2>4, <2>5, <2>6 DEF Cycle
  <2>7. CASE Reserve(p)
    BY <1>1, <2>7, ReserveKeepsSolo
  <2>8. CASE Broadcast(p)
    BY <1>1, <2>8, BroadcastKeepsSolo
  <2>9. CASE \/ \E state \in {"refused", "unknown"} : NotSent(p, state)
             \/ Answered(p) \/ Awaited(p)
    <3>1. UNCHANGED <<attempts, txVars, vaultVars>>
      BY <2>9 DEF NotSent, Answered, Awaited, storeVars
    <3> QED
      BY <1>1, <2>9, <3>1, ConcludingKeepsSolo
  <2>10. CASE Save(p) \/ SaveFails(p)
    BY <1>1, <2>10, SavingKeepsSolo
  <2>11. CASE Job(p)
    BY <2>7, <2>8, <2>9, <2>10, <2>11 DEF Job
  <2> QED
    BY <1>4, <2>1, <2>2, <2>6, <2>11 DEF Running, Recovery
<1> QED
  BY <1>2, <1>3, <1>4 DEF Next

LEMMA AlwaysSolo ==
  ASSUME RunnerAssumption, OneKeyHolder
  PROVE  Spec => []SoloInv
<1>1. Init => SoloInv
  BY SoloAtStart
<1>2. SoloInv /\ [Next]_vars => SoloInv'
  BY StepKeepsSolo
<1> QED
  BY <1>1, <1>2, PTL DEF Spec

(* One unresolved attempt holds the key (index.ts:54): while an order of   *)
(* one process may still land, no other order leaves, of any strategy,     *)
(* through crashes, timeouts and failures of the store.                    *)
THEOREM OrdersFlyAlone ==
  ASSUME RunnerAssumption, OneKeyHolder
  PROVE  Spec => []OneOrderInFlight
<1>1. OnceInv /\ SoloInv => OneOrderInFlight
  <2>1. OnceInv => DOMAIN tx = Keys
    BY DEF OnceInv, TypeOK, ChainTypeOK
  <2>2. SoloInv => OneFlies
    BY DEF SoloInv, World, Flight
  <2> QED
    BY <2>1, <2>2 DEF OneOrderInFlight, InFlight, OneFlies, OrderKeys
<1> QED
  BY <1>1, AlwaysOnce, AlwaysSolo, PTL

(* One order a Window, and one in flight.                                  *)
THEOREM OrdersSingle ==
  ASSUME RunnerAssumption, OneKeyHolder
  PROVE  Spec => []OrdersAreSingle
<1>1. OncePerWindow /\ OneOrderInFlight => OrdersAreSingle
  BY DEF OrdersAreSingle
<1> QED
  BY <1>1, OncePerWindowHolds, OrdersFlyAlone, PTL

(* A row of strategy_attempts says what became of its own transaction, and *)
(* a settlement is reserved for the one strategy whose orders hold the     *)
(* position (lifecycle.ts:84-91), whatever grants the strategies share and *)
(* whatever the owners trade.                                              *)
THEOREM RowsAreTrue ==
  ASSUME RunnerAssumption, OneKeyHolder
  PROVE  Spec => []AttemptsAreTrue
<1>1. OnceInv /\ SoloInv => AttemptsAreTrue
  <2>0. OnceInv => DOMAIN attempts = Keys
    BY DEF OnceInv, TypeOK, StoreTypeOK
  <2> SUFFICES ASSUME SoloInv, NEW k \in Keys
               PROVE  /\ attempts[k].state \in Landed => tx[k] = attempts[k].state
                      /\ attempts[k].state = "refused" => tx[k] = "none"
                      /\ attempts[k].state = "settled" => Account(k) \in closed
                      /\ k.kind = "settle" /\ attempts[k].state # "none" =>
                           \A side \in Holds(Account(k)) : held[Account(k)][side] = Only(k)
    BY <2>0 DEF AttemptsAreTrue, Only
  <2>1. Told /\ SettleRows
    BY DEF SoloInv, World
  <2> QED
    BY <2>1 DEF Told, SettleRows, Reserved, Attributed, Holds
<1> QED
  BY <1>1, AlwaysOnce, AlwaysSolo, PTL

=============================================================================
