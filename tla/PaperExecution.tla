--------------------------- MODULE PaperExecution ----------------------------
(***************************************************************************)
(* The trading day of trading_runtime: the entry runs of FIRST_SCAN and    *)
(* LAST_NEW_TRADE that submit bracket orders (executor.submit), the        *)
(* FORCE_FLAT run that cancels and closes them (executor.force_flat), the  *)
(* reconciliation both rely on (reconcile.reconcile), and what moves under *)
(* them: the broker's fills, the owner of the account, who trades in it    *)
(* too, the owner's kill switch, the clock, and faults.                    *)
(*                                                                         *)
(* One run per slot: the slot's claim is exclusive (PrivateStore).  Runs   *)
(* may overlap, since nothing serialises a scheduled workflow and a run    *)
(* started by hand.  A store operation is the atomic effect PrivateStore   *)
(* implements; a fault may strike before it, or after it and before the    *)
(* caller learns of it.  Reconciliation is not atomic: account positions,  *)
(* open orders, the ledger and the exact orders are read one after the     *)
(* other.                                                                  *)
(*                                                                         *)
(* Data abstracted away: prices (a share risks one unit, a stop loses it,  *)
(* a target loses nothing), sizing (every entry has quantity Qty), the     *)
(* quote, asset and qualification checks (an entry may always be refused). *)
(* The two legs of a bracket are one order: at the broker one cancels the  *)
(* other.                                                                  *)
(***************************************************************************)
EXTENDS Integers, Sequences, FiniteSets, Functions

CONSTANTS
    Symbols,
    Entries,       \* client order ids of BUY proposals
    SymbolOf,      \* SymbolOf[e]: the symbol of an entry
    Qty,           \* shares of an entry
    MaxPositions, MaxNew,  \* policy.max_positions, policy.max_new_positions
    DailyRisk,     \* daily loss budget, in units of risk
    MaxKills,      \* bound on the owner's switches of the kill switch
    MaxUserMoves,  \* bound on the owner's own trades and orders
    Faults,        \* store errors, broker errors and crashes happen
    NoRun

EntryRuns == {"FIRST_SCAN", "LAST_NEW_TRADE"}
Flat == "FORCE_FLAT"
Runs == EntryRuns \cup {Flat}

ASSUME EntryAssumption ==
    SymbolOf \in [Entries -> Symbols] /\ IsFiniteSet(Entries) /\ IsFiniteSet(Symbols)
ASSUME RunAssumption == NoRun \notin Runs
ASSUME LimitAssumption ==
    /\ Qty \in Nat \ {0}
    /\ {MaxPositions, MaxNew, DailyRisk, MaxKills, MaxUserMoves} \subseteq Nat
    /\ Faults \in BOOLEAN

(* The exit of a symbol has an id of its own, derived from run and symbol. *)
ExitId(s) == <<"FLAT", s>>
Exits == {ExitId(s) : s \in Symbols}
Ids == Entries \cup Exits
SymbolOfId(i) == IF i \in Entries THEN SymbolOf[i] ELSE i[2]
NoId == <<>>

ASSUME IdAssumption == Entries \cap (Exits \cup {NoId}) = {}

VARIABLES
    phase,        \* index of the slot that is due
    kill, kills,  \* the kill switch, and how often it was switched
    intents,      \* intents[i]: the run whose intent record exists for id i
    ledger,       \* ledger[i]: the run that reserved i in the ownership ledger
    orders,       \* orders[i]: the broker's order with client id i
    position,     \* position[s]: net position of the account, everybody's
    userOrders,   \* symbols on which the owner has an open order
    userMoves,
    pc, stage,    \* where run r is, and which reconciliation it is in
    cur,          \* cur[r]: the id it works on
    tried,        \* tried[r]: proposals it has taken up
    snap,         \* snap[r]: its last reconciliation
    result,       \* what force_flat reported
    refused,      \* entries refused by the kill switch after their reservation
    submits       \* submits[e]: calls of submit_bracket with id e

owner == <<kill, kills, userOrders, userMoves>>
store == <<intents, ledger>>
broker == <<orders, position>>
local == <<pc, stage, cur, tried, snap, result, refused>>
vars == <<phase, owner, store, broker, local, submits>>

Schedule == <<"FIRST_SCAN", "LAST_NEW_TRADE", "FORCE_FLAT">>
Due(slot) == Schedule[phase] = slot

-----------------------------------------------------------------------------
(* Orders and what they say about the project's shares. *)

NoOrder == [status |-> "none", qty |-> 0, filled |-> 0, legs |-> "none",
            sold |-> 0, stopped |-> 0]
Known(o) == o.status # "none"
Working(o) == o.status = "open"
Remaining(o) == o.filled - o.sold
NothingPending(o) == 0  \* mutant
Pending(o) == IF Working(o) THEN o.qty - o.filled ELSE 0
Exposed(o) == Remaining(o) > 0 \/ Pending(o) > 0

EntriesIn(s, ids) == {e \in ids \cap Entries : SymbolOf[e] = s}

(* Project shares of s according to the orders in ids. *)
NetOf(s, ids) ==
    SumFunctionOnSet([e \in Entries |-> Remaining(orders[e])], EntriesIn(s, ids))
    - IF ExitId(s) \in ids THEN orders[ExitId(s)].filled ELSE 0

Net(s) == NetOf(s, Ids)

(* The open order list: every working order or leg with its fills, and the *)
(* owner's.                                                                *)
OpenOrders ==
    {<<i, "order", orders[i].filled>> : i \in {j \in Ids : Working(orders[j])}}
    \cup {<<i, "legs", orders[i].sold>> : i \in {j \in Ids : orders[j].legs = "working"}}
    \cup {<<s, "user", 0>> : s \in userOrders}
SymbolOfOrder(o) == IF o[2] = "user" THEN o[1] ELSE SymbolOfId(o[1])

NoSnap == [kill |-> FALSE, positions |-> [s \in Symbols |-> 0], open |-> {},
           ledger |-> [i \in Ids |-> NoRun], mine |-> {},
           owned |-> [s \in Symbols |-> 0], bases |-> [s \in Symbols |-> 0]]

-----------------------------------------------------------------------------
(* reconcile: the part that is computed once the exact orders are read,    *)
(* from the positions, open orders and ledger read before.                 *)

Reserved(l) == {i \in Ids : l[i] # NoRun}

Verified(l) == {i \in Reserved(l) : intents[i] = l[i] /\ Known(orders[i])}

Foreign(sn) ==
    {SymbolOfOrder(o) : o \in {p \in sn.open : p[1] \notin Verified(sn.ledger)}}

Mismatch(sn, s) ==
    LET n == NetOf(s, Verified(sn.ledger)) IN
      n < 0 \/ (n # 0 /\ (sn.positions[s] # n \/ s \in Foreign(sn)))

MissingOrderIgnored(sn) ==  \* mutant
    \/ \E i \in Reserved(sn.ledger) : intents[i] # sn.ledger[i]
    \/ \E s \in Symbols : Mismatch(sn, s)
Alerts(sn) ==
    \/ \E i \in Reserved(sn.ledger) : intents[i] # sn.ledger[i]  \* INTENT_MISMATCH
    \/ \E i \in Reserved(sn.ledger) : ~Known(orders[i])   \* UNRESOLVED_ORDER_INTENT
    \/ \E s \in Symbols : Mismatch(sn, s)                 \* AMBIGUOUS_OWNERSHIP
    \/ \E o \in sn.open : o[2] = "order" /\ o[1] \notin Verified(sn.ledger)
                                                          \* UNKNOWN_PROJECT_ORDER

OwnedByPosition(sn) == sn.positions  \* mutant
Owned(sn) ==
    [s \in Symbols |-> IF Mismatch(sn, s) THEN 0 ELSE NetOf(s, Verified(sn.ledger))]

PositionCount(sn) ==
    LET held == {SymbolOf[e] : e \in {x \in Verified(sn.ledger) \cap Entries :
                                        Exposed(orders[x])}}
    IN  Cardinality(held \cup {s \in Symbols : Owned(sn)[s] > 0})

OpenRiskOnly(sn) ==  \* mutant: what was lost at a stop is forgotten
    SumFunctionOnSet([e \in Entries |-> Remaining(orders[e]) + Pending(orders[e])],
                     Verified(sn.ledger) \cap Entries)
RiskUsed(sn) ==
    SumFunctionOnSet(
        [e \in Entries |-> orders[e].stopped + Remaining(orders[e]) + Pending(orders[e])],
        Verified(sn.ledger) \cap Entries)

(* The project's open orders, and the filled entries an exit price can be  *)
(* taken from.                                                             *)
Mine(sn) == {o \in sn.open : o[1] \in Verified(sn.ledger)}

Bases(sn) ==
    [s \in Symbols |->
       Cardinality({e \in EntriesIn(s, Verified(sn.ledger)) : orders[e].filled > 0})]

-----------------------------------------------------------------------------
Init ==
    /\ phase = 1
    /\ kill = FALSE /\ kills = 0
    /\ intents = [i \in Ids |-> NoRun]
    /\ ledger = [i \in Ids |-> NoRun]
    /\ orders = [i \in Ids |-> NoOrder]
    /\ position = [s \in Symbols |-> 0]
    /\ userOrders = {} /\ userMoves = 0
    /\ pc = [r \in Runs |-> "idle"]
    /\ stage = [r \in Runs |-> "none"]
    /\ cur = [r \in Runs |-> NoId]
    /\ tried = [r \in Runs |-> {}]
    /\ snap = [r \in Runs |-> NoSnap]
    /\ result = "none"
    /\ refused = {}
    /\ submits = [e \in Entries |-> 0]

At(r, label) == pc[r] = label
Goto(r, label) == pc' = [pc EXCEPT ![r] = label]
Forget(r) ==
    /\ snap' = [snap EXCEPT ![r] = NoSnap]
    /\ cur' = [cur EXCEPT ![r] = NoId]
Die(r) == Goto(r, "aborted") /\ Forget(r)

(* A write that took effect may still raise in the caller: the answer was  *)
(* lost, or the process died.                                              *)
GotoOrDie(r, label) ==
    \/ Goto(r, label) /\ UNCHANGED <<snap, cur>>
    \/ Faults /\ Die(r)

(* The run claims its slot while it is due.  An exit needs the authority   *)
(* documents to be readable, nothing more.                                 *)
Claim(r) ==
    /\ At(r, "idle")
    /\ Due(r)
    /\ Goto(r, IF r = Flat THEN "positions" ELSE "propose")
    /\ stage' = [stage EXCEPT ![r] = IF r = Flat THEN "before" ELSE "evaluate"]
    /\ UNCHANGED <<phase, owner, store, broker, cur, tried, snap, result, refused, submits>>

(* The strategist proposes any entry, one it has proposed to an earlier    *)
(* run included (or nothing more), and strategy, policy and kill switch    *)
(* are read.                                                               *)
Propose(r) ==
    /\ At(r, "propose")
    /\ \E e \in Entries \ tried[r] :
          /\ cur' = [cur EXCEPT ![r] = e]
          /\ tried' = [tried EXCEPT ![r] = @ \cup {e}]
    /\ snap' = [snap EXCEPT ![r].kill = kill]
    /\ Goto(r, "positions")
    /\ UNCHANGED <<phase, owner, store, broker, stage, result, refused, submits>>

ReadPositions(r) ==
    /\ At(r, "positions")
    /\ snap' = [snap EXCEPT ![r].positions = position]
    /\ Goto(r, "open_orders")
    /\ UNCHANGED <<phase, owner, store, broker, stage, cur, tried, result, refused, submits>>

ReadOpenOrders(r) ==
    /\ At(r, "open_orders")
    /\ snap' = [snap EXCEPT ![r].open = OpenOrders, ![r].ledger = ledger]
    /\ Goto(r, "orders")
    /\ UNCHANGED <<phase, owner, store, broker, stage, cur, tried, result, refused, submits>>

(* Back to the proposals, with the proposal refused or submitted. *)
Return(r) == Goto(r, "propose") /\ Forget(r)

(* policy.evaluate on the reconciled snapshot. *)
Passes(r) ==
    LET sn == snap[r]  e == cur[r]  s == SymbolOf[e] IN
      /\ ~sn.kill
      /\ ~Alerts(sn)
      /\ ~Known(orders[e]) /\ intents[e] = NoRun
      /\ PositionCount(sn) < MaxPositions
      /\ Cardinality(Verified(sn.ledger) \cap Entries) < MaxNew
      /\ sn.positions[s] = 0
      /\ \A o \in sn.open : SymbolOfOrder(o) # s
      /\ RiskUsed(sn) + Qty <= DailyRisk

Evaluate(r) ==
    /\ At(r, "orders") /\ stage[r] = "evaluate"
    /\ \/ /\ Passes(r)
          /\ Goto(r, "intent")
          /\ snap' = [snap EXCEPT ![r].ledger = NoSnap.ledger]
          /\ UNCHANGED cur
       \/ Return(r)
    /\ UNCHANGED <<phase, owner, store, broker, stage, tried, result, refused, submits>>

(* The append-only intent: one run only ever creates it. *)
WriteIntent(r) ==
    /\ At(r, "intent")
    /\ \/ /\ intents[cur[r]] = NoRun
          /\ intents' = [intents EXCEPT ![cur[r]] = r]
          /\ GotoOrDie(r, "reserve")
       \/ /\ intents[cur[r]] # NoRun
          /\ Return(r)
          /\ UNCHANGED intents
    /\ UNCHANGED <<phase, owner, ledger, broker, stage, tried, result, refused, submits>>

NothingReserved(r) ==  \* mutant
    /\ At(r, "reserve")
    /\ GotoOrDie(r, "reread")
    /\ UNCHANGED <<phase, owner, store, broker, stage, tried, result, refused, submits>>

Reserve(r) ==
    /\ At(r, "reserve")
    /\ \/ /\ ledger[cur[r]] = NoRun
          /\ ledger' = [ledger EXCEPT ![cur[r]] = r]
          /\ GotoOrDie(r, "reread")
       \/ /\ ledger[cur[r]] # NoRun
          /\ Die(r)
          /\ UNCHANGED ledger
    /\ UNCHANGED <<phase, owner, intents, broker, stage, tried, result, refused, submits>>

(* Final authority reread; what was reserved stays reserved. *)
RereadAuthority(r) ==
    /\ At(r, "reread")
    /\ \/ /\ ~kill
          /\ Goto(r, "recheck_positions")
          /\ UNCHANGED <<cur, snap, refused>>
       \/ /\ kill
          /\ Return(r)
          /\ refused' = refused \cup {cur[r]}
    /\ UNCHANGED <<phase, owner, store, broker, stage, tried, result, submits>>

(* The broker's clock, the quote, the account and its positions ... *)
RecheckPositions(r) ==
    /\ At(r, "recheck_positions")
    /\ \/ /\ Due(r)
          /\ position = snap[r].positions
          /\ Goto(r, "recheck_orders")
          /\ UNCHANGED <<cur, snap>>
       \/ Return(r)
    /\ UNCHANGED <<phase, owner, store, broker, stage, tried, result, refused, submits>>

(* ... then the open orders and the id itself. *)
RecheckOrders(r) ==
    /\ At(r, "recheck_orders")
    /\ IF OpenOrders = snap[r].open /\ ~Known(orders[cur[r]])
       THEN /\ Goto(r, "submit")
            /\ snap' = [snap EXCEPT ![r] = NoSnap]
            /\ UNCHANGED cur
       ELSE Return(r)
    /\ UNCHANGED <<phase, owner, store, broker, stage, tried, result, refused, submits>>

AcceptNothing(i, qty, legs) ==  \* mutant
    orders' = [orders EXCEPT ![i] = [NoOrder EXCEPT !.status = "open", !.legs = legs]]
Accept(i, qty, legs) ==
    orders' = [orders EXCEPT ![i] =
                 [NoOrder EXCEPT !.status = "open", !.qty = qty, !.legs = legs]]

Resubmit(r) ==  \* mutant: a submission that raised is made again
    /\ At(r, "submit")
    /\ submits' = [submits EXCEPT ![cur[r]] = @ + 1]
    /\ \/ ~Known(orders[cur[r]]) /\ Accept(cur[r], Qty, "working") /\ Return(r)
       \/ Faults /\ UNCHANGED <<orders, pc, snap, cur>>
    /\ UNCHANGED <<phase, owner, store, position, stage, tried, result, refused>>

(* The submission: accepted and acknowledged; accepted and the answer or   *)
(* the acknowledgment lost; or refused by the broker, which refuses an id  *)
(* it knows.  An outcome that is not known ends the run.                   *)
Submit(r) ==
    /\ At(r, "submit")
    /\ submits' = [submits EXCEPT ![cur[r]] = @ + 1]
    /\ \/ /\ ~Known(orders[cur[r]])
          /\ Accept(cur[r], Qty, "working")
          /\ Return(r) \/ (Faults /\ Die(r))
       \/ /\ Faults \/ Known(orders[cur[r]])
          /\ Die(r)
          /\ UNCHANGED orders
    /\ UNCHANGED <<phase, owner, store, position, stage, tried, result, refused>>

-----------------------------------------------------------------------------
(* force_flat.  A raised error ends it as FORCE_FLAT_UNRESOLVED.           *)

End(r, outcome) ==
    /\ Goto(r, "done")
    /\ Forget(r)
    /\ result' = outcome

Reconcile(r, next) ==
    /\ Goto(r, "positions")
    /\ stage' = [stage EXCEPT ![r] = next]
    /\ snap' = [snap EXCEPT ![r] = NoSnap]

(* Alerts before anything is done: report them and do nothing. *)
Before(r) ==
    /\ At(r, "orders") /\ stage[r] = "before"
    /\ IF Alerts(snap[r])
       THEN End(r, "alerts")
       ELSE /\ snap' = [snap EXCEPT ![r] = [NoSnap EXCEPT !.mine = Mine(snap[r])]]
            /\ Goto(r, "cancel")
            /\ UNCHANGED <<cur, result>>
    /\ UNCHANGED <<phase, owner, store, broker, stage, tried, refused, submits>>

Canceled(o) ==
    [orders EXCEPT ![o[1]] =
       IF o[2] = "legs" THEN [@ EXCEPT !.legs = "done"]
       ELSE IF Working(@) THEN [@ EXCEPT !.status = "canceled"] ELSE @]

(* Cancel one verified order; the broker may refuse, or accept a           *)
(* cancellation that does not happen.                                      *)
Cancel(r) ==
    /\ At(r, "cancel")
    /\ \E o \in snap[r].mine :
          \/ /\ \/ orders' = Canceled(o)
                \/ Faults /\ UNCHANGED orders
             /\ snap' = [snap EXCEPT ![r].mine = @ \ {o}]
             /\ UNCHANGED <<pc, cur, result>>
          \/ /\ Faults
             /\ End(r, "unresolved")
             /\ UNCHANGED orders
    /\ UNCHANGED <<phase, owner, store, position, stage, tried, refused, submits>>

CancelsSent(r) ==
    /\ At(r, "cancel")
    /\ snap[r].mine = {}
    /\ Reconcile(r, "current")
    /\ UNCHANGED <<phase, owner, store, broker, cur, tried, result, refused, submits>>

(* Nothing is sold before a second reconciliation shows no alert and no    *)
(* project order left.                                                     *)
SentIsConfirmed(sn) == ~Alerts(sn)  \* mutant
Confirmed(sn) == ~Alerts(sn) /\ Mine(sn) = {}

AfterCancel(r) ==
    /\ At(r, "orders") /\ stage[r] = "current"
    /\ IF Confirmed(snap[r])
       THEN /\ snap' = [snap EXCEPT ![r] = [NoSnap EXCEPT !.owned = Owned(snap[r]),
                                                         !.bases = Bases(snap[r])]]
            /\ Goto(r, "exit")
            /\ UNCHANGED <<cur, result>>
       ELSE End(r, "unresolved")
    /\ UNCHANGED <<phase, owner, store, broker, stage, tried, refused, submits>>

Skip(r, s) ==
    /\ Known(orders[ExitId(s)])
    /\ snap' = [snap EXCEPT ![r].owned[s] = 0]
    /\ UNCHANGED <<intents, pc, cur, result>>

(* An exit needs one entry price, so exactly one filled entry of its       *)
(* symbol in the ledger, and an intent of its own.                         *)
Ambiguous(r, s) ==
    /\ ~Known(orders[ExitId(s)])
    /\ snap[r].bases[s] # 1 \/ intents[ExitId(s)] # NoRun
    /\ End(r, "unresolved")
    /\ UNCHANGED intents

ExitIntent(r, s) ==
    /\ ~Known(orders[ExitId(s)])
    /\ snap[r].bases[s] = 1
    /\ intents[ExitId(s)] = NoRun
    /\ intents' = [intents EXCEPT ![ExitId(s)] = r]
    /\ snap' = [snap EXCEPT ![r].ledger = ledger]
    /\ cur' = [cur EXCEPT ![r] = ExitId(s)]
    /\ Goto(r, "exit_reserve")
    /\ UNCHANGED result

Exit(r) ==
    /\ At(r, "exit")
    /\ \E s \in {x \in Symbols : snap[r].owned[x] > 0} :
          Skip(r, s) \/ Ambiguous(r, s) \/ ExitIntent(r, s)
    /\ UNCHANGED <<phase, owner, ledger, broker, stage, tried, refused, submits>>

(* The reservation of an exit refuses a ledger that changed meanwhile. *)
ExitReserve(r) ==
    /\ At(r, "exit_reserve")
    /\ IF ledger = snap[r].ledger
       THEN /\ ledger' = [ledger EXCEPT ![cur[r]] = r]
            /\ \/ Goto(r, "close") /\ UNCHANGED <<cur, snap, result>>
               \/ Faults /\ End(r, "unresolved")
       ELSE End(r, "unresolved") /\ UNCHANGED ledger
    /\ UNCHANGED <<phase, owner, intents, broker, stage, tried, refused, submits>>

(* close_owned sells the verified quantity if it is the whole position of  *)
(* the account in that symbol.                                             *)
Close(r) ==
    /\ At(r, "close")
    /\ LET s == SymbolOfId(cur[r]) IN
         \/ /\ position[s] = snap[r].owned[s]
            /\ Accept(cur[r], snap[r].owned[s], "none")
            /\ \/ /\ Goto(r, "exit")
                  /\ snap' = [snap EXCEPT ![r].owned[s] = 0, ![r].ledger = NoSnap.ledger]
                  /\ cur' = [cur EXCEPT ![r] = NoId]
                  /\ UNCHANGED result
               \/ Faults /\ End(r, "unresolved")
         \/ /\ position[s] # snap[r].owned[s] \/ Faults
            /\ End(r, "unresolved")
            /\ UNCHANGED orders
    /\ UNCHANGED <<phase, owner, store, position, stage, tried, refused, submits>>

ExitsSent(r) ==
    /\ At(r, "exit")
    /\ \A s \in Symbols : snap[r].owned[s] <= 0
    /\ Reconcile(r, "after")
    /\ UNCHANGED <<phase, owner, store, broker, cur, tried, result, refused, submits>>

(* assert_flat on the last reconciliation. *)
NoAlertsLeft(sn) == ~Alerts(sn)  \* mutant
AssertFlat(sn) ==
    /\ ~Alerts(sn)
    /\ \A s \in Symbols : Owned(sn)[s] <= 0
    /\ Mine(sn) = {}

Verify(r) ==
    /\ At(r, "orders") /\ stage[r] = "after"
    /\ End(r, IF AssertFlat(snap[r]) THEN "clean" ELSE "issues")
    /\ UNCHANGED <<phase, owner, store, broker, stage, tried, refused, submits>>

(* A crash, or an error that no step above handles. *)
Abort(r) ==
    /\ Faults
    /\ pc[r] \notin {"idle", "propose", "done", "aborted"}
    /\ Die(r)
    /\ UNCHANGED <<phase, owner, store, broker, stage, tried, result, refused, submits>>

-----------------------------------------------------------------------------
(* The broker. *)

(* One share of a working order is bought, or sold by an exit. *)
Fill(i) ==
    /\ Working(orders[i])
    /\ orders' = [orders EXCEPT ![i].filled = @ + 1,
                     ![i].status = IF orders[i].filled + 1 = orders[i].qty
                                   THEN "filled" ELSE "open"]
    /\ position' = [position EXCEPT ![SymbolOfId(i)] =
                       IF i \in Entries THEN @ + 1 ELSE @ - 1]
    /\ UNCHANGED <<phase, owner, store, local, submits>>

(* A working leg of an entry that is no longer open sells one share, at    *)
(* the target or at the stop.                                              *)
FillLeg(e) ==
    LET o == orders[e] IN
    /\ o.legs = "working" /\ ~Working(o) /\ Remaining(o) > 0
    /\ \E loss \in {0, 1} :
          orders' = [orders EXCEPT ![e].sold = @ + 1, ![e].stopped = @ + loss,
                       ![e].legs = IF Remaining(o) = 1 THEN "done" ELSE "working"]
    /\ position' = [position EXCEPT ![SymbolOf[e]] = @ - 1]
    /\ UNCHANGED <<phase, owner, store, local, submits>>

(* An entry expires; its legs go on for what was filled. *)
Expire(e) ==
    /\ Working(orders[e])
    /\ orders' = [orders EXCEPT ![e].status = "canceled",
                     ![e].legs = IF orders[e].filled = 0 THEN "done" ELSE @]
    /\ UNCHANGED <<phase, owner, store, position, local, submits>>

-----------------------------------------------------------------------------
(* The owner of the account and of the repository, and the clock. *)

SwitchKill ==
    /\ kills < MaxKills
    /\ kill' = ~kill /\ kills' = kills + 1
    /\ UNCHANGED <<phase, store, broker, local, submits, userOrders, userMoves>>

UserTrade(s) ==
    /\ userMoves < MaxUserMoves
    /\ userMoves' = userMoves + 1
    /\ \/ position' = [position EXCEPT ![s] = @ + 1]
       \/ position[s] > 0 /\ position' = [position EXCEPT ![s] = @ - 1]
    /\ UNCHANGED <<phase, store, orders, local, submits, kill, kills, userOrders>>

UserOrder(s) ==
    /\ userMoves < MaxUserMoves
    /\ userMoves' = userMoves + 1
    /\ userOrders' = IF s \in userOrders THEN userOrders \ {s} ELSE userOrders \cup {s}
    /\ UNCHANGED <<phase, store, broker, local, submits, kill, kills>>

(* Windows do not overlap; a run may outlast any number of them, between   *)
(* any two of its steps.                                                   *)
Tick ==
    /\ phase < Len(Schedule)
    /\ phase' = phase + 1
    /\ UNCHANGED <<owner, store, broker, local, submits>>

Submission(r) ==
    \/ Propose(r) \/ Evaluate(r)
    \/ WriteIntent(r) \/ Reserve(r) \/ RereadAuthority(r)
    \/ RecheckPositions(r) \/ RecheckOrders(r) \/ Submit(r)

ForceFlat(r) ==
    \/ Before(r) \/ Cancel(r) \/ CancelsSent(r) \/ AfterCancel(r)
    \/ Exit(r) \/ ExitReserve(r) \/ Close(r)
    \/ ExitsSent(r) \/ Verify(r)

Run(r) ==
    \/ Claim(r) \/ ReadPositions(r) \/ ReadOpenOrders(r)
    \/ Submission(r) \/ ForceFlat(r) \/ Abort(r)

Next ==
    \/ \E r \in Runs : Run(r)
    \/ \E i \in Ids : Fill(i)
    \/ \E e \in Entries : FillLeg(e) \/ Expire(e)
    \/ \E s \in Symbols : UserTrade(s) \/ UserOrder(s)
    \/ SwitchKill
    \/ Tick

Spec == Init /\ [][Next]_vars

-----------------------------------------------------------------------------
Order == [status : {"none", "open", "filled", "canceled"}, qty : Nat, filled : Nat,
          legs : {"none", "working", "done"}, sold : Nat, stopped : Nat]

TypeOK ==
    /\ phase \in 1..Len(Schedule)
    /\ kill \in BOOLEAN /\ kills \in 0..MaxKills
    /\ userOrders \subseteq Symbols /\ userMoves \in 0..MaxUserMoves
    /\ intents \in [Ids -> Runs \cup {NoRun}]
    /\ ledger \in [Ids -> Runs \cup {NoRun}]
    /\ orders \in [Ids -> Order]
    /\ position \in [Symbols -> Int]
    /\ cur \in [Runs -> Ids \cup {NoId}]
    /\ tried \in [Runs -> SUBSET Entries]
    /\ DOMAIN snap = Runs /\ refused \subseteq Entries
    /\ \A i \in Ids : orders[i].filled <= orders[i].qty
                      /\ orders[i].sold <= orders[i].filled

(* Every project order at the broker can be attributed, whatever crashes:  *)
(* its intent and its ledger reservation were durable before it was        *)
(* submitted, and agree (executor.py 94-108, 251-262).                     *)
IntentBeforeOrder ==
    \A i \in Ids : Known(orders[i]) =>
       intents[i] # NoRun /\ ledger[i] = intents[i]

(* No entry is submitted twice, by a retry, a replayed proposal in a later *)
(* slot or a run that follows a crash (executor.py 94-100, 167-188).       *)
SubmittedOnce == \A e \in Entries : submits[e] <= 1

(* The project's own shares are never oversold, by a leg that fills while  *)
(* force_flat closes the position (executor.py 216-262).                   *)
NeverShort == \A s \in Symbols : Net(s) >= 0

(* Never more symbols at risk than the policy allows, over all runs, with  *)
(* the entries that wait for their fill (policy.py 96, executor.py         *)
(* 102-157).                                                               *)
PositionLimit ==
    Cardinality({s \in Symbols : \E e \in EntriesIn(s, Ids) :
                   Working(orders[e]) \/ Remaining(orders[e]) > 0}) <= MaxPositions

(* What the day has lost at stops and can still lose stays within the      *)
(* daily budget: a profit never gives budget back (policy.py 131-135,      *)
(* reconcile.py 84-112).                                                   *)
DailyRiskBound ==
    SumFunction([e \in Entries |->
        orders[e].stopped +
           (IF Working(orders[e]) THEN orders[e].qty ELSE orders[e].filled) - orders[e].sold])
      <= DailyRisk

(* A force_flat that reports no issue left the project with no share and   *)
(* no working order, and no run adds one later that day (executor.py       *)
(* 272-281, slots.py 21-30).                                               *)
FlatMeansFlat ==
    result = "clean" =>
       /\ \A s \in Symbols : Net(s) = 0
       /\ \A i \in Ids : ~Working(orders[i]) /\ orders[i].legs # "working"

(* "Kill switch does not block these risk-reducing simulated exits"        *)
(* (TRADING_RUNTIME.md 103): a kill switch that stopped an entry does not  *)
(* keep force_flat from closing the positions there are (executor.py       *)
(* 109-122, 203-214).                                                      *)
KillSwitchDoesNotBlockExits ==
    refused # {} /\ result = "alerts" => \A s \in Symbols : Net(s) = 0
=============================================================================
