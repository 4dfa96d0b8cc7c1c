------------------------ MODULE PaperExecution_proofs ------------------------
(***************************************************************************)
(* For every number of symbols, entries, shares and faults, and every      *)
(* bound, in four parts:                                                   *)
(*                                                                         *)
(* 1. An order at the broker can always be attributed to the run that      *)
(*    reserved it, and no entry is submitted twice (IInv).  An intent is   *)
(*    created once and never changed, so the run named in it is the only   *)
(*    one that ever reserves, submits or closes under that id.             *)
(* 2. Types (Typed), and what may become of an order (Follows): at the     *)
(*    broker it never risks more than it did.                              *)
(* 3. The limits on positions and on the daily risk (Limits).  A run that  *)
(*    is due reads the ledger before the orders; every entry on its way to *)
(*    the broker is in that ledger, so an evaluation without alert leaves  *)
(*    no other run such an entry, and the room it found is still there     *)
(*    when its own entry arrives.                                          *)
(* 4. The exits (Exiting).  force_flat sells only once the day is closed   *)
(*    (the last slot is due and no entry is on its way) and nothing of the *)
(*    entries works any more, so what they hold cannot change under it.    *)
(*                                                                         *)
(* Nothing is assumed of the broker's answers, of the owner, who trades in *)
(* the same account, or of the order in which runs and faults interleave.  *)
(***************************************************************************)
EXTENDS PaperExecution, TLAPS, FiniteSetTheorems, WellFoundedInduction

-----------------------------------------------------------------------------
(* 1. Intents, reservations and orders.                                    *)

(* From its intent on, a run works on an id that is its own. *)
Intended == {"reserve", "reread", "recheck_positions", "recheck_orders", "submit"}
Ledgered == Intended \ {"reserve"}
Evaluating == {"positions", "open_orders", "orders"}

Shape ==
    /\ intents \in [Ids -> Runs \cup {NoRun}]
    /\ ledger \in [Ids -> Runs \cup {NoRun}]
    /\ submits \in [Entries -> Nat]
    /\ DOMAIN pc = Runs /\ DOMAIN cur = Runs /\ DOMAIN stage = Runs
    /\ DOMAIN orders = Ids
    /\ \A i \in Ids : "status" \in DOMAIN orders[i]

EntryOf(r) ==
    (pc[r] \in Evaluating /\ stage[r] = "evaluate") \/ pc[r] \in Intended \cup {"intent"}
       => cur[r] \in Entries
IntentOf(r) == pc[r] \in Intended => intents[cur[r]] = r /\ submits[cur[r]] = 0
LedgerOf(r) == pc[r] \in Ledgered => ledger[cur[r]] = r
ExitOf(r) ==
    /\ pc[r] \in {"exit_reserve", "close"} => cur[r] \in Exits /\ intents[cur[r]] = r
    /\ pc[r] = "close" => ledger[cur[r]] = r

Local(r) == EntryOf(r) /\ IntentOf(r) /\ LedgerOf(r) /\ ExitOf(r)

UnintendedIsNew == \A e \in Entries : intents[e] = NoRun => submits[e] = 0

IInv ==
    /\ Shape
    /\ \A r \in Runs : Local(r)
    /\ UnintendedIsNew
    /\ IntentBeforeOrder
    /\ SubmittedOnce

-----------------------------------------------------------------------------
(* Steps of one run that write nothing to the store and submit nothing. *)

OnlyRun(r) ==
    /\ DOMAIN pc' = Runs /\ DOMAIN cur' = Runs /\ DOMAIN stage' = Runs
    /\ \A q \in Runs \ {r} : pc'[q] = pc[q] /\ cur'[q] = cur[q] /\ stage'[q] = stage[q]

SameKnown ==
    /\ DOMAIN orders' = Ids
    /\ \A i \in Ids : /\ "status" \in DOMAIN orders'[i]
                      /\ Known(orders'[i]) <=> Known(orders[i])

(* A run that changes nothing but itself, and what is left of its own      *)
(* obligations, keeps the invariant.                                       *)
LEMMA Frame ==
    ASSUME IInv, NEW r \in Runs, OnlyRun(r), SameKnown, Local(r)',
           UNCHANGED <<intents, ledger, submits>>
    PROVE  IInv'
<1>1. Shape'
  BY DEF IInv, Shape, OnlyRun, SameKnown
<1>2. ASSUME NEW q \in Runs, q # r PROVE Local(q)'
  BY <1>2 DEF IInv, OnlyRun, Local, EntryOf, IntentOf, LedgerOf, ExitOf
<1>3. IntentBeforeOrder'
  BY DEF IInv, IntentBeforeOrder, SameKnown, Known
<1>4. UnintendedIsNew' /\ SubmittedOnce'
  BY DEF IInv, UnintendedIsNew, SubmittedOnce
<1>. QED BY <1>1, <1>2, <1>3, <1>4 DEF IInv

(* A run that ends, or goes back to its proposals, owes nothing. *)
LEMMA Idle ==
    ASSUME NEW r \in Runs, pc'[r] \notin Evaluating \cup Intended \cup
                                         {"intent", "exit_reserve", "close"}
    PROVE  Local(r)'
BY DEF Local, EntryOf, IntentOf, LedgerOf, ExitOf, Evaluating, Intended, Ledgered

(* Orders untouched. *)
LEMMA Untouched ==
    ASSUME IInv, UNCHANGED orders
    PROVE  SameKnown
BY DEF IInv, Shape, SameKnown, Known

(* Initially there is no intent, reservation, order or submission. *)
LEMMA InitIInv == Init => IInv
<1> SUFFICES ASSUME Init PROVE IInv
  OBVIOUS
<1>1. Shape
  BY DEF Init, Shape, NoOrder
<1>2. ASSUME NEW r \in Runs PROVE Local(r)
  BY DEF Init, Local, EntryOf, IntentOf, LedgerOf, ExitOf, Evaluating, Intended, Ledgered
<1>3. UnintendedIsNew /\ IntentBeforeOrder /\ SubmittedOnce
  BY DEF Init, UnintendedIsNew, IntentBeforeOrder, SubmittedOnce, Known, NoOrder
<1>. QED BY <1>1, <1>2, <1>3 DEF IInv

-----------------------------------------------------------------------------
(* Every action keeps the invariant: first those of a run that only read,  *)
(* decide or cancel.                                                       *)

(* Reading, deciding and dying create nothing. *)
LEMMA ReadingSteps ==
    ASSUME IInv, NEW r \in Runs,
           \/ Claim(r) \/ Propose(r) \/ ReadPositions(r) \/ ReadOpenOrders(r)
           \/ Evaluate(r) \/ RereadAuthority(r) \/ RecheckPositions(r)
           \/ RecheckOrders(r) \/ Abort(r)
    PROVE  IInv'
<1>. USE DEF At, Goto, Return, Die, Forget, store
<1>0. DOMAIN pc = Runs /\ DOMAIN cur = Runs /\ DOMAIN stage = Runs /\ Local(r)
  BY DEF IInv, Shape
<1>1. CASE Claim(r)
  <2>1. OnlyRun(r) /\ UNCHANGED <<intents, ledger, submits, orders>>
    BY <1>0, <1>1 DEF Claim, OnlyRun, broker
  <2>2. Local(r)'
    BY <1>0, <1>1 DEF Claim, Local, EntryOf, IntentOf, LedgerOf, ExitOf,
                      Evaluating, Intended, Ledgered, Flat
  <2>. QED BY <2>1, <2>2, Untouched, Frame
<1>2. CASE Propose(r)
  <2>1. OnlyRun(r) /\ UNCHANGED <<intents, ledger, submits, orders>>
    BY <1>0, <1>2 DEF Propose, OnlyRun, broker
  <2>2. Local(r)'
    BY <1>0, <1>2 DEF Propose, Local, EntryOf, IntentOf, LedgerOf, ExitOf,
                      Evaluating, Intended, Ledgered
  <2>. QED BY <2>1, <2>2, Untouched, Frame
<1>3. CASE ReadPositions(r)
  <2>1. OnlyRun(r) /\ UNCHANGED <<intents, ledger, submits, orders>>
    BY <1>0, <1>3 DEF ReadPositions, OnlyRun, broker
  <2>2. Local(r)'
    BY <1>0, <1>3 DEF ReadPositions, Local, EntryOf, IntentOf, LedgerOf, ExitOf,
                      Evaluating, Intended, Ledgered
  <2>. QED BY <2>1, <2>2, Untouched, Frame
<1>4. CASE ReadOpenOrders(r)
  <2>1. OnlyRun(r) /\ UNCHANGED <<intents, ledger, submits, orders>>
    BY <1>0, <1>4 DEF ReadOpenOrders, OnlyRun, broker
  <2>2. Local(r)'
    BY <1>0, <1>4 DEF ReadOpenOrders, Local, EntryOf, IntentOf, LedgerOf, ExitOf,
                      Evaluating, Intended, Ledgered
  <2>. QED BY <2>1, <2>2, Untouched, Frame
<1>5. CASE Evaluate(r)
  <2>1. OnlyRun(r) /\ UNCHANGED <<intents, ledger, submits, orders>>
    BY <1>0, <1>5 DEF Evaluate, OnlyRun, broker
  <2>2. Local(r)'
    BY <1>0, <1>5 DEF Evaluate, Local, EntryOf, IntentOf, LedgerOf, ExitOf,
                      Evaluating, Intended, Ledgered
  <2>. QED BY <2>1, <2>2, Untouched, Frame
<1>6. CASE RereadAuthority(r)
  <2>1. OnlyRun(r) /\ UNCHANGED <<intents, ledger, submits, orders>>
    BY <1>0, <1>6 DEF RereadAuthority, OnlyRun, broker
  <2>2. Local(r)'
    BY <1>0, <1>6 DEF RereadAuthority, Local, EntryOf, IntentOf, LedgerOf, ExitOf,
                      Evaluating, Intended, Ledgered
  <2>. QED BY <2>1, <2>2, Untouched, Frame
<1>7. CASE RecheckPositions(r)
  <2>1. OnlyRun(r) /\ UNCHANGED <<intents, ledger, submits, orders>>
    BY <1>0, <1>7 DEF RecheckPositions, OnlyRun, broker
  <2>2. Local(r)'
    BY <1>0, <1>7 DEF RecheckPositions, Local, EntryOf, IntentOf, LedgerOf, ExitOf,
                      Evaluating, Intended, Ledgered
  <2>. QED BY <2>1, <2>2, Untouched, Frame
<1>8. CASE RecheckOrders(r)
  <2>1. OnlyRun(r) /\ UNCHANGED <<intents, ledger, submits, orders>>
    BY <1>0, <1>8 DEF RecheckOrders, OnlyRun, broker
  <2>2. Local(r)'
    BY <1>0, <1>8 DEF RecheckOrders, Local, EntryOf, IntentOf, LedgerOf, ExitOf,
                      Evaluating, Intended, Ledgered
  <2>. QED BY <2>1, <2>2, Untouched, Frame
<1>9. CASE Abort(r)
  <2>1. OnlyRun(r) /\ UNCHANGED <<intents, ledger, submits, orders>>
    BY <1>0, <1>9 DEF Abort, OnlyRun, broker
  <2>2. Local(r)'
    BY <1>0, <1>9, Idle DEF Abort, Evaluating, Intended
  <2>. QED BY <2>1, <2>2, Untouched, Frame
<1>. QED BY <1>1, <1>2, <1>3, <1>4, <1>5, <1>6, <1>7, <1>8, <1>9

(* The steps of force_flat that create no intent, reservation or order. *)
LEMMA FlatteningSteps ==
    ASSUME IInv, NEW r \in Runs,
           \/ Before(r) \/ Cancel(r) \/ CancelsSent(r)
           \/ AfterCancel(r) \/ ExitsSent(r) \/ Verify(r)
    PROVE  IInv'
<1>. USE DEF At, Goto, End, Forget, Reconcile, store
<1>0. DOMAIN pc = Runs /\ DOMAIN cur = Runs /\ DOMAIN stage = Runs /\ Local(r)
  BY DEF IInv, Shape
<1>1. CASE Before(r)
  <2>1. OnlyRun(r) /\ UNCHANGED <<intents, ledger, submits, orders>>
    BY <1>0, <1>1 DEF Before, OnlyRun, broker
  <2>2. Local(r)'
    BY <1>0, <1>1, Idle DEF Before, Evaluating, Intended
  <2>. QED BY <2>1, <2>2, Untouched, Frame
<1>2. CASE Cancel(r)
  <2>1. OnlyRun(r) /\ UNCHANGED <<intents, ledger, submits>>
    BY <1>0, <1>2 DEF Cancel, OnlyRun
  <2>2. Local(r)'
    BY <1>0, <1>2, Idle DEF Cancel, Evaluating, Intended
  <2>3. SameKnown
    <3>1. CASE UNCHANGED orders
      BY <3>1, Untouched
    <3>2. CASE \E o \in snap[r].mine : orders' = Canceled(o)
      BY <3>2 DEF IInv, Shape, Canceled, SameKnown, Known, Working
    <3>. QED BY <1>2, <3>1, <3>2 DEF Cancel
  <2>. QED BY <2>1, <2>2, <2>3, Frame
<1>3. CASE CancelsSent(r)
  <2>1. OnlyRun(r) /\ UNCHANGED <<intents, ledger, submits, orders>>
    BY <1>0, <1>3 DEF CancelsSent, OnlyRun, broker
  <2>2. Local(r)'
    BY <1>0, <1>3 DEF CancelsSent, Local, EntryOf, IntentOf, LedgerOf, ExitOf,
                      Evaluating, Intended, Ledgered
  <2>. QED BY <2>1, <2>2, Untouched, Frame
<1>4. CASE AfterCancel(r)
  <2>1. OnlyRun(r) /\ UNCHANGED <<intents, ledger, submits, orders>>
    BY <1>0, <1>4 DEF AfterCancel, OnlyRun, broker
  <2>2. Local(r)'
    BY <1>0, <1>4, Idle DEF AfterCancel, Evaluating, Intended
  <2>. QED BY <2>1, <2>2, Untouched, Frame
<1>5. CASE ExitsSent(r)
  <2>1. OnlyRun(r) /\ UNCHANGED <<intents, ledger, submits, orders>>
    BY <1>0, <1>5 DEF ExitsSent, OnlyRun, broker
  <2>2. Local(r)'
    BY <1>0, <1>5 DEF ExitsSent, Local, EntryOf, IntentOf, LedgerOf, ExitOf,
                      Evaluating, Intended, Ledgered
  <2>. QED BY <2>1, <2>2, Untouched, Frame
<1>6. CASE Verify(r)
  <2>1. OnlyRun(r) /\ UNCHANGED <<intents, ledger, submits, orders>>
    BY <1>0, <1>6 DEF Verify, OnlyRun, broker
  <2>2. Local(r)'
    BY <1>0, <1>6, Idle DEF Verify, Evaluating, Intended
  <2>. QED BY <2>1, <2>2, Untouched, Frame
<1>. QED BY <1>1, <1>2, <1>3, <1>4, <1>5, <1>6

-----------------------------------------------------------------------------
(* The steps that write to the store or to the broker. *)

(* Creating an intent touches no id that another run works on. *)
LEMMA WriteIntentStep ==
    ASSUME IInv, NEW r \in Runs, WriteIntent(r) PROVE IInv'
<1>. USE DEF At, Goto, GotoOrDie, Return, Die, Forget
<1>0. Shape /\ Local(r) /\ OnlyRun(r) /\ cur[r] \in Entries
      /\ UNCHANGED <<ledger, orders, submits>>
  BY DEF IInv, Shape, WriteIntent, OnlyRun, broker, Local, EntryOf
<1>1. CASE intents[cur[r]] = NoRun
  <2>1. intents' = [intents EXCEPT ![cur[r]] = r] /\ cur[r] \in Ids
    BY <1>0, <1>1 DEF WriteIntent, Ids
  <2>2. Shape'
    BY <1>0, <2>1 DEF Shape, OnlyRun
  <2>3. submits[cur[r]] = 0
    BY <1>0, <1>1 DEF IInv, UnintendedIsNew
  <2>4. Local(r)'
    <3>1. CASE pc'[r] = "reserve" /\ UNCHANGED cur
      BY <1>0, <2>1, <2>3, <3>1 DEF Shape, Local, EntryOf, IntentOf, LedgerOf, ExitOf,
                                   Evaluating, Intended, Ledgered
    <3>2. CASE pc'[r] = "aborted"
      BY <3>2, Idle DEF Evaluating, Intended
    <3>. QED BY <1>0, <1>1, <3>1, <3>2 DEF WriteIntent, Shape
  <2>5. ASSUME NEW q \in Runs, q # r PROVE Local(q)'
    <3>1. pc'[q] = pc[q] /\ cur'[q] = cur[q] /\ stage'[q] = stage[q] /\ Local(q)
      BY <1>0, <2>5 DEF OnlyRun, IInv
    <3>2. intents[cur[q]] = q => intents'[cur[q]] = q
      BY <1>0, <1>1, <2>1, RunAssumption DEF Shape
    <3>. QED BY <1>0, <3>1, <3>2 DEF Local, EntryOf, IntentOf, LedgerOf, ExitOf
  <2>6. IntentBeforeOrder'
    BY <1>0, <1>1, <2>1 DEF IInv, IntentBeforeOrder, Shape, Known
  <2>7. UnintendedIsNew' /\ SubmittedOnce'
    BY <1>0, <1>1, <2>1, RunAssumption
    DEF IInv, UnintendedIsNew, SubmittedOnce, Shape, Ids
  <2>. QED BY <2>2, <2>4, <2>5, <2>6, <2>7 DEF IInv
<1>2. CASE intents[cur[r]] # NoRun
  <2>1. UNCHANGED intents /\ pc'[r] = "propose"
    BY <1>0, <1>2 DEF WriteIntent, Shape
  <2>2. Local(r)'
    BY <2>1, Idle DEF Evaluating, Intended
  <2>. QED BY <1>0, <2>1, <2>2, Untouched, Frame
<1>. QED BY <1>1, <1>2

(* A ledger entry written under an intent of this run is nobody else's. *)
LEMMA LedgerWrite ==
    ASSUME IInv, NEW r \in Runs, cur[r] \in Ids, intents[cur[r]] = r,
           ledger' = [ledger EXCEPT ![cur[r]] = r],
           OnlyRun(r), UNCHANGED <<intents, orders, submits>>, Local(r)'
    PROVE  IInv'
<1>1. Shape'
  BY DEF IInv, Shape, OnlyRun
<1>2. ASSUME NEW q \in Runs, q # r PROVE Local(q)'
  <2>1. pc'[q] = pc[q] /\ cur'[q] = cur[q] /\ stage'[q] = stage[q] /\ Local(q)
    BY <1>2 DEF OnlyRun, IInv
  <2>2. intents[cur[q]] = q => ledger'[cur[q]] = ledger[cur[q]]
    BY <1>2 DEF IInv, Shape
  <2>. QED BY <2>1, <2>2 DEF Local, EntryOf, IntentOf, LedgerOf, ExitOf,
                             Intended, Ledgered
<1>3. IntentBeforeOrder'
  BY DEF IInv, IntentBeforeOrder, Shape, Known
<1>4. UnintendedIsNew' /\ SubmittedOnce'
  BY DEF IInv, UnintendedIsNew, SubmittedOnce
<1>. QED BY <1>1, <1>2, <1>3, <1>4 DEF IInv

(* An entry is reserved by the run whose intent it is. *)
LEMMA ReserveStep ==
    ASSUME IInv, NEW r \in Runs, Reserve(r) PROVE IInv'
<1>. USE DEF At, Goto, GotoOrDie, Die, Forget
<1>0. Shape /\ Local(r) /\ OnlyRun(r) /\ cur[r] \in Entries /\ intents[cur[r]] = r
      /\ UNCHANGED <<intents, orders, submits>>
  BY DEF IInv, Shape, Reserve, OnlyRun, broker, Local, EntryOf, IntentOf, Intended
<1>1. CASE ledger[cur[r]] = NoRun
  <2>1. ledger' = [ledger EXCEPT ![cur[r]] = r] /\ cur[r] \in Ids
    BY <1>0, <1>1 DEF Reserve, Ids
  <2>2. CASE pc'[r] = "reread" /\ UNCHANGED cur
    <3>1. Local(r)'
      BY <1>0, <2>1, <2>2 DEF Reserve, Shape, Local, EntryOf, IntentOf, LedgerOf, ExitOf,
                              Evaluating, Intended, Ledgered
    <3>. QED BY <1>0, <2>1, <3>1, LedgerWrite
  <2>3. CASE pc'[r] = "aborted"
    <3>1. Local(r)'
      BY <2>3, Idle DEF Evaluating, Intended
    <3>. QED BY <1>0, <2>1, <3>1, LedgerWrite
  <2>. QED BY <1>0, <1>1, <2>2, <2>3 DEF Reserve, Shape
<1>2. CASE ledger[cur[r]] # NoRun
  <2>1. UNCHANGED ledger /\ pc'[r] = "aborted"
    BY <1>0, <1>2 DEF Reserve, Shape
  <2>2. Local(r)'
    BY <2>1, Idle DEF Evaluating, Intended
  <2>. QED BY <1>0, <2>1, <2>2, Untouched, Frame
<1>. QED BY <1>1, <1>2

(* No other run can be about to submit the same entry: its intent names    *)
(* this run.                                                               *)
LEMMA SubmitStep ==
    ASSUME IInv, NEW r \in Runs, Submit(r) PROVE IInv'
<1>. USE DEF At, Goto, Return, Die, Forget
<1>0. /\ Shape /\ Local(r) /\ OnlyRun(r) /\ UNCHANGED <<intents, ledger>>
      /\ cur[r] \in Entries /\ intents[cur[r]] = r /\ ledger[cur[r]] = r
      /\ submits[cur[r]] = 0
  BY DEF IInv, Shape, Submit, OnlyRun, store, Local, EntryOf, IntentOf, LedgerOf,
         Intended, Ledgered
<1>1. submits' = [submits EXCEPT ![cur[r]] = 1] /\ cur[r] \in Ids
  BY <1>0 DEF Submit, Ids
<1>2. /\ DOMAIN orders' = Ids
      /\ \A i \in Ids : "status" \in DOMAIN orders'[i]
      /\ \A i \in Ids \ {cur[r]} : orders'[i] = orders[i]
  <2>1. UNCHANGED orders \/ Accept(cur[r], Qty, "working")
    BY DEF Submit
  <2>. QED BY <1>0, <2>1 DEF Accept, NoOrder, Shape
<1>3. Shape'
  BY <1>0, <1>1, <1>2 DEF Shape, OnlyRun
<1>4. Local(r)'
  <2>1. pc'[r] \in {"propose", "aborted"}
    BY <1>0 DEF Submit, Shape
  <2>. QED BY <2>1, Idle DEF Evaluating, Intended
<1>5. ASSUME NEW q \in Runs, q # r PROVE Local(q)'
  <2>1. pc'[q] = pc[q] /\ cur'[q] = cur[q] /\ stage'[q] = stage[q] /\ Local(q)
    BY <1>5, <1>0 DEF OnlyRun, IInv
  <2>2. pc[q] \in Intended => cur[q] \in Entries /\ cur[q] # cur[r]
    BY <1>0, <1>5, <2>1 DEF Local, EntryOf, IntentOf
  <2>. QED BY <1>0, <1>1, <2>1, <2>2 DEF Local, EntryOf, IntentOf, LedgerOf, ExitOf, Shape
<1>6. IntentBeforeOrder'
  BY <1>0, <1>2, RunAssumption DEF IInv, IntentBeforeOrder, Known
<1>7. UnintendedIsNew' /\ SubmittedOnce'
  BY <1>0, <1>1, RunAssumption DEF IInv, UnintendedIsNew, SubmittedOnce, Shape
<1>. QED BY <1>3, <1>4, <1>5, <1>6, <1>7 DEF IInv

(* An exit writes the intent of an id that is no entry's. *)
LEMMA ExitStep ==
    ASSUME IInv, NEW r \in Runs, Exit(r) PROVE IInv'
<1>. USE DEF At, Goto, End, Forget, Skip, Ambiguous, ExitIntent
<1>0. Shape /\ Local(r) /\ OnlyRun(r) /\ UNCHANGED <<ledger, orders, submits>>
  BY DEF IInv, Shape, Exit, OnlyRun, broker
<1>1. CASE UNCHANGED intents /\ pc'[r] \in {"exit", "done"}
  <2>1. Local(r)'
    BY <1>1, Idle DEF Evaluating, Intended
  <2>. QED BY <1>0, <1>1, <2>1, Untouched, Frame
<1>2. ASSUME NEW s \in Symbols, ExitIntent(r, s) PROVE IInv'
  <2>1. /\ ExitId(s) \in Exits /\ ExitId(s) \notin Entries /\ ExitId(s) \in Ids
        /\ intents[ExitId(s)] = NoRun
        /\ intents' = [intents EXCEPT ![ExitId(s)] = r]
        /\ pc'[r] = "exit_reserve" /\ cur'[r] = ExitId(s)
    BY <1>0, <1>2, IdAssumption DEF Exits, Ids, Shape
  <2>2. Shape'
    BY <1>0, <2>1 DEF Shape, OnlyRun
  <2>3. Local(r)'
    BY <1>0, <2>1 DEF Shape, Local, EntryOf, IntentOf, LedgerOf, ExitOf,
                      Evaluating, Intended, Ledgered
  <2>4. ASSUME NEW q \in Runs, q # r PROVE Local(q)'
    <3>1. pc'[q] = pc[q] /\ cur'[q] = cur[q] /\ stage'[q] = stage[q] /\ Local(q)
      BY <1>0, <2>4 DEF OnlyRun, IInv
    <3>2. intents[cur[q]] = q => intents'[cur[q]] = q
      BY <1>0, <2>1, RunAssumption DEF Shape
    <3>. QED BY <1>0, <3>1, <3>2 DEF Local, EntryOf, IntentOf, LedgerOf, ExitOf
  <2>5. IntentBeforeOrder'
    BY <1>0, <2>1 DEF IInv, IntentBeforeOrder, Shape, Known
  <2>6. UnintendedIsNew' /\ SubmittedOnce'
    BY <1>0, <2>1 DEF IInv, UnintendedIsNew, SubmittedOnce, Shape
  <2>. QED BY <2>2, <2>3, <2>4, <2>5, <2>6 DEF IInv
<1>3. \/ UNCHANGED intents /\ pc'[r] \in {"exit", "done"}
      \/ \E s \in Symbols : ExitIntent(r, s)
  BY <1>0 DEF Exit, Shape
<1>. QED BY <1>1, <1>2, <1>3

(* An exit is reserved by the run whose intent it is. *)
LEMMA ExitReserveStep ==
    ASSUME IInv, NEW r \in Runs, ExitReserve(r) PROVE IInv'
<1>. USE DEF At, Goto, End, Forget
<1>0. /\ Shape /\ Local(r) /\ OnlyRun(r) /\ UNCHANGED <<intents, orders, submits>>
      /\ cur[r] \in Exits /\ cur[r] \in Ids /\ intents[cur[r]] = r
  BY DEF IInv, Shape, ExitReserve, OnlyRun, broker, Local, ExitOf, Ids
<1>1. CASE ledger' = [ledger EXCEPT ![cur[r]] = r]
  <2>1. CASE pc'[r] = "close" /\ UNCHANGED cur
    <3>1. Local(r)'
      BY <1>0, <1>1, <2>1 DEF Shape, Local, EntryOf, IntentOf, LedgerOf, ExitOf,
                              Evaluating, Intended, Ledgered
    <3>. QED BY <1>0, <1>1, <3>1, LedgerWrite
  <2>2. CASE pc'[r] = "done"
    <3>1. Local(r)'
      BY <2>2, Idle DEF Evaluating, Intended
    <3>. QED BY <1>0, <1>1, <3>1, LedgerWrite
  <2>. QED BY <1>0, <1>1, <2>1, <2>2 DEF ExitReserve, Shape
<1>2. CASE UNCHANGED ledger /\ pc'[r] = "done"
  <2>1. Local(r)'
    BY <1>2, Idle DEF Evaluating, Intended
  <2>. QED BY <1>0, <1>2, <2>1, Untouched, Frame
<1>3. \/ ledger' = [ledger EXCEPT ![cur[r]] = r]
      \/ UNCHANGED ledger /\ pc'[r] = "done"
  BY <1>0 DEF ExitReserve, Shape
<1>. QED BY <1>1, <1>2, <1>3

(* The exit order appears with its intent and its reservation in place. *)
LEMMA CloseStep ==
    ASSUME IInv, NEW r \in Runs, Close(r) PROVE IInv'
<1>. USE DEF At, Goto, End, Forget
<1>0. /\ Shape /\ Local(r) /\ OnlyRun(r) /\ UNCHANGED <<intents, ledger, submits>>
      /\ cur[r] \in Ids /\ intents[cur[r]] = r /\ ledger[cur[r]] = r
      /\ pc'[r] \in {"exit", "done"}
  BY DEF IInv, Shape, Close, OnlyRun, store, Local, ExitOf, Ids
<1>1. /\ DOMAIN orders' = Ids
      /\ \A i \in Ids : "status" \in DOMAIN orders'[i]
      /\ \A i \in Ids \ {cur[r]} : orders'[i] = orders[i]
  BY <1>0 DEF Close, Accept, NoOrder, Shape
<1>2. Shape'
  BY <1>0, <1>1 DEF Shape, OnlyRun
<1>3. Local(r)'
  BY <1>0, Idle DEF Evaluating, Intended
<1>4. ASSUME NEW q \in Runs, q # r PROVE Local(q)'
  BY <1>0, <1>4 DEF OnlyRun, IInv, Local, EntryOf, IntentOf, LedgerOf, ExitOf
<1>5. IntentBeforeOrder'
  BY <1>0, <1>1, RunAssumption DEF IInv, IntentBeforeOrder, Known
<1>6. UnintendedIsNew' /\ SubmittedOnce'
  BY <1>0 DEF IInv, UnintendedIsNew, SubmittedOnce
<1>. QED BY <1>2, <1>3, <1>4, <1>5, <1>6 DEF IInv

-----------------------------------------------------------------------------
(* What the broker, the owner and the clock do changes no run and makes no *)
(* order known or unknown.                                                 *)
LEMMA OutsideSteps ==
    ASSUME IInv, UNCHANGED <<intents, ledger, submits, pc, stage, cur>>,
           SameKnown
    PROVE  IInv'
<1>1. OnlyRun(Flat) /\ Flat \in Runs
  BY DEF IInv, Shape, OnlyRun, Runs
<1>2. Local(Flat)'
  BY <1>1 DEF IInv, Local, EntryOf, IntentOf, LedgerOf, ExitOf
<1>. QED BY <1>1, <1>2, Frame

(* Fills and expiries make no order known. *)
LEMMA BrokerSteps ==
    ASSUME IInv,
           \/ \E i \in Ids : Fill(i)
           \/ \E e \in Entries : FillLeg(e) \/ Expire(e)
    PROVE  SameKnown
<1>1. ASSUME NEW i \in Ids, Fill(i) PROVE SameKnown
  BY <1>1 DEF IInv, Shape, Fill, SameKnown, Known, Working
<1>2. ASSUME NEW e \in Entries, FillLeg(e) PROVE SameKnown
  <2>1. PICK loss \in {0, 1} :
           orders' = [orders EXCEPT ![e].sold = @ + 1, ![e].stopped = @ + loss,
                        ![e].legs = IF Remaining(orders[e]) = 1 THEN "done" ELSE "working"]
    BY <1>2, Zenon DEF FillLeg
  <2>. DEFINE sold == orders[e].sold + 1
              stopped == orders[e].stopped + loss
              legs == IF Remaining(orders[e]) = 1 THEN "done" ELSE "working"
  <2>2. orders' = [orders EXCEPT ![e] = [orders[e] EXCEPT !.sold = sold,
                                            !.stopped = stopped, !.legs = legs]]
    BY <2>1, Zenon DEF IInv, Shape
  <2>. HIDE DEF sold, stopped, legs
  <2>. DEFINE o == [orders[e] EXCEPT !.sold = sold, !.stopped = stopped, !.legs = legs]
  <2>3. DOMAIN o = DOMAIN orders[e] /\ o.status = orders[e].status
    BY DEF IInv, Shape
  <2>. QED BY <2>2, <2>3 DEF IInv, Shape, SameKnown, Known
<1>3. ASSUME NEW e \in Entries, Expire(e) PROVE SameKnown
  BY <1>3 DEF IInv, Shape, Expire, SameKnown, Known, Working
<1>. QED BY <1>1, <1>2, <1>3

(* Every step of the day keeps the invariant. *)
LEMMA NextIInv == IInv /\ [Next]_vars => IInv'
<1> SUFFICES ASSUME IInv, [Next]_vars PROVE IInv'
  OBVIOUS
<1>1. ASSUME NEW r \in Runs, Run(r) PROVE IInv'
  BY <1>1, ReadingSteps, FlatteningSteps, WriteIntentStep, ReserveStep, SubmitStep,
     ExitStep, ExitReserveStep, CloseStep
  DEF Run, Submission, ForceFlat
<1>2. CASE \/ \E i \in Ids : Fill(i)
           \/ \E e \in Entries : FillLeg(e) \/ Expire(e)
  <2>1. UNCHANGED <<intents, ledger, submits, pc, stage, cur>>
    BY <1>2 DEF Fill, FillLeg, Expire, store, local
  <2>. QED BY <1>2, <2>1, BrokerSteps, OutsideSteps
<1>3. CASE \/ \E s \in Symbols : UserTrade(s) \/ UserOrder(s)
           \/ SwitchKill \/ Tick \/ UNCHANGED vars
  <2>1. UNCHANGED <<intents, ledger, submits, pc, stage, cur, orders>>
    BY <1>3 DEF UserTrade, UserOrder, SwitchKill, Tick, vars, store, broker, local
  <2>. QED BY <2>1, Untouched, OutsideSteps
<1>. QED BY <1>1, <1>2, <1>3 DEF Next

(* An order at the broker, entry or exit, has an intent and a ledger       *)
(* reservation that name the same run (executor.py 94-108, 251-262).       *)
THEOREM Attributable == Spec => []IntentBeforeOrder
<1>1. IInv => IntentBeforeOrder
  BY DEF IInv
<1>. QED BY <1>1, InitIInv, NextIInv, PTL DEF Spec

(* No entry is ever submitted a second time (executor.py 94-100, 167-188). *)
THEOREM NeverResubmitted == Spec => []SubmittedOnce
<1>1. IInv => SubmittedOnce
  BY DEF IInv
<1>. QED BY <1>1, InitIInv, NextIInv, PTL DEF Spec

-----------------------------------------------------------------------------
(* Sums over finite sets.  SumFunctionOnSet folds by elements it chooses;  *)
(* what it computes is proved on a smallest set that would break the fact. *)

(* A least number ... *)
LEMMA MinIn ==
    ASSUME NEW N \in SUBSET Nat, N # {}
    PROVE  \E x \in N : \A y \in N : x <= y
<1>. DEFINE R == {ss \in Nat \X Nat : ss[1] < ss[2]}
<1>1. IsWellFoundedOn(R, Nat)
  BY NatLessThanWellFounded DEF OpToRel
<1>2. ASSUME NEW x \in Nat, NEW y \in Nat, <<y, x>> \notin R PROVE x <= y
  BY <1>2
<1>. HIDE DEF R
<1>3. PICK x \in N : \A y \in N : <<y, x>> \notin R
  BY <1>1, WFMin
<1>. QED BY <1>2, <1>3

(* ... and a smallest set of a family. *)
LEMMA Smallest ==
    ASSUME NEW S, IsFiniteSet(S), NEW B \in SUBSET (SUBSET S), B # {}
    PROVE  \E T \in B : \A x \in T : T \ {x} \notin B
<1>. DEFINE Sizes == {Cardinality(T) : T \in B}
<1>1. \A T \in B : IsFiniteSet(T) /\ Cardinality(T) \in Nat
  BY FS_Subset, FS_CardinalityType
<1>2. Sizes \in SUBSET Nat /\ Sizes # {}
  BY <1>1
<1>3. PICK n \in Sizes : \A m \in Sizes : n <= m
  <2>. HIDE DEF Sizes
  <2>. QED BY <1>2, MinIn
<1>4. PICK T \in B : \A U \in B : Cardinality(T) <= Cardinality(U)
  BY <1>3
<1>5. ASSUME NEW x \in T, T \ {x} \in B PROVE FALSE
  <2>1. Cardinality(T \ {x}) = Cardinality(T) - 1
    BY <1>1, FS_RemoveElement
  <2>2. Cardinality(T) <= Cardinality(T \ {x})
    BY <1>4, <1>5
  <2>. QED BY <1>1, <2>1, <2>2
<1>. QED BY <1>5

(* The recursion that SumFunctionOnSet chooses its function by. *)
Some(s) == CHOOSE x \in s : TRUE
SumsUpTo(g, f, D) ==
    g = [s \in D |-> IF s = {} THEN 0 ELSE f[Some(s)] + g[s \ {Some(s)}]]

(* A chosen element is one of the set. *)
LEMMA SomeIn == ASSUME NEW s, s # {} PROVE Some(s) \in s
BY DEF Some

(* SumFunctionOnSet is a value of a function that is chosen by its         *)
(* recursion.                                                              *)
LEMMA SumChosen ==
    ASSUME NEW f, NEW S
    PROVE  SumFunctionOnSet(f, S) = (CHOOSE g : SumsUpTo(g, f, SUBSET S))[S]
BY DEF SumFunctionOnSet, FoldFunctionOnSet, MapThenFoldSet, SumsUpTo, Some

(* Such a function exists, by induction on the size of the sets. *)
LEMMA SumExists ==
    ASSUME NEW f, NEW S, IsFiniteSet(S)
    PROVE  \E g : SumsUpTo(g, f, SUBSET S)
<1>. DEFINE D(n) == {s \in SUBSET S : Cardinality(s) <= n}
            Bad == {n \in Nat : ~\E g : SumsUpTo(g, f, D(n))}
<1>0. \A s \in SUBSET S : IsFiniteSet(s) /\ Cardinality(s) \in Nat
  BY FS_Subset, FS_CardinalityType
<1>1. ASSUME NEW n \in Nat, n = 0 \/ n - 1 \notin Bad PROVE n \notin Bad
  <2>1. CASE n = 0
    <3>. DEFINE g == [s \in D(0) |-> 0]
    <3>1. \A s \in D(0) : s = {}
      BY <1>0, FS_EmptySet
    <3>2. SumsUpTo(g, f, D(0))
      BY <3>1 DEF SumsUpTo
    <3>. QED BY <2>1, <3>2
  <2>2. CASE n # 0
    <3>1. n - 1 \in Nat
      BY <2>2
    <3>2. PICK h : SumsUpTo(h, f, D(n - 1))
      BY <1>1, <2>2, <3>1
    <3>. DEFINE g == [s \in D(n) |-> IF s = {} THEN 0 ELSE f[Some(s)] + h[s \ {Some(s)}]]
    <3>3. ASSUME NEW s \in D(n), s # {}
          PROVE  s \ {Some(s)} \in D(n - 1) /\ s \ {Some(s)} \in D(n)
      <4>1. Cardinality(s \ {Some(s)}) = Cardinality(s) - 1
        BY <1>0, <3>3, SomeIn, FS_RemoveElement
      <4>. QED BY <1>0, <3>1, <3>3, <4>1
    <3>4. ASSUME NEW s \in D(n - 1) PROVE s \in D(n) /\ g[s] = h[s]
      <4>1. s \in D(n)
        BY <1>0, <3>1, <3>4
      <4>2. h[s] = IF s = {} THEN 0 ELSE f[Some(s)] + h[s \ {Some(s)}]
        BY <3>2, <3>4 DEF SumsUpTo
      <4>. QED BY <4>1, <4>2
    <3>5. SumsUpTo(g, f, D(n))
      <4>1. ASSUME NEW s \in D(n), s # {} PROVE g[s] = f[Some(s)] + g[s \ {Some(s)}]
        BY <3>3, <3>4, <4>1
      <4>2. ASSUME NEW s \in D(n)
            PROVE  g[s] = IF s = {} THEN 0 ELSE f[Some(s)] + g[s \ {Some(s)}]
        BY <4>1
      <4>3. g = [s \in D(n) |-> g[s]]
        OBVIOUS
      <4>. HIDE DEF g, D
      <4>. QED BY <4>2, <4>3 DEF SumsUpTo
    <3>. QED BY <3>5
  <2>. QED BY <2>1, <2>2
<1>2. Bad = {}
  <2>1. SUFFICES ASSUME Bad # {} PROVE FALSE
    OBVIOUS
  <2>2. Bad \in SUBSET Nat
    OBVIOUS
  <2>. HIDE DEF Bad
  <2>3. PICK m \in Bad : \A k \in Bad : m <= k
    BY <2>1, <2>2, MinIn
  <2>4. m \in Nat /\ (m = 0 \/ m - 1 \notin Bad)
    BY <2>2, <2>3
  <2>. QED BY <1>1, <2>3, <2>4
<1>3. Cardinality(S) \in Nat /\ D(Cardinality(S)) = SUBSET S
  BY <1>0, FS_Subset, FS_CardinalityType
<1>4. Cardinality(S) \notin Bad
  BY <1>2, <1>3
<1>. QED BY <1>3, <1>4

(* Two such functions agree where both are defined. *)
LEMMA SumUnique ==
    ASSUME NEW f, NEW S, NEW T \in SUBSET S, NEW g, NEW h,
           IsFiniteSet(S), SumsUpTo(g, f, SUBSET S), SumsUpTo(h, f, SUBSET T)
    PROVE  g[T] = h[T]
<1>. DEFINE B == {U \in SUBSET T : g[U] # h[U]}
<1>1. SUFFICES ASSUME B # {} PROVE FALSE
  OBVIOUS
<1>2. IsFiniteSet(T) /\ B \in SUBSET (SUBSET T)
  BY FS_Subset
<1>3. PICK U \in B : \A x \in U : U \ {x} \notin B
  <2>. HIDE DEF B
  <2>. QED BY <1>1, <1>2, Smallest
<1>4. U \in SUBSET T /\ U \in SUBSET S
  OBVIOUS
<1>5. /\ g[U] = IF U = {} THEN 0 ELSE f[Some(U)] + g[U \ {Some(U)}]
      /\ h[U] = IF U = {} THEN 0 ELSE f[Some(U)] + h[U \ {Some(U)}]
  BY <1>4 DEF SumsUpTo
<1>6. U # {} => g[U \ {Some(U)}] = h[U \ {Some(U)}]
  BY <1>3, <1>4, SomeIn
<1>. QED BY <1>3, <1>5, <1>6

(* So the sum is a value of a function that satisfies the recursion. *)
LEMMA SumFunctionIs ==
    ASSUME NEW f, NEW S, IsFiniteSet(S)
    PROVE  \E g : SumsUpTo(g, f, SUBSET S) /\ SumFunctionOnSet(f, S) = g[S]
<1>. DEFINE g == CHOOSE c : SumsUpTo(c, f, SUBSET S)
<1>1. SumsUpTo(g, f, SUBSET S) /\ SumFunctionOnSet(f, S) = g[S]
  BY SumExists, SumChosen
<1>. QED BY <1>1

(* The recursion itself, for any finite set. *)
LEMMA SumSome ==
    ASSUME NEW f, NEW S, IsFiniteSet(S)
    PROVE  SumFunctionOnSet(f, S) =
             IF S = {} THEN 0 ELSE f[Some(S)] + SumFunctionOnSet(f, S \ {Some(S)})
<1>. DEFINE T == S \ {Some(S)}
<1>1. IsFiniteSet(T) /\ T \in SUBSET S
  BY FS_Subset
<1>. HIDE DEF T
<1>2. PICK g : SumsUpTo(g, f, SUBSET S) /\ SumFunctionOnSet(f, S) = g[S]
  BY SumFunctionIs
<1>3. PICK h : SumsUpTo(h, f, SUBSET T) /\ SumFunctionOnSet(f, T) = h[T]
  BY <1>1, SumFunctionIs
<1>4. g[T] = h[T]
  BY <1>1, <1>2, <1>3, SumUnique
<1>5. g[S] = IF S = {} THEN 0 ELSE f[Some(S)] + g[T]
  BY <1>2 DEF SumsUpTo, T
<1>6. SumFunctionOnSet(f, S) =
         IF S = {} THEN 0 ELSE f[Some(S)] + SumFunctionOnSet(f, T)
  BY <1>2, <1>3, <1>4, <1>5
<1>. QED BY <1>6 DEF T

-----------------------------------------------------------------------------
(* A sum of integers is one. *)
LEMMA SumInt ==
    ASSUME NEW S, IsFiniteSet(S), NEW f, \A x \in S : f[x] \in Int
    PROVE  SumFunctionOnSet(f, S) \in Int
<1>. DEFINE B == {U \in SUBSET S : SumFunctionOnSet(f, U) \notin Int}
<1>1. SUFFICES ASSUME B # {} PROVE FALSE
  OBVIOUS
<1>2. PICK U \in B : \A x \in U : U \ {x} \notin B
  <2>1. B \in SUBSET (SUBSET S)
    OBVIOUS
  <2>. HIDE DEF B
  <2>. QED BY <1>1, <2>1, Smallest
<1>3. U \in SUBSET S /\ IsFiniteSet(U)
  BY FS_Subset
<1>4. U # {} => Some(U) \in U /\ SumFunctionOnSet(f, U \ {Some(U)}) \in Int
  BY <1>2, <1>3, SomeIn
<1>5. SumFunctionOnSet(f, U) =
        IF U = {} THEN 0 ELSE f[Some(U)] + SumFunctionOnSet(f, U \ {Some(U)})
  BY <1>3, SumSome
<1>. QED BY <1>2, <1>3, <1>4, <1>5

(* Any element can be taken out. *)
LEMMA SumOut ==
    ASSUME NEW S, IsFiniteSet(S), NEW f, \A x \in S : f[x] \in Int, NEW x \in S
    PROVE  SumFunctionOnSet(f, S) = f[x] + SumFunctionOnSet(f, S \ {x})
<1>. DEFINE Sum(U) == SumFunctionOnSet(f, U)
            B == {U \in SUBSET S : \E y \in U : Sum(U) # f[y] + Sum(U \ {y})}
<1>1. SUFFICES ASSUME B # {} PROVE FALSE
  OBVIOUS
<1>2. PICK U \in B : \A y \in U : U \ {y} \notin B
  <2>1. B \in SUBSET (SUBSET S)
    OBVIOUS
  <2>. HIDE DEF B
  <2>. QED BY <1>1, <2>1, Smallest
<1>3. PICK y \in U : Sum(U) # f[y] + Sum(U \ {y})
  OBVIOUS
<1>. DEFINE z == Some(U)
<1>4. z \in U /\ Sum(U) = f[z] + Sum(U \ {z})
  <2>1. IsFiniteSet(U)
    BY FS_Subset
  <2>. QED BY <2>1, SumSome, SomeIn
<1>. HIDE DEF z
<1>5. y # z
  BY <1>3, <1>4
<1>6. Sum(U \ {z}) = f[y] + Sum((U \ {z}) \ {y})
  BY <1>2, <1>4, <1>5
<1>7. Sum(U \ {y}) = f[z] + Sum((U \ {y}) \ {z})
  BY <1>2, <1>4, <1>5
<1>8. Sum((U \ {y}) \ {z}) = Sum((U \ {z}) \ {y})
  <2>1. (U \ {y}) \ {z} = (U \ {z}) \ {y}
    OBVIOUS
  <2>. HIDE DEF Sum
  <2>. QED BY <2>1
<1>9. f[y] \in Int /\ f[z] \in Int /\ Sum((U \ {z}) \ {y}) \in Int
  <2>1. (U \ {z}) \ {y} \in SUBSET S /\ z \in S /\ y \in S
    BY <1>4
  <2>2. IsFiniteSet((U \ {z}) \ {y})
    BY <2>1, FS_Subset
  <2>. QED BY <2>1, <2>2, SumInt
<1>. HIDE DEF Sum
<1>. QED BY <1>3, <1>4, <1>6, <1>7, <1>8, <1>9

(* An empty sum. *)
LEMMA SumEmpty == ASSUME NEW f PROVE SumFunctionOnSet(f, {}) = 0
BY SumSome, FS_EmptySet

(* Sums are ordered as their terms are. *)
LEMMA SumLeq ==
    ASSUME NEW S, IsFiniteSet(S), NEW f, NEW g,
           \A x \in S : f[x] \in Int /\ g[x] \in Int /\ f[x] <= g[x]
    PROVE  SumFunctionOnSet(f, S) <= SumFunctionOnSet(g, S)
<1>. DEFINE F(U) == SumFunctionOnSet(f, U)
            G(U) == SumFunctionOnSet(g, U)
            B == {U \in SUBSET S : ~(F(U) <= G(U))}
<1>1. SUFFICES ASSUME B # {} PROVE FALSE
  OBVIOUS
<1>2. PICK U \in B : \A y \in U : U \ {y} \notin B
  <2>1. B \in SUBSET (SUBSET S)
    OBVIOUS
  <2>. HIDE DEF B
  <2>. QED BY <1>1, <2>1, Smallest
<1>3. U \in SUBSET S /\ ~(F(U) <= G(U))
  OBVIOUS
<1>4. U # {}
  BY <1>3, SumEmpty
<1>5. PICK x \in U : TRUE
  BY <1>4
<1>6. F(U \ {x}) <= G(U \ {x})
  BY <1>2, <1>3
<1>7. IsFiniteSet(U) /\ IsFiniteSet(U \ {x}) /\ x \in S
  BY <1>3, FS_Subset
<1>8. F(U) = f[x] + F(U \ {x}) /\ F(U \ {x}) \in Int
  BY <1>3, <1>7, SumOut, SumInt
<1>9. G(U) = g[x] + G(U \ {x}) /\ G(U \ {x}) \in Int
  BY <1>3, <1>7, SumOut, SumInt
<1>. HIDE DEF F, G
<1>. QED BY <1>3, <1>6, <1>7, <1>8, <1>9

(* Equal terms, equal sums. *)
LEMMA SumSame ==
    ASSUME NEW S, IsFiniteSet(S), NEW f, NEW g, \A x \in S : f[x] \in Int /\ f[x] = g[x]
    PROVE  SumFunctionOnSet(f, S) = SumFunctionOnSet(g, S)
<1>1. \A x \in S : f[x] \in Int /\ g[x] \in Int /\ f[x] <= g[x] /\ g[x] <= f[x]
  OBVIOUS
<1>2. SumFunctionOnSet(f, S) <= SumFunctionOnSet(g, S)
  BY <1>1, SumLeq
<1>3. SumFunctionOnSet(g, S) <= SumFunctionOnSet(f, S)
  BY <1>1, SumLeq
<1>4. SumFunctionOnSet(f, S) \in Int /\ SumFunctionOnSet(g, S) \in Int
  BY <1>1, SumInt
<1>. QED BY <1>2, <1>3, <1>4

(* A sum of natural numbers is one. *)
LEMMA SumNat ==
    ASSUME NEW S, IsFiniteSet(S), NEW f, \A x \in S : f[x] \in Nat
    PROVE  SumFunctionOnSet(f, S) \in Nat
<1>. DEFINE B == {U \in SUBSET S : SumFunctionOnSet(f, U) \notin Nat}
<1>1. SUFFICES ASSUME B # {} PROVE FALSE
  OBVIOUS
<1>2. PICK U \in B : \A x \in U : U \ {x} \notin B
  <2>1. B \in SUBSET (SUBSET S)
    OBVIOUS
  <2>. HIDE DEF B
  <2>. QED BY <1>1, <2>1, Smallest
<1>3. U \in SUBSET S /\ IsFiniteSet(U)
  BY FS_Subset
<1>4. U # {} => Some(U) \in U /\ SumFunctionOnSet(f, U \ {Some(U)}) \in Nat
  BY <1>2, <1>3, SomeIn
<1>5. SumFunctionOnSet(f, U) =
        IF U = {} THEN 0 ELSE f[Some(U)] + SumFunctionOnSet(f, U \ {Some(U)})
  BY <1>3, SumSome
<1>. QED BY <1>2, <1>3, <1>4, <1>5

(* Terms that are zero do not count. *)
LEMMA SumSupport ==
    ASSUME NEW S, IsFiniteSet(S), NEW f, \A x \in S : f[x] \in Int,
           NEW T \in SUBSET S, \A x \in S \ T : f[x] = 0
    PROVE  SumFunctionOnSet(f, S) = SumFunctionOnSet(f, T)
<1>. DEFINE F(U) == SumFunctionOnSet(f, U)
            B == {U \in SUBSET S : F(U) # F(U \cap T)}
<1>1. SUFFICES ASSUME B # {} PROVE FALSE
  <2>1. S \cap T = T
    OBVIOUS
  <2>. QED BY <2>1
<1>2. PICK U \in B : \A y \in U : U \ {y} \notin B
  <2>1. B \in SUBSET (SUBSET S)
    OBVIOUS
  <2>. HIDE DEF B
  <2>. QED BY <1>1, <2>1, Smallest
<1>3. U \in SUBSET S /\ F(U) # F(U \cap T)
  OBVIOUS
<1>4. PICK x \in U : x \notin T
  <2>1. SUFFICES ASSUME \A x \in U : x \in T PROVE FALSE
    OBVIOUS
  <2>2. U \cap T = U
    BY <2>1
  <2>. QED BY <1>3, <2>2
<1>5. F(U \ {x}) = F((U \ {x}) \cap T)
  BY <1>2, <1>3
<1>6. F((U \ {x}) \cap T) = F(U \cap T)
  <2>1. (U \ {x}) \cap T = U \cap T
    BY <1>4
  <2>. HIDE DEF F
  <2>. QED BY <2>1
<1>7. IsFiniteSet(U) /\ IsFiniteSet(U \ {x}) /\ x \in S
  BY <1>3, FS_Subset
<1>8. F(U) = f[x] + F(U \ {x}) /\ F(U \ {x}) \in Int /\ f[x] = 0
  BY <1>3, <1>4, <1>7, SumOut, SumInt
<1>. HIDE DEF F
<1>. QED BY <1>3, <1>5, <1>6, <1>8

(* One term changes. *)
LEMMA SumChange ==
    ASSUME NEW S, IsFiniteSet(S), NEW f, NEW g, NEW x \in S,
           \A y \in S : f[y] \in Int /\ g[y] \in Int,
           \A y \in S \ {x} : g[y] = f[y]
    PROVE  SumFunctionOnSet(g, S) = SumFunctionOnSet(f, S) - f[x] + g[x]
<1>1. IsFiniteSet(S \ {x})
  BY FS_Subset
<1>2. SumFunctionOnSet(f, S) = f[x] + SumFunctionOnSet(f, S \ {x})
  BY SumOut
<1>3. SumFunctionOnSet(g, S) = g[x] + SumFunctionOnSet(g, S \ {x})
  BY SumOut
<1>4. SumFunctionOnSet(f, S \ {x}) = SumFunctionOnSet(g, S \ {x})
  BY <1>1, SumSame
<1>5. SumFunctionOnSet(f, S \ {x}) \in Int
  BY <1>1, SumInt
<1>. QED BY <1>2, <1>3, <1>4, <1>5

-----------------------------------------------------------------------------
(* 2. Orders, types and places.                                            *)

(* An order, as the broker keeps it. *)
Sound(o) ==
    /\ o \in Order
    /\ o.filled <= o.qty /\ o.sold <= o.filled
    /\ Working(o) => o.filled < o.qty
    /\ ~Known(o) => o = NoOrder

(* What an order has lost or can still lose, and whether none of it works. *)
Risk(o) == o.stopped + Remaining(o) + Pending(o)
Quiet(o) == ~Working(o) /\ o.legs # "working"

(* What may become of an order: it is never forgotten, it never risks more *)
(* than it did, and once nothing of it works, nothing of it changes.       *)
Follows(o, p) ==
    /\ Known(p) <=> Known(o)
    /\ p.qty = o.qty
    /\ Risk(p) <= Risk(o)
    /\ Exposed(p) => Exposed(o)
    /\ Quiet(o) => Quiet(p) /\ p.filled = o.filled /\ p.sold = o.sold

(* What the broker and a cancellation make of an order. *)
FilledOne(o) ==
    [o EXCEPT !.filled = @ + 1,
              !.status = IF o.filled + 1 = o.qty THEN "filled" ELSE "open"]
LegFilled(o, loss) ==
    [o EXCEPT !.sold = @ + 1, !.stopped = @ + loss,
              !.legs = IF Remaining(o) = 1 THEN "done" ELSE "working"]
Expired(o) ==
    [o EXCEPT !.status = "canceled", !.legs = IF o.filled = 0 THEN "done" ELSE @]
CanceledLegs(o) == [o EXCEPT !.legs = "done"]
CanceledOrder(o) == [o EXCEPT !.status = "canceled"]
Accepted(qty, legs) == [NoOrder EXCEPT !.status = "open", !.qty = qty, !.legs = legs]

(* A record of known fields. *)
LEMMA OrderFields ==
    ASSUME NEW e, NEW st, NEW q, NEW f, NEW l, NEW s, NEW t,
           e \in [status : {st}, qty : {q}, filled : {f}, legs : {l}, sold : {s}, stopped : {t}]
    PROVE  e = [status |-> st, qty |-> q, filled |-> f, legs |-> l, sold |-> s, stopped |-> t]
OBVIOUS

(* The fields of an order. *)
LEMMA OrderParts ==
    ASSUME NEW o \in Order
    PROVE  o \in [status : {o.status}, qty : {o.qty}, filled : {o.filled},
                  legs : {o.legs}, sold : {o.sold}, stopped : {o.stopped}]
BY DEF Order

(* A fill. *)
LEMMA FilledFollows ==
    ASSUME NEW o, Sound(o), Working(o)
    PROVE  Sound(FilledOne(o)) /\ Follows(o, FilledOne(o))
<1>. DEFINE p == FilledOne(o)
            st == IF o.filled + 1 = o.qty THEN "filled" ELSE "open"
<1>1. o \in Order /\ o.status = "open"
  BY DEF Sound, Working
<1>2. p = [status |-> st, qty |-> o.qty, filled |-> o.filled + 1,
                legs |-> o.legs, sold |-> o.sold, stopped |-> o.stopped]
  <2>1. p \in [status : {st}, qty : {o.qty}, filled : {o.filled + 1},
                legs : {o.legs}, sold : {o.sold}, stopped : {o.stopped}]
    BY <1>1, OrderParts DEF FilledOne
  <2>. HIDE DEF p
  <2>. QED BY <2>1, OrderFields
<1>. HIDE DEF p
<1>3. p \in Order
  BY <1>1, <1>2 DEF Order
<1>4. Sound(p)
  BY <1>1, <1>2, <1>3 DEF Sound, Working, Known, Order
<1>5. Follows(o, p)
  BY <1>1, <1>2 DEF Sound, Follows, Known, Working, Risk, Remaining, Pending, Exposed, Quiet, Order
<1>. QED BY <1>4, <1>5 DEF p

(* A fill of a leg. *)
LEMMA LegFilledFollows ==
    ASSUME NEW o, NEW loss \in {0, 1},
           Sound(o), o.legs = "working", ~Working(o), Remaining(o) > 0
    PROVE  Sound(LegFilled(o, loss)) /\ Follows(o, LegFilled(o, loss))
<1>. DEFINE p == LegFilled(o, loss)
            l == IF Remaining(o) = 1 THEN "done" ELSE "working"
<1>1. o \in Order /\ o.status # "open" /\ o.status # "none"
  BY DEF Sound, Working, Known, NoOrder
<1>2. p = [status |-> o.status, qty |-> o.qty, filled |-> o.filled,
                legs |-> l, sold |-> o.sold + 1, stopped |-> o.stopped + loss]
  <2>1. p \in [status : {o.status}, qty : {o.qty}, filled : {o.filled},
                legs : {l}, sold : {o.sold + 1}, stopped : {o.stopped + loss}]
    BY <1>1, OrderParts DEF LegFilled
  <2>. HIDE DEF p
  <2>. QED BY <2>1, OrderFields
<1>3. l \in {"none", "working", "done"}
  OBVIOUS
<1>. HIDE DEF p, l
<1>4. p \in Order
  BY <1>1, <1>2, <1>3 DEF Order
<1>5. Sound(p)
  BY <1>1, <1>2, <1>4 DEF Sound, Working, Known, Order, Remaining
<1>6. Follows(o, p)
  BY <1>1, <1>2 DEF Sound, Follows, Known, Working, Risk, Remaining, Pending, Exposed, Quiet, Order
<1>. QED BY <1>5, <1>6 DEF p

(* An expiry. *)
LEMMA ExpiredFollows ==
    ASSUME NEW o, Sound(o), Working(o)
    PROVE  Sound(Expired(o)) /\ Follows(o, Expired(o))
<1>. DEFINE p == Expired(o)
            l == IF o.filled = 0 THEN "done" ELSE o.legs
<1>1. o \in Order /\ o.status = "open"
  BY DEF Sound, Working
<1>2. p = [status |-> "canceled", qty |-> o.qty, filled |-> o.filled,
                legs |-> l, sold |-> o.sold, stopped |-> o.stopped]
  <2>1. p \in [status : {"canceled"}, qty : {o.qty}, filled : {o.filled},
                legs : {l}, sold : {o.sold}, stopped : {o.stopped}]
    BY <1>1, OrderParts DEF Expired
  <2>. HIDE DEF p
  <2>. QED BY <2>1, OrderFields
<1>3. l \in {"none", "working", "done"}
  BY <1>1 DEF Order
<1>. HIDE DEF p, l
<1>4. p \in Order
  BY <1>1, <1>2, <1>3 DEF Order
<1>5. Sound(p)
  BY <1>1, <1>2, <1>4 DEF Sound, Working, Known, Order
<1>6. Follows(o, p)
  BY <1>1, <1>2 DEF Sound, Follows, Known, Working, Risk, Remaining, Pending, Exposed, Quiet, Order
<1>. QED BY <1>5, <1>6 DEF p

(* A cancellation. *)
LEMMA CanceledFollows ==
    ASSUME NEW o, Sound(o), Known(o)
    PROVE  /\ Sound(CanceledLegs(o)) /\ Follows(o, CanceledLegs(o))
           /\ Working(o) => Sound(CanceledOrder(o)) /\ Follows(o, CanceledOrder(o))
<1>. DEFINE p == CanceledLegs(o)
            q == CanceledOrder(o)
<1>1. o \in Order /\ o.status # "none"
  BY DEF Sound, Known
<1>2. p = [status |-> o.status, qty |-> o.qty, filled |-> o.filled,
           legs |-> "done", sold |-> o.sold, stopped |-> o.stopped]
  <2>1. p \in [status : {o.status}, qty : {o.qty}, filled : {o.filled},
               legs : {"done"}, sold : {o.sold}, stopped : {o.stopped}]
    BY <1>1, OrderParts DEF CanceledLegs
  <2>. HIDE DEF p
  <2>. QED BY <2>1, OrderFields
<1>7. q = [status |-> "canceled", qty |-> o.qty, filled |-> o.filled,
           legs |-> o.legs, sold |-> o.sold, stopped |-> o.stopped]
  <2>1. q \in [status : {"canceled"}, qty : {o.qty}, filled : {o.filled},
               legs : {o.legs}, sold : {o.sold}, stopped : {o.stopped}]
    BY <1>1, OrderParts DEF CanceledOrder
  <2>. HIDE DEF q
  <2>. QED BY <2>1, OrderFields
<1>. HIDE DEF p, q
<1>3. p \in Order /\ q \in Order
  BY <1>1, <1>2, <1>7 DEF Order
<1>4. Sound(p) /\ Sound(q)
  BY <1>1, <1>2, <1>3, <1>7 DEF Sound, Working, Known, Order
<1>5. Follows(o, p)
  BY <1>1, <1>2 DEF Sound, Follows, Known, Working, Risk, Remaining, Pending, Exposed, Quiet, Order
<1>6. Working(o) => Follows(o, q)
  BY <1>1, <1>7 DEF Sound, Follows, Known, Working, Risk, Remaining, Pending, Exposed, Quiet, Order
<1>. QED BY <1>4, <1>5, <1>6 DEF p, q

(* An order the broker has just accepted. *)
LEMMA AcceptedSound ==
    ASSUME NEW n \in Nat \ {0}, NEW l \in {"none", "working"}
    PROVE  /\ Sound(Accepted(n, l)) /\ Known(Accepted(n, l))
           /\ Accepted(n, l).qty = n
           /\ Accepted(n, l).filled = 0
           /\ Risk(Accepted(n, l)) = n
<1>. DEFINE p == Accepted(n, l)
<1>1. p = [status |-> "open", qty |-> n, filled |-> 0,
                legs |-> l, sold |-> 0, stopped |-> 0]
  <2>1. p \in [status : {"open"}, qty : {n}, filled : {0},
                legs : {l}, sold : {0}, stopped : {0}]
    BY DEF Accepted, NoOrder
  <2>. HIDE DEF p
  <2>. QED BY <2>1, OrderFields
<1>. HIDE DEF p
<1>2. p \in Order
  BY <1>1 DEF Order
<1>3. Sound(p) /\ Known(p) /\ p.qty = n /\ p.filled = 0
  BY <1>1, <1>2 DEF Sound, Working, Known
<1>4. Risk(p) = n
  BY <1>1 DEF Risk, Remaining, Pending, Working
<1>. QED BY <1>3, <1>4 DEF p

(* No order is nothing at risk. *)
LEMMA NoOrderSound ==
    /\ Sound(NoOrder) /\ ~Known(NoOrder) /\ Quiet(NoOrder)
    /\ Remaining(NoOrder) = 0 /\ Risk(NoOrder) = 0 /\ ~Exposed(NoOrder)
BY DEF Sound, NoOrder, Order, Known, Working, Quiet, Remaining, Risk, Pending, Exposed

(* An order follows itself. *)
LEMMA SameFollows == ASSUME NEW o, Sound(o) PROVE Follows(o, o)
BY DEF Sound, Follows, Risk, Remaining, Pending, Order, Working

-----------------------------------------------------------------------------
(* Rows of an open order list. *)
Rows == (Ids \cup Symbols) \X {"order", "legs", "user"} \X Nat

(* What a run keeps of its reads. *)
Snapshot ==
    [kill : BOOLEAN, positions : [Symbols -> Int],
     open : SUBSET Rows,
     ledger : [Ids -> Runs \cup {NoRun}],
     mine : SUBSET Rows,
     owned : [Symbols -> Int], bases : [Symbols -> Nat]]

(* Where a run can be, and the slot it is due in. *)
EntryPlaces == {"idle", "propose", "intent", "aborted"} \cup Evaluating \cup Intended
Selling == {"exit", "exit_reserve", "close"}
FlatPlaces == {"idle", "cancel", "done", "aborted"} \cup Evaluating \cup Selling
Index(r) == IF r = "FIRST_SCAN" THEN 1 ELSE IF r = "LAST_NEW_TRADE" THEN 2 ELSE 3

Place(r) ==
    /\ r \in EntryRuns => pc[r] \in EntryPlaces /\ stage[r] \in {"none", "evaluate"}
    /\ r = Flat => /\ pc[r] \in FlatPlaces
                   /\ stage[r] \in {"none", "before", "current", "after"}
    /\ pc[r] # "idle" => phase >= Index(r)

(* What force_flat cancels is at the broker; the exit it prepares is not,  *)
(* and sells something.                                                    *)
Cancels ==
    pc[Flat] = "cancel" =>
       \A o \in snap[Flat].mine : o[1] \in Ids /\ Known(orders[o[1]])
SellsOne ==
    pc[Flat] \in {"exit_reserve", "close"} =>
       \E s \in Symbols : /\ cur[Flat] = ExitId(s) /\ snap[Flat].owned[s] > 0
                          /\ ~Known(orders[ExitId(s)])

(* The types, and what a step relies on to keep them. *)
Typed ==
    /\ TypeOK
    /\ snap \in [Runs -> Snapshot]
    /\ \A i \in Ids : Sound(orders[i])
    /\ \A r \in Runs : Place(r)
    /\ Cancels /\ SellsOne

(* Three things can happen to the orders: each of them moves on, a run's   *)
(* entry is accepted, or an exit is.                                       *)
Settled ==
    /\ orders' \in [Ids -> Order]
    /\ \A i \in Ids : Sound(orders'[i]) /\ Follows(orders[i], orders'[i])

Bought(r) ==
    /\ pc[r] = "submit" /\ cur[r] \in Entries /\ ~Known(orders[cur[r]])
    /\ orders' = [orders EXCEPT ![cur[r]] = Accepted(Qty, "working")]
    /\ pc'[r] \in {"propose", "aborted"}

SoldOff(s) ==
    /\ pc[Flat] = "close" /\ cur[Flat] = ExitId(s) /\ ~Known(orders[ExitId(s)])
    /\ snap[Flat].owned[s] > 0
    /\ orders' = [orders EXCEPT ![ExitId(s)] = Accepted(snap[Flat].owned[s], "none")]
    /\ pc'[Flat] \in {"exit", "done"}

(* The runs of the day, and the one that closes it. *)
LEMMA RunNames ==
    /\ Flat \in Runs /\ EntryRuns \subseteq Runs /\ Flat \notin EntryRuns
    /\ \A r \in Runs : r \in EntryRuns \/ r = Flat
BY DEF Runs, EntryRuns, Flat

(* The id of an exit gives its symbol, and is no entry. *)
LEMMA ExitIds ==
    ASSUME NEW s \in Symbols
    PROVE  /\ ExitId(s) \in Ids /\ ExitId(s) \notin Entries
           /\ SymbolOfId(ExitId(s)) = s
           /\ \A t \in Symbols : ExitId(t) = ExitId(s) => t = s
BY IdAssumption DEF ExitId, Exits, Ids, SymbolOfId

(* Orders that do not change are settled ... *)
LEMMA Unmoved == ASSUME Typed, UNCHANGED orders PROVE Settled
BY SameFollows DEF Typed, TypeOK, Settled

(* ... and so are orders of which one moves on. *)
LEMMA OneFollows ==
    ASSUME Typed, NEW i \in Ids, NEW p, orders' = [orders EXCEPT ![i] = p],
           Sound(p), Follows(orders[i], p)
    PROVE  Settled
<1>1. orders \in [Ids -> Order] /\ p \in Order
  BY DEF Typed, TypeOK, Sound
<1>2. orders' \in [Ids -> Order]
  BY <1>1
<1>3. ASSUME NEW j \in Ids PROVE Sound(orders'[j]) /\ Follows(orders[j], orders'[j])
  <2>1. CASE j = i
    BY <1>1, <2>1
  <2>2. CASE j # i
    BY <1>1, <2>2, SameFollows DEF Typed
  <2>. QED BY <2>1, <2>2
<1>. QED BY <1>2, <1>3 DEF Settled

(* What a step does to the orders. *)
LEMMA OrderMoves ==
    ASSUME Typed, IInv, [Next]_vars
    PROVE  Settled \/ (\E r \in EntryRuns : Bought(r)) \/ (\E s \in Symbols : SoldOff(s))
<1>. USE DEF At, Goto
<1>0. orders \in [Ids -> Order] /\ \A i \in Ids : Sound(orders[i])
  BY DEF Typed, TypeOK
<1>1. ASSUME NEW i \in Ids, Fill(i) PROVE Settled
  <2>1. orders' = [orders EXCEPT ![i] = FilledOne(orders[i])]
    BY <1>0, <1>1 DEF Fill, FilledOne
  <2>. QED BY <1>0, <1>1, <2>1, FilledFollows, OneFollows DEF Fill
<1>2. ASSUME NEW e \in Entries, FillLeg(e) PROVE Settled
  <2>1. PICK loss \in {0, 1} :
           orders' = [orders EXCEPT ![e].sold = @ + 1, ![e].stopped = @ + loss,
                        ![e].legs = IF Remaining(orders[e]) = 1 THEN "done" ELSE "working"]
    BY <1>2, Zenon DEF FillLeg
  <2>2. orders' = [orders EXCEPT ![e] = LegFilled(orders[e], loss)]
    BY <1>0, <2>1, Zenon DEF LegFilled, Ids
  <2>. QED BY <1>0, <1>2, <2>2, LegFilledFollows, OneFollows DEF FillLeg, Ids
<1>3. ASSUME NEW e \in Entries, Expire(e) PROVE Settled
  <2>1. orders' = [orders EXCEPT ![e] = Expired(orders[e])]
    BY <1>0, <1>3 DEF Expire, Expired, Ids
  <2>. QED BY <1>0, <1>3, <2>1, ExpiredFollows, OneFollows DEF Expire, Ids
<1>4. ASSUME NEW r \in Runs, Cancel(r) PROVE Settled
  <2>0. r = Flat /\ pc[Flat] = "cancel"
    BY <1>4, RunNames DEF Typed, Place, EntryPlaces, Evaluating, Intended, Cancel
  <2>1. CASE UNCHANGED orders
    BY <2>1, Unmoved
  <2>2. ASSUME NEW o \in snap[r].mine, orders' = Canceled(o) PROVE Settled
    <3>. DEFINE i == o[1]
                c == orders[i]
    <3>1. i \in Ids /\ Sound(c) /\ Known(c)
      BY <1>0, <2>0, <2>2 DEF Typed, Cancels
    <3>2. orders' = [orders EXCEPT ![i] =
                       IF o[2] = "legs" THEN CanceledLegs(c)
                       ELSE IF Working(c) THEN CanceledOrder(c) ELSE c]
      BY <1>0, <2>2, <3>1 DEF Canceled, CanceledLegs, CanceledOrder
    <3>. HIDE DEF i, c
    <3>3. orders[i] = c
      BY DEF c
    <3>4. CASE o[2] = "legs"
      BY <3>1, <3>2, <3>3, <3>4, CanceledFollows, OneFollows
    <3>5. CASE o[2] # "legs" /\ Working(c)
      BY <3>1, <3>2, <3>3, <3>5, CanceledFollows, OneFollows
    <3>6. CASE o[2] # "legs" /\ ~Working(c)
      BY <3>1, <3>2, <3>3, <3>6, SameFollows, OneFollows
    <3>. QED BY <3>4, <3>5, <3>6
  <2>. QED BY <1>4, <2>1, <2>2 DEF Cancel
<1>5. ASSUME NEW r \in Runs, Submit(r) PROVE Settled \/ \E q \in EntryRuns : Bought(q)
  <2>1. r \in EntryRuns /\ pc[r] = "submit"
    BY <1>5, RunNames DEF Typed, Place, FlatPlaces, Evaluating, Selling, Submit
  <2>2. cur[r] \in Entries /\ DOMAIN pc = Runs
    BY <2>1, RunNames DEF IInv, Shape, Local, EntryOf, Intended
  <2>3. CASE UNCHANGED orders
    BY <2>3, Unmoved
  <2>4. CASE ~Known(orders[cur[r]]) /\ Accept(cur[r], Qty, "working")
    <3>1. orders' = [orders EXCEPT ![cur[r]] = Accepted(Qty, "working")]
      BY <2>4 DEF Accept, Accepted
    <3>2. pc'[r] \in {"propose", "aborted"}
      BY <1>5, <2>2 DEF Submit, Return, Die
    <3>. QED BY <2>1, <2>2, <2>4, <3>1, <3>2 DEF Bought
  <2>. QED BY <1>5, <2>3, <2>4 DEF Submit
<1>6. ASSUME NEW r \in Runs, Close(r) PROVE Settled \/ \E s \in Symbols : SoldOff(s)
  <2>1. r = Flat /\ pc[Flat] = "close"
    BY <1>6, RunNames DEF Typed, Place, EntryPlaces, Evaluating, Intended, Close
  <2>2. PICK s \in Symbols : /\ cur[Flat] = ExitId(s) /\ snap[Flat].owned[s] > 0
                             /\ ~Known(orders[ExitId(s)])
    BY <2>1 DEF Typed, SellsOne
  <2>3. CASE UNCHANGED orders
    BY <2>3, Unmoved
  <2>4. CASE Accept(cur[r], snap[r].owned[SymbolOfId(cur[r])], "none")
    <3>1. orders' = [orders EXCEPT ![ExitId(s)] = Accepted(snap[Flat].owned[s], "none")]
      BY <2>1, <2>2, <2>4, ExitIds DEF Accept, Accepted
    <3>2. pc'[Flat] \in {"exit", "done"}
      BY <1>6, <2>1, RunNames DEF Close, End, IInv, Shape
    <3>. QED BY <2>1, <2>2, <3>1, <3>2 DEF SoldOff
  <2>. QED BY <1>6, <2>3, <2>4 DEF Close
<1>7. ASSUME UNCHANGED orders PROVE Settled
  BY <1>7, Unmoved
<1>8. ASSUME NEW r \in Runs, Run(r), ~Cancel(r), ~Submit(r), ~Close(r) PROVE Settled
  <2>1. UNCHANGED orders
    BY <1>8 DEF Run, Submission, ForceFlat, broker, Claim, Propose, ReadPositions,
       ReadOpenOrders, Evaluate, WriteIntent, Reserve, RereadAuthority, RecheckPositions,
       RecheckOrders, Before, CancelsSent, AfterCancel, Exit, ExitReserve, ExitsSent, Verify,
       Abort
  <2>. QED BY <2>1, <1>7
<1>9. CASE \/ \E s \in Symbols : UserTrade(s) \/ UserOrder(s)
           \/ SwitchKill \/ Tick \/ UNCHANGED vars
  BY <1>7, <1>9 DEF UserTrade, UserOrder, SwitchKill, Tick, vars, broker
<1>. QED BY <1>1, <1>2, <1>3, <1>4, <1>5, <1>6, <1>8, <1>9 DEF Next

-----------------------------------------------------------------------------
(* Shares held are counted in natural numbers. *)
LEMMA RemainingSums ==
    ASSUME Typed, NEW T \in SUBSET Entries
    PROVE  SumFunctionOnSet([e \in Entries |-> Remaining(orders[e])], T) \in Nat
<1>. DEFINE f == [e \in Entries |-> Remaining(orders[e])]
<1>1. IsFiniteSet(T)
  BY EntryAssumption, FS_Subset
<1>2. \A e \in T : f[e] \in Nat
  <2>1. ASSUME NEW e \in T PROVE f[e] \in Nat
    <3>1. Sound(orders[e]) /\ f[e] = Remaining(orders[e])
      BY DEF Typed, Ids
    <3>. QED BY <3>1 DEF Sound, Remaining, Order
  <2>. QED BY <2>1
<1>. HIDE DEF f
<1>. QED BY <1>1, <1>2, SumNat DEF f

(* Net positions are integers ... *)
LEMMA NetOfInt ==
    ASSUME Typed, NEW s \in Symbols, NEW ids PROVE NetOf(s, ids) \in Int
<1>1. EntriesIn(s, ids) \in SUBSET Entries
  BY DEF EntriesIn
<1>2. SumFunctionOnSet([e \in Entries |-> Remaining(orders[e])], EntriesIn(s, ids)) \in Nat
  BY <1>1, RemainingSums
<1>3. orders[ExitId(s)].filled \in Nat
  BY ExitIds DEF Typed, TypeOK, Order
<1>. QED BY <1>2, <1>3 DEF NetOf

(* ... so what a reconciliation finds owned is one ... *)
LEMMA OwnedInt == ASSUME Typed, NEW sn PROVE Owned(sn) \in [Symbols -> Int]
BY NetOfInt DEF Owned

(* ... and the entries an exit price comes from can be counted. *)
LEMMA BasesNat == ASSUME NEW sn PROVE Bases(sn) \in [Symbols -> Nat]
<1>1. ASSUME NEW s \in Symbols
      PROVE  Cardinality({e \in EntriesIn(s, Verified(sn.ledger)) : orders[e].filled > 0})
               \in Nat
  <2>. DEFINE T == {e \in EntriesIn(s, Verified(sn.ledger)) : orders[e].filled > 0}
  <2>1. T \in SUBSET Entries
    BY DEF EntriesIn
  <2>. HIDE DEF T
  <2>2. Cardinality(T) \in Nat
    BY <2>1, EntryAssumption, FS_Subset, FS_CardinalityType
  <2>. QED BY <2>2 DEF T
<1>. QED BY <1>1 DEF Bases

(* The rows of the open order list. *)
LEMMA OpenTypes ==
    ASSUME Typed PROVE OpenOrders \in SUBSET Rows
<1>1. \A i \in Ids : orders[i].filled \in Nat /\ orders[i].sold \in Nat
  BY DEF Typed, TypeOK, Order
<1>2. userOrders \subseteq Symbols
  BY DEF Typed, TypeOK
<1>3. ASSUME NEW o \in OpenOrders PROVE o \in Rows
  <2>1. CASE \E i \in Ids : o = <<i, "order", orders[i].filled>>
    <3>1. PICK i \in Ids : o = <<i, "order", orders[i].filled>>
      BY <2>1
    <3>. QED BY <1>1, <3>1 DEF Rows
  <2>2. CASE \E i \in Ids : o = <<i, "legs", orders[i].sold>>
    <3>1. PICK i \in Ids : o = <<i, "legs", orders[i].sold>>
      BY <2>2
    <3>. QED BY <1>1, <3>1 DEF Rows
  <2>3. CASE \E s \in Symbols : o = <<s, "user", 0>>
    BY <2>3 DEF Rows
  <2>. QED BY <1>2, <1>3, <2>1, <2>2, <2>3 DEF OpenOrders
<1>. QED BY <1>3

(* What a run keeps of its reads, field by field. *)
LEMMA SnapTypes ==
    /\ NoSnap \in Snapshot
    /\ \A sn \in Snapshot :
         /\ \A k \in BOOLEAN : [sn EXCEPT !.kill = k] \in Snapshot
         /\ \A p \in [Symbols -> Int] : [sn EXCEPT !.positions = p] \in Snapshot
         /\ \A l \in [Ids -> Runs \cup {NoRun}] : [sn EXCEPT !.ledger = l] \in Snapshot
         /\ \A o \in SUBSET Rows :
               /\ [sn EXCEPT !.open = o] \in Snapshot
               /\ [sn EXCEPT !.mine = o] \in Snapshot
         /\ \A w \in [Symbols -> Int] : [sn EXCEPT !.owned = w] \in Snapshot
         /\ \A b \in [Symbols -> Nat] : [sn EXCEPT !.bases = b] \in Snapshot
<1>1. NoSnap \in Snapshot
  BY DEF NoSnap, Snapshot
<1>2. ASSUME NEW sn \in Snapshot
      PROVE  /\ \A k \in BOOLEAN : [sn EXCEPT !.kill = k] \in Snapshot
             /\ \A p \in [Symbols -> Int] : [sn EXCEPT !.positions = p] \in Snapshot
             /\ \A l \in [Ids -> Runs \cup {NoRun}] : [sn EXCEPT !.ledger = l] \in Snapshot
  BY DEF Snapshot
<1>3. ASSUME NEW sn \in Snapshot
      PROVE  /\ \A o \in SUBSET Rows :
                   /\ [sn EXCEPT !.open = o] \in Snapshot
                   /\ [sn EXCEPT !.mine = o] \in Snapshot
             /\ \A w \in [Symbols -> Int] : [sn EXCEPT !.owned = w] \in Snapshot
             /\ \A b \in [Symbols -> Nat] : [sn EXCEPT !.bases = b] \in Snapshot
  BY DEF Snapshot
<1>. QED BY <1>1, <1>2, <1>3

(* One run's step leaves the others, the owner and the clock alone. *)
OneRun(r) ==
    /\ UNCHANGED <<phase, kill, kills, userOrders, userMoves, position>>
    /\ \A q \in Runs \ {r} : /\ pc'[q] = pc[q] /\ stage'[q] = stage[q]
                             /\ cur'[q] = cur[q] /\ snap'[q] = snap[q]

(* Every step of a run is its own. *)
LEMMA RunIsAlone ==
    ASSUME Typed, IInv, NEW r \in Runs, Run(r) PROVE OneRun(r)
<1>. USE DEF Goto, GotoOrDie, Forget, Die, Return, End, Reconcile, OneRun, owner, broker
<1>0. DOMAIN pc = Runs /\ DOMAIN stage = Runs /\ DOMAIN cur = Runs /\ DOMAIN snap = Runs
  BY DEF IInv, Shape, Typed, TypeOK
<1>1. CASE Claim(r) \/ ReadPositions(r) \/ ReadOpenOrders(r) \/ Abort(r)
  BY <1>0, <1>1 DEF Claim, ReadPositions, ReadOpenOrders, Abort
<1>2. CASE Propose(r) \/ Evaluate(r) \/ WriteIntent(r) \/ Reserve(r)
  BY <1>0, <1>2 DEF Propose, Evaluate, WriteIntent, Reserve
<1>3. CASE RereadAuthority(r) \/ RecheckPositions(r) \/ RecheckOrders(r) \/ Submit(r)
  BY <1>0, <1>3 DEF RereadAuthority, RecheckPositions, RecheckOrders, Submit
<1>4. CASE Before(r) \/ Cancel(r) \/ CancelsSent(r) \/ AfterCancel(r)
  BY <1>0, <1>4 DEF Before, Cancel, CancelsSent, AfterCancel
<1>5. CASE Exit(r)
  BY <1>0, <1>5 DEF Exit, Skip, Ambiguous, ExitIntent
<1>6. CASE ExitReserve(r) \/ Close(r) \/ ExitsSent(r) \/ Verify(r)
  BY <1>0, <1>6 DEF ExitReserve, Close, ExitsSent, Verify
<1>. QED BY <1>1, <1>2, <1>3, <1>4, <1>5, <1>6 DEF Run, Submission, ForceFlat

-----------------------------------------------------------------------------
(* What a run's own step leaves of it. *)
Own(r) ==
    /\ cur' \in [Runs -> Ids \cup {NoId}]
    /\ snap' \in [Runs -> Snapshot]
    /\ tried' \in [Runs -> SUBSET Entries]
    /\ refused' \subseteq Entries
    /\ Place(r)'

(* A run that is at work has been due, and the last one ends the day. *)
LEMMA Started ==
    ASSUME Typed, NEW r \in Runs
    PROVE  /\ phase \in 1..3
           /\ Due(r) <=> phase = Index(r)
           /\ phase = 3 => \A q \in EntryRuns : ~Due(q)
<1>1. phase \in 1..3 /\ phase \in {1, 2, 3}
  BY DEF Typed, TypeOK, Schedule
<1>. QED BY <1>1 DEF Due, Schedule, Index, Runs, EntryRuns, Flat

(* The steps of a run that submits ... *)
LEMMA EntrySteps ==
    ASSUME Typed, IInv, NEW r \in Runs, Submission(r)
    PROVE  Own(r)
<1>. USE DEF At, Goto, GotoOrDie, Forget, Die, Return
<1>0. /\ cur \in [Runs -> Ids \cup {NoId}] /\ snap \in [Runs -> Snapshot]
      /\ tried \in [Runs -> SUBSET Entries] /\ refused \subseteq Entries
      /\ kill \in BOOLEAN /\ DOMAIN pc = Runs /\ DOMAIN stage = Runs
  BY DEF Typed, TypeOK, IInv, Shape
<1>1. /\ NoSnap \in Snapshot
      /\ [snap[r] EXCEPT !.kill = kill] \in Snapshot
      /\ [snap[r] EXCEPT !.ledger = NoSnap.ledger] \in Snapshot
  <2>1. NoSnap.ledger \in [Ids -> Runs \cup {NoRun}]
    BY DEF NoSnap
  <2>2. snap[r] \in Snapshot
    BY <1>0
  <2>. QED BY <1>0, <2>1, <2>2, SnapTypes
<1>2. NoId \in Ids \cup {NoId} /\ Entries \subseteq Ids
  BY DEF Ids
<1>3. UNCHANGED phase
  BY RunIsAlone DEF Run, OneRun
<1>4. r \in EntryRuns
  BY RunNames DEF Submission, Propose, Evaluate, WriteIntent, Reserve, RereadAuthority,
     RecheckPositions, RecheckOrders, Submit, Typed, Place, FlatPlaces, Evaluating, Selling
<1>5. pc[r] \in EntryPlaces /\ stage[r] \in {"none", "evaluate"} /\ pc[r] # "idle"
      /\ phase >= Index(r)
  BY <1>4 DEF Submission, Propose, Evaluate, WriteIntent, Reserve, RereadAuthority,
     RecheckPositions, RecheckOrders, Submit, Typed, Place
<1>6. UNCHANGED stage
  BY DEF Submission, Propose, Evaluate, WriteIntent, Reserve, RereadAuthority,
     RecheckPositions, RecheckOrders, Submit
<1>7. pc'[r] \in EntryPlaces \ {"idle"}
  <2>1. CASE Propose(r) \/ Evaluate(r) \/ WriteIntent(r) \/ Reserve(r)
    BY <1>0, <2>1 DEF Propose, Evaluate, WriteIntent, Reserve, EntryPlaces, Evaluating, Intended
  <2>2. CASE RereadAuthority(r) \/ RecheckPositions(r) \/ RecheckOrders(r) \/ Submit(r)
    BY <1>0, <2>2 DEF RereadAuthority, RecheckPositions, RecheckOrders, Submit, EntryPlaces,
       Evaluating, Intended
  <2>. QED BY <2>1, <2>2 DEF Submission
<1>8. Place(r)'
  BY <1>3, <1>4, <1>5, <1>6, <1>7, RunNames DEF Place
<1>9. cur' \in [Runs -> Ids \cup {NoId}] /\ tried' \in [Runs -> SUBSET Entries]
  <2>1. CASE Propose(r)
    BY <1>0, <1>2, <2>1 DEF Propose
  <2>2. CASE Evaluate(r) \/ WriteIntent(r) \/ Reserve(r) \/ RereadAuthority(r)
    BY <1>0, <1>2, <2>2 DEF Evaluate, WriteIntent, Reserve, RereadAuthority
  <2>3. CASE RecheckPositions(r) \/ RecheckOrders(r) \/ Submit(r)
    BY <1>0, <1>2, <2>3 DEF RecheckPositions, RecheckOrders, Submit
  <2>. QED BY <2>1, <2>2, <2>3 DEF Submission
<1>10. snap' \in [Runs -> Snapshot]
  <2>1. CASE Propose(r) \/ Evaluate(r)
    BY <1>0, <1>1, <2>1 DEF Propose, Evaluate
  <2>2. CASE WriteIntent(r) \/ Reserve(r) \/ RereadAuthority(r)
    BY <1>0, <1>1, <2>2 DEF WriteIntent, Reserve, RereadAuthority
  <2>3. CASE RecheckPositions(r) \/ RecheckOrders(r) \/ Submit(r)
    BY <1>0, <1>1, <2>3 DEF RecheckPositions, RecheckOrders, Submit
  <2>. QED BY <2>1, <2>2, <2>3 DEF Submission
<1>11. refused' \subseteq Entries
  <2>1. CASE RereadAuthority(r)
    <3>1. cur[r] \in Entries
      BY <2>1 DEF RereadAuthority, IInv, Local, EntryOf, Intended
    <3>. QED BY <1>0, <2>1, <3>1 DEF RereadAuthority
  <2>2. CASE ~RereadAuthority(r)
    BY <1>0, <2>2 DEF Submission, Propose, Evaluate, WriteIntent, Reserve, RecheckPositions,
       RecheckOrders, Submit
  <2>. QED BY <2>1, <2>2
<1>. QED BY <1>8, <1>9, <1>10, <1>11 DEF Own

(* Only force_flat takes its steps. *)
LEMMA FlatOnly ==
    ASSUME Typed, NEW r \in Runs, ForceFlat(r)
    PROVE  r = Flat
<1>1. CASE Cancel(r) \/ CancelsSent(r) \/ Exit(r) \/ ExitReserve(r) \/ Close(r) \/ ExitsSent(r)
  BY <1>1, RunNames DEF Cancel, CancelsSent, Exit, ExitReserve, Close, ExitsSent,
     At, Typed, Place, EntryPlaces, Evaluating, Intended
<1>2. CASE Before(r) \/ AfterCancel(r) \/ Verify(r)
  BY <1>2, RunNames DEF Before, AfterCancel, Verify, Typed, Place
<1>. QED BY <1>1, <1>2 DEF ForceFlat

(* ... those of force_flat ... *)
LEMMA FlatSteps ==
    ASSUME Typed, IInv, NEW r \in Runs, ForceFlat(r)
    PROVE  Own(r)
<1>. USE DEF At, Goto, End, Forget, Reconcile
<1>0. /\ cur \in [Runs -> Ids \cup {NoId}] /\ snap \in [Runs -> Snapshot]
      /\ tried \in [Runs -> SUBSET Entries] /\ refused \subseteq Entries
      /\ ledger \in [Ids -> Runs \cup {NoRun}]
      /\ DOMAIN pc = Runs /\ DOMAIN stage = Runs
  BY DEF Typed, TypeOK, IInv, Shape
<1>1. NoSnap \in Snapshot /\ snap[r] \in Snapshot
  BY <1>0, SnapTypes
<1>2. NoId \in Ids \cup {NoId}
  OBVIOUS
<1>3. UNCHANGED phase
  BY RunIsAlone DEF Run, OneRun
<1>4. r = Flat /\ r \notin EntryRuns
  BY FlatOnly, RunNames
<1>5. /\ pc[r] # "idle" /\ phase >= Index(r)
      /\ stage[r] \in {"none", "before", "current", "after"}
  BY <1>4 DEF ForceFlat, Before, Cancel, CancelsSent, AfterCancel, Exit, ExitReserve, Close,
     ExitsSent, Verify, Typed, Place
<1>6. stage'[r] \in {"none", "before", "current", "after"}
  <2>1. CASE CancelsSent(r) \/ ExitsSent(r)
    BY <1>0, <2>1 DEF CancelsSent, ExitsSent
  <2>2. CASE ~CancelsSent(r) /\ ~ExitsSent(r)
    <3>1. UNCHANGED stage
      BY <2>2 DEF ForceFlat, Before, Cancel, AfterCancel, Exit, ExitReserve, Close, Verify
    <3>. QED BY <1>5, <3>1
  <2>. QED BY <2>1, <2>2
<1>7. pc'[r] \in FlatPlaces \ {"idle"}
  <2>1. CASE Before(r) \/ Cancel(r) \/ CancelsSent(r) \/ AfterCancel(r)
    BY <1>0, <2>1 DEF Before, Cancel, CancelsSent, AfterCancel, FlatPlaces, Evaluating, Selling
  <2>2. CASE Exit(r) \/ ExitReserve(r)
    BY <1>0, <2>2 DEF Exit, Skip, Ambiguous, ExitIntent, ExitReserve, FlatPlaces, Evaluating, Selling
  <2>3. CASE Close(r) \/ ExitsSent(r) \/ Verify(r)
    BY <1>0, <2>3 DEF Close, ExitsSent, Verify, FlatPlaces, Evaluating, Selling
  <2>. QED BY <2>1, <2>2, <2>3 DEF ForceFlat
<1>8. Place(r)'
  BY <1>3, <1>4, <1>5, <1>6, <1>7 DEF Place
<1>9. cur' \in [Runs -> Ids \cup {NoId}]
  <2>1. CASE Exit(r)
    BY <1>0, <1>2, <2>1, ExitIds DEF Exit, Skip, Ambiguous, ExitIntent
  <2>2. CASE Before(r) \/ Cancel(r) \/ CancelsSent(r) \/ AfterCancel(r)
    BY <1>0, <1>2, <2>2 DEF Before, Cancel, CancelsSent, AfterCancel
  <2>3. CASE ExitReserve(r) \/ Close(r) \/ ExitsSent(r) \/ Verify(r)
    BY <1>0, <1>2, <2>3 DEF ExitReserve, Close, ExitsSent, Verify
  <2>. QED BY <2>1, <2>2, <2>3 DEF ForceFlat
<1>10. snap' \in [Runs -> Snapshot]
  <2>0. ASSUME NEW sn \in Snapshot, snap' = [snap EXCEPT ![r] = sn]
        PROVE  snap' \in [Runs -> Snapshot]
    BY <1>0, <2>0
  <2>1. CASE Before(r)
    <3>1. Mine(snap[r]) \in SUBSET Rows
      BY <1>1 DEF Mine, Snapshot
    <3>2. [NoSnap EXCEPT !.mine = Mine(snap[r])] \in Snapshot
      BY <1>1, <3>1, SnapTypes
    <3>. QED BY <1>1, <2>0, <2>1, <3>2 DEF Before
  <2>2. CASE Cancel(r)
    <3>1. PICK o \in snap[r].mine :
             \/ snap' = [snap EXCEPT ![r] = [snap[r] EXCEPT !.mine = @ \ {o}]]
             \/ snap' = [snap EXCEPT ![r] = NoSnap]
      BY <1>0, <2>2 DEF Cancel
    <3>2. [snap[r] EXCEPT !.mine = @ \ {o}] \in Snapshot
      BY <1>1, SnapTypes DEF Snapshot
    <3>. QED BY <1>1, <2>0, <3>1, <3>2
  <2>3. CASE AfterCancel(r)
    <3>1. Owned(snap[r]) \in [Symbols -> Int] /\ Bases(snap[r]) \in [Symbols -> Nat]
      BY OwnedInt, BasesNat
    <3>2. [NoSnap EXCEPT !.owned = Owned(snap[r])] \in Snapshot
      BY <1>1, <3>1, SnapTypes
    <3>3. [NoSnap EXCEPT !.owned = Owned(snap[r]), !.bases = Bases(snap[r])] \in Snapshot
      BY <3>1, <3>2, SnapTypes
    <3>. QED BY <1>1, <2>0, <2>3, <3>3 DEF AfterCancel
  <2>4. CASE Exit(r)
    <3>1. ASSUME NEW s \in Symbols, Skip(r, s) PROVE snap' \in [Runs -> Snapshot]
      <4>1. [snap[r].owned EXCEPT ![s] = 0] \in [Symbols -> Int]
        BY <1>1 DEF Snapshot
      <4>2. [snap[r] EXCEPT !.owned = [snap[r].owned EXCEPT ![s] = 0]] \in Snapshot
        BY <1>1, <4>1, SnapTypes
      <4>3. snap' = [snap EXCEPT ![r] = [snap[r] EXCEPT !.owned = [snap[r].owned EXCEPT ![s] = 0]]]
        BY <1>0, <3>1 DEF Skip
      <4>. QED BY <2>0, <4>2, <4>3
    <3>2. ASSUME NEW s \in Symbols, ExitIntent(r, s) PROVE snap' \in [Runs -> Snapshot]
      <4>1. [snap[r] EXCEPT !.ledger = ledger] \in Snapshot
        BY <1>0, <1>1, SnapTypes
      <4>2. snap' = [snap EXCEPT ![r] = [snap[r] EXCEPT !.ledger = ledger]]
        BY <1>0, <3>2 DEF ExitIntent
      <4>. QED BY <2>0, <4>1, <4>2
    <3>3. ASSUME NEW s \in Symbols, Ambiguous(r, s) PROVE snap' \in [Runs -> Snapshot]
      BY <1>1, <2>0, <3>3 DEF Ambiguous
    <3>. QED BY <2>4, <3>1, <3>2, <3>3 DEF Exit
  <2>5. CASE Close(r)
    <3>1. CASE snap' = [snap EXCEPT ![r].owned[SymbolOfId(cur[r])] = 0, ![r].ledger = NoSnap.ledger]
      <4>. DEFINE s == SymbolOfId(cur[r])
                  sn == [snap[r] EXCEPT !.owned = [snap[r].owned EXCEPT ![s] = 0]]
      <4>0. snap[r].owned \in [Symbols -> Int]
        BY <1>1 DEF Snapshot
      <4>1. [snap[r].owned EXCEPT ![s] = 0] \in [Symbols -> Int]
        <5>1. s \in Symbols
          BY <1>4, <2>5, ExitIds DEF Close, Typed, SellsOne
        <5>. HIDE DEF s
        <5>. QED BY <4>0, <5>1
      <4>2. sn \in Snapshot
        BY <1>1, <4>1, SnapTypes
      <4>3. NoSnap.ledger \in [Ids -> Runs \cup {NoRun}]
        BY DEF NoSnap
      <4>4. [sn EXCEPT !.ledger = NoSnap.ledger] \in Snapshot
        BY <4>2, <4>3, SnapTypes
      <4>5. snap' = [snap EXCEPT ![r] = [sn EXCEPT !.ledger = NoSnap.ledger]]
        <5>. DEFINE s1 == [snap EXCEPT ![r] = sn]
        <5>1. snap' = [s1 EXCEPT ![r] = [s1[r] EXCEPT !.ledger = NoSnap.ledger]]
          BY <3>1, <1>0
        <5>2. s1[r] = sn /\ DOMAIN s1 = Runs
          BY <1>0
        <5>. HIDE DEF sn, s
        <5>. QED BY <1>0, <5>1, <5>2
      <4>. QED BY <2>0, <4>4, <4>5
    <3>2. CASE snap' = [snap EXCEPT ![r] = NoSnap]
      BY <1>1, <2>0, <3>2
    <3>. QED BY <2>5, <3>1, <3>2 DEF Close
  <2>6. CASE CancelsSent(r) \/ ExitReserve(r) \/ ExitsSent(r) \/ Verify(r)
    BY <1>0, <1>1, <2>0, <2>6 DEF CancelsSent, ExitReserve, ExitsSent, Verify
  <2>. QED BY <2>1, <2>2, <2>3, <2>4, <2>5, <2>6 DEF ForceFlat
<1>11. UNCHANGED <<tried, refused>>
  BY DEF ForceFlat, Before, Cancel, CancelsSent, AfterCancel, Exit, ExitReserve, Close,
     ExitsSent, Verify
<1>. QED BY <1>0, <1>8, <1>9, <1>10, <1>11 DEF Own

(* ... and those both take. *)
LEMMA CommonSteps ==
    ASSUME Typed, IInv, NEW r \in Runs,
           Claim(r) \/ ReadPositions(r) \/ ReadOpenOrders(r) \/ Abort(r)
    PROVE  Own(r)
<1>. USE DEF At, Goto, Forget, Die
<1>0. /\ cur \in [Runs -> Ids \cup {NoId}] /\ snap \in [Runs -> Snapshot]
      /\ tried \in [Runs -> SUBSET Entries] /\ refused \subseteq Entries
      /\ ledger \in [Ids -> Runs \cup {NoRun}] /\ position \in [Symbols -> Int]
      /\ DOMAIN pc = Runs /\ DOMAIN stage = Runs
  BY DEF Typed, TypeOK, IInv, Shape
<1>1. NoSnap \in Snapshot /\ snap[r] \in Snapshot
  BY <1>0, SnapTypes
<1>2. UNCHANGED phase /\ phase \in 1..3
  BY RunIsAlone, Started DEF Run, OneRun
<1>3. CASE Claim(r)
  <2>1. phase = Index(r)
    BY <1>3, Started DEF Claim
  <2>2. Place(r)'
    BY <1>0, <1>2, <1>3, <2>1, RunNames DEF Claim, Place, EntryPlaces, FlatPlaces, Evaluating
  <2>. QED BY <1>0, <1>3, <2>2 DEF Claim, Own
<1>4. CASE ReadPositions(r)
  <2>1. Place(r)'
    BY <1>0, <1>2, <1>4 DEF ReadPositions, Typed, Place, EntryPlaces, FlatPlaces, Evaluating
  <2>2. [snap[r] EXCEPT !.positions = position] \in Snapshot
    BY <1>0, <1>1, SnapTypes
  <2>3. snap' = [snap EXCEPT ![r] = [snap[r] EXCEPT !.positions = position]]
    BY <1>0, <1>4 DEF ReadPositions
  <2>4. snap' \in [Runs -> Snapshot]
    BY <1>0, <2>2, <2>3
  <2>. QED BY <1>0, <1>4, <2>1, <2>4 DEF ReadPositions, Own
<1>5. CASE ReadOpenOrders(r)
  <2>1. Place(r)'
    BY <1>0, <1>2, <1>5 DEF ReadOpenOrders, Typed, Place, EntryPlaces, FlatPlaces, Evaluating
  <2>. DEFINE sn == [snap[r] EXCEPT !.open = OpenOrders]
  <2>2. sn \in Snapshot
    BY <1>1, OpenTypes, SnapTypes
  <2>3. [sn EXCEPT !.ledger = ledger] \in Snapshot
    BY <1>0, <2>2, SnapTypes
  <2>4. snap' = [snap EXCEPT ![r] = [sn EXCEPT !.ledger = ledger]]
    <3>. DEFINE s1 == [snap EXCEPT ![r] = sn]
    <3>1. snap' = [s1 EXCEPT ![r] = [s1[r] EXCEPT !.ledger = ledger]]
      BY <1>0, <1>5 DEF ReadOpenOrders
    <3>2. s1[r] = sn /\ DOMAIN s1 = Runs
      BY <1>0
    <3>. HIDE DEF sn
    <3>. QED BY <1>0, <3>1, <3>2
  <2>5. snap' \in [Runs -> Snapshot]
    BY <1>0, <2>3, <2>4
  <2>. QED BY <1>0, <1>5, <2>1, <2>5 DEF ReadOpenOrders, Own
<1>6. CASE Abort(r)
  <2>1. Place(r)'
    BY <1>0, <1>2, <1>6 DEF Abort, Typed, Place, EntryPlaces, FlatPlaces
  <2>. QED BY <1>0, <1>1, <1>6, <2>1 DEF Abort, Own
<1>. QED BY <1>3, <1>4, <1>5, <1>6

-----------------------------------------------------------------------------
Rests(r) ==
    pc'[r] = pc[r] /\ stage'[r] = stage[r] /\ cur'[r] = cur[r] /\ snap'[r] = snap[r]

(* Steps of nobody's: the broker's, the owner's and the clock's. *)
Outside ==
    \/ \E i \in Ids : Fill(i)
    \/ \E e \in Entries : FillLeg(e) \/ Expire(e)
    \/ \E s \in Symbols : UserTrade(s) \/ UserOrder(s)
    \/ SwitchKill
    \/ Tick
    \/ UNCHANGED vars

(* They leave the runs and the store alone. *)
LEMMA OutsideRests ==
    ASSUME Outside
    PROVE  /\ UNCHANGED <<pc, stage, cur, tried, snap, result, refused, ledger, intents, submits>>
           /\ \A r \in Runs : Rests(r)
           /\ UNCHANGED phase \/ Tick
BY DEF Outside, Fill, FillLeg, Expire, UserTrade, UserOrder, SwitchKill, Tick, vars,
       store, local, Rests

(* A run moves by its own steps only. *)
LEMMA RunOrRest ==
    ASSUME Typed, IInv, [Next]_vars, NEW r \in Runs
    PROVE  /\ Run(r) \/ Rests(r)
           /\ phase' = phase \/ (phase' = phase + 1 /\ Tick)
<1>1. CASE Outside
  BY <1>1, OutsideRests DEF Tick
<1>2. ASSUME NEW q \in Runs, Run(q)
      PROVE  (Run(r) \/ Rests(r)) /\ phase' = phase
  BY <1>2, RunIsAlone DEF OneRun, Rests
<1>. QED BY <1>1, <1>2 DEF Next, Outside

(* The broker forgets no order ... *)
LEMMA KnownStays ==
    ASSUME Typed, Settled \/ (\E r \in EntryRuns : Bought(r)) \/ (\E s \in Symbols : SoldOff(s))
    PROVE  \A i \in Ids : Known(orders[i]) => Known(orders'[i])
<1>. DEFINE Stay == \A i \in Ids : Known(orders[i]) => Known(orders'[i])
<1>0. orders \in [Ids -> Order]
  BY DEF Typed, TypeOK
<1>1. CASE Settled
  BY <1>1 DEF Settled, Follows
<1>2. ASSUME NEW r \in EntryRuns, Bought(r) PROVE Stay
  BY <1>0, <1>2 DEF Bought
<1>3. ASSUME NEW s \in Symbols, SoldOff(s) PROVE Stay
  BY <1>0, <1>3 DEF SoldOff
<1>. QED BY <1>1, <1>2, <1>3

(* ... and keeps none it could not. *)
LEMMA OrdersSound ==
    ASSUME Typed, Settled \/ (\E r \in EntryRuns : Bought(r)) \/ (\E s \in Symbols : SoldOff(s))
    PROVE  orders' \in [Ids -> Order] /\ \A i \in Ids : Sound(orders'[i])
<1>. DEFINE Good == orders' \in [Ids -> Order] /\ \A i \in Ids : Sound(orders'[i])
<1>0. orders \in [Ids -> Order] /\ \A i \in Ids : Sound(orders[i])
  BY DEF Typed, TypeOK
<1>1. CASE Settled
  BY <1>1 DEF Settled
<1>2. ASSUME NEW i \in Ids, NEW p, Sound(p), orders' = [orders EXCEPT ![i] = p] PROVE Good
  BY <1>0, <1>2 DEF Sound
<1>3. ASSUME NEW r \in EntryRuns, Bought(r) PROVE Good
  <2>1. Qty \in Nat \ {0} /\ cur[r] \in Ids
    BY <1>3, LimitAssumption DEF Bought, Ids
  <2>2. Sound(Accepted(Qty, "working"))
    BY <2>1, AcceptedSound
  <2>. QED BY <1>2, <1>3, <2>1, <2>2 DEF Bought
<1>4. ASSUME NEW s \in Symbols, SoldOff(s) PROVE Good
  <2>1. snap[Flat].owned[s] \in Int
    BY RunNames DEF Typed, Snapshot
  <2>2. snap[Flat].owned[s] \in Nat \ {0}
    BY <1>4, <2>1 DEF SoldOff
  <2>3. Sound(Accepted(snap[Flat].owned[s], "none"))
    BY <2>2, AcceptedSound
  <2>. QED BY <1>2, <1>4, <2>3, ExitIds DEF SoldOff
<1>. QED BY <1>1, <1>3, <1>4

(* What is verified is at the broker. *)
LEMMA VerifiedIn == ASSUME NEW l PROVE Verified(l) \in SUBSET {i \in Ids : Known(orders[i])}
BY DEF Verified, Reserved

(* Orders to cancel, and the exit at hand, stay what they are. *)
LEMMA AtHandStays ==
    ASSUME Typed, IInv, [Next]_vars PROVE Cancels' /\ SellsOne'
<1>. USE DEF At, Goto, End, Forget, Reconcile
<1>0. /\ DOMAIN pc = Runs /\ snap \in [Runs -> Snapshot] /\ snap[Flat] \in Snapshot
      /\ DOMAIN cur = Runs
  BY RunNames DEF Typed, IInv, Shape
<1>1. Settled \/ (\E r \in EntryRuns : Bought(r)) \/ (\E s \in Symbols : SoldOff(s))
  BY OrderMoves
<1>2. \A i \in Ids : Known(orders[i]) => Known(orders'[i])
  BY <1>1, KnownStays
<1>3. Run(Flat) \/ Rests(Flat)
  BY RunNames, RunOrRest
<1>4. Cancels'
  <2>1. CASE Rests(Flat)
    BY <1>2, <2>1 DEF Rests, Typed, Cancels
  <2>2. CASE Before(Flat)
    <3>1. CASE pc'[Flat] = "cancel"
      <4>1. snap'[Flat] = [NoSnap EXCEPT !.mine = Mine(snap[Flat])] /\ UNCHANGED orders
        BY <1>0, <2>2, <3>1, RunNames DEF Before, broker
      <4>2. snap'[Flat].mine = Mine(snap[Flat])
        BY <4>1 DEF NoSnap
      <4>. QED BY <4>1, <4>2, VerifiedIn DEF Cancels, Mine
    <3>. QED BY <3>1 DEF Cancels
  <2>3. CASE Cancel(Flat)
    <3>1. CASE pc'[Flat] = "cancel"
      <4>0. PICK o \in snap[Flat].mine :
               snap' = [snap EXCEPT ![Flat].mine = @ \ {o}]
        BY <1>0, <2>3, <3>1, RunNames DEF Cancel
      <4>1. pc[Flat] = "cancel" /\ snap'[Flat].mine = snap[Flat].mine \ {o}
        BY <1>0, <2>3, <4>0, RunNames DEF Cancel, Snapshot
      <4>. QED BY <1>2, <4>1 DEF Typed, Cancels
    <3>. QED BY <3>1 DEF Cancels
  <2>4. CASE Run(Flat) /\ ~Before(Flat) /\ ~Cancel(Flat)
    <3>1. CASE Submission(Flat)
      BY <3>1, RunNames DEF Submission, Propose, Evaluate, WriteIntent, Reserve, RereadAuthority,
         RecheckPositions, RecheckOrders, Submit, Typed, Place, FlatPlaces, Evaluating, Selling
    <3>2. CASE ForceFlat(Flat)
      <4>1. CASE CancelsSent(Flat) \/ AfterCancel(Flat)
        BY <1>0, <4>1, RunNames DEF Cancels, CancelsSent, AfterCancel
      <4>2. CASE Exit(Flat) \/ ExitReserve(Flat)
        BY <1>0, <4>2, RunNames DEF Cancels, Exit, Skip, Ambiguous, ExitIntent, ExitReserve
      <4>3. CASE Close(Flat) \/ ExitsSent(Flat) \/ Verify(Flat)
        BY <1>0, <4>3, RunNames DEF Cancels, Close, ExitsSent, Verify
      <4>. QED BY <2>4, <3>2, <4>1, <4>2, <4>3 DEF ForceFlat
    <3>3. CASE Claim(Flat) \/ ReadPositions(Flat) \/ ReadOpenOrders(Flat) \/ Abort(Flat)
      BY <1>0, <3>3, RunNames DEF Cancels, Claim, ReadPositions, ReadOpenOrders, Abort, Die
    <3>. QED BY <2>4, <3>1, <3>2, <3>3 DEF Run
  <2>. QED BY <1>3, <2>1, <2>2, <2>3, <2>4
<1>5. SellsOne'
  <2>1. CASE Rests(Flat)
    <3>1. CASE pc[Flat] \in {"exit_reserve", "close"}
      <4>1. PICK s \in Symbols : /\ cur[Flat] = ExitId(s) /\ snap[Flat].owned[s] > 0
                                 /\ ~Known(orders[ExitId(s)])
        BY <3>1 DEF Typed, SellsOne
      <4>2. ~Known(orders'[ExitId(s)])
        <5>1. CASE Settled
          BY <4>1, <5>1, ExitIds DEF Settled, Follows
        <5>2. ASSUME NEW r \in EntryRuns, Bought(r) PROVE ~Known(orders'[ExitId(s)])
          <6>1. ExitId(s) # cur[r] /\ ExitId(s) \in Ids /\ DOMAIN orders = Ids
            BY <5>2, ExitIds DEF Bought, IInv, Shape
          <6>. QED BY <4>1, <5>2, <6>1 DEF Bought
        <5>3. ASSUME NEW t \in Symbols, SoldOff(t) PROVE FALSE
          BY <2>1, <3>1, <5>3 DEF SoldOff, Rests
        <5>. QED BY <1>1, <5>1, <5>2, <5>3
      <4>. QED BY <2>1, <4>1, <4>2 DEF SellsOne, Rests
    <3>. QED BY <2>1, <3>1 DEF SellsOne, Rests
  <2>2. CASE Exit(Flat)
    <3>1. CASE pc'[Flat] \in {"exit_reserve", "close"}
      <4>1. PICK s \in Symbols : snap[Flat].owned[s] > 0 /\ ExitIntent(Flat, s)
        BY <1>0, <2>2, <3>1, RunNames DEF Exit, Skip, Ambiguous
      <4>2. /\ UNCHANGED orders /\ cur'[Flat] = ExitId(s) /\ ~Known(orders[ExitId(s)])
            /\ snap'[Flat].owned = snap[Flat].owned
        BY <1>0, <2>2, <4>1, RunNames DEF Exit, ExitIntent, broker, Snapshot
      <4>. QED BY <4>1, <4>2 DEF SellsOne
    <3>. QED BY <3>1 DEF SellsOne
  <2>3. CASE ExitReserve(Flat)
    <3>1. CASE pc'[Flat] \in {"exit_reserve", "close"}
      <4>1. /\ UNCHANGED <<cur, snap, orders>>
        BY <1>0, <2>3, <3>1, RunNames DEF ExitReserve, broker
      <4>2. pc[Flat] = "exit_reserve"
        BY <2>3 DEF ExitReserve
      <4>. QED BY <4>1, <4>2 DEF Typed, SellsOne
    <3>. QED BY <3>1 DEF SellsOne
  <2>4. CASE Run(Flat) /\ ~Exit(Flat) /\ ~ExitReserve(Flat)
    <3>1. CASE Submission(Flat)
      BY <3>1, RunNames DEF Submission, Propose, Evaluate, WriteIntent, Reserve, RereadAuthority,
         RecheckPositions, RecheckOrders, Submit, Typed, Place, FlatPlaces, Evaluating, Selling
    <3>2. CASE ForceFlat(Flat)
      <4>1. CASE Before(Flat) \/ Cancel(Flat) \/ CancelsSent(Flat) \/ AfterCancel(Flat)
        BY <1>0, <4>1, RunNames DEF SellsOne, Before, Cancel, CancelsSent, AfterCancel
      <4>2. CASE Close(Flat) \/ ExitsSent(Flat) \/ Verify(Flat)
        BY <1>0, <4>2, RunNames DEF SellsOne, Close, ExitsSent, Verify
      <4>. QED BY <2>4, <3>2, <4>1, <4>2 DEF ForceFlat
    <3>3. CASE Claim(Flat) \/ ReadPositions(Flat) \/ ReadOpenOrders(Flat) \/ Abort(Flat)
      BY <1>0, <3>3, RunNames DEF SellsOne, Claim, ReadPositions, ReadOpenOrders, Abort, Die
    <3>. QED BY <2>4, <3>1, <3>2, <3>3 DEF Run
  <2>. QED BY <1>3, <2>1, <2>2, <2>3, <2>4
<1>. QED BY <1>4, <1>5

(* Nothing is at work at first. *)
LEMMA InitTyped == Init => Typed
<1> SUFFICES ASSUME Init PROVE Typed
  OBVIOUS
<1>1. \A i \in Ids : Sound(orders[i])
  BY NoOrderSound DEF Init
<1>2. TypeOK
  <2>1. orders \in [Ids -> Order]
    BY <1>1 DEF Init, Sound
  <2>2. {MaxKills, MaxUserMoves} \subseteq Nat /\ 0 \in 0..MaxKills /\ 0 \in 0..MaxUserMoves
    BY LimitAssumption
  <2>3. \A i \in Ids : orders[i].filled <= orders[i].qty /\ orders[i].sold <= orders[i].filled
    BY <1>1 DEF Sound
  <2>4. /\ phase \in 1..Len(Schedule) /\ kill \in BOOLEAN /\ kills \in 0..MaxKills
        /\ userOrders \subseteq Symbols /\ userMoves \in 0..MaxUserMoves
    <3>1. phase = 1 /\ kill = FALSE /\ kills = 0 /\ userOrders = {} /\ userMoves = 0
      BY DEF Init
    <3>2. 1 \in 1..Len(Schedule)
      BY DEF Schedule
    <3>. QED BY <2>2, <3>1, <3>2
  <2>5. /\ intents \in [Ids -> Runs \cup {NoRun}] /\ ledger \in [Ids -> Runs \cup {NoRun}]
        /\ position \in [Symbols -> Int]
        /\ cur \in [Runs -> Ids \cup {NoId}]
        /\ tried \in [Runs -> SUBSET Entries]
        /\ DOMAIN snap = Runs /\ refused \subseteq Entries
    BY DEF Init
  <2>. QED BY <2>1, <2>3, <2>4, <2>5 DEF TypeOK
<1>3. snap \in [Runs -> Snapshot]
  BY SnapTypes DEF Init
<1>4. \A r \in Runs : Place(r)
  BY RunNames DEF Init, Place, EntryPlaces, FlatPlaces
<1>5. Cancels /\ SellsOne
  BY RunNames DEF Init, Cancels, SellsOne
<1>. QED BY <1>1, <1>2, <1>3, <1>4, <1>5 DEF Typed

(* Every step keeps the types and what is at hand. *)
LEMMA NextTyped == Typed /\ IInv /\ [Next]_vars => Typed'
<1> SUFFICES ASSUME Typed, IInv, [Next]_vars PROVE Typed'
  OBVIOUS
<1>1. Settled \/ (\E r \in EntryRuns : Bought(r)) \/ (\E s \in Symbols : SoldOff(s))
  BY OrderMoves
<1>2. orders' \in [Ids -> Order] /\ \A i \in Ids : Sound(orders'[i])
  BY <1>1, OrdersSound
<1>3. Cancels' /\ SellsOne'
  BY AtHandStays
<1>4. IInv'
  BY NextIInv
<1>5. intents' \in [Ids -> Runs \cup {NoRun}] /\ ledger' \in [Ids -> Runs \cup {NoRun}]
  BY <1>4 DEF IInv, Shape
<1>6. \A i \in Ids : orders'[i].filled <= orders'[i].qty /\ orders'[i].sold <= orders'[i].filled
  BY <1>2 DEF Sound
<1>7. CASE Outside
  <2>1. /\ phase' \in 1..3
        /\ kill' \in BOOLEAN /\ kills' \in 0..MaxKills
        /\ userOrders' \subseteq Symbols /\ userMoves' \in 0..MaxUserMoves
    <3>1. /\ phase \in 1..3 /\ kill \in BOOLEAN /\ kills \in 0..MaxKills
          /\ userOrders \subseteq Symbols /\ userMoves \in 0..MaxUserMoves
          /\ MaxKills \in Nat /\ MaxUserMoves \in Nat
      BY LimitAssumption DEF Typed, TypeOK, Schedule
    <3>2. CASE SwitchKill
      BY <3>1, <3>2 DEF SwitchKill
    <3>3. CASE \E s \in Symbols : UserTrade(s) \/ UserOrder(s)
      BY <3>1, <3>3 DEF UserTrade, UserOrder
    <3>4. CASE Tick
      BY <3>1, <3>4 DEF Tick, Schedule, owner
    <3>5. CASE (\E i \in Ids : Fill(i)) \/ (\E e \in Entries : FillLeg(e) \/ Expire(e))
               \/ UNCHANGED vars
      BY <3>1, <3>5 DEF Fill, FillLeg, Expire, vars, owner
    <3>. QED BY <1>7, <3>2, <3>3, <3>4, <3>5 DEF Outside
  <2>2. position' \in [Symbols -> Int]
    <3>1. position \in [Symbols -> Int]
      BY DEF Typed, TypeOK
    <3>2. ASSUME NEW s \in Symbols, NEW p \in Int, position' = [position EXCEPT ![s] = p]
          PROVE  position' \in [Symbols -> Int]
      BY <3>1, <3>2
    <3>3. CASE \E s \in Symbols : UserTrade(s)
      <4>1. PICK s \in Symbols : UserTrade(s)
        BY <3>3
      <4>2. position[s] \in Int /\ position[s] + 1 \in Int /\ position[s] - 1 \in Int
        BY <3>1
      <4>. QED BY <3>2, <4>1, <4>2 DEF UserTrade
    <3>4. CASE \E i \in Ids : Fill(i)
      <4>1. PICK i \in Ids : Fill(i)
        BY <3>4
      <4>. DEFINE s == SymbolOfId(i)
      <4>2. s \in Symbols
        BY EntryAssumption DEF Ids, Exits, ExitId, SymbolOfId
      <4>3. position' = [position EXCEPT ![s] = IF i \in Entries THEN position[s] + 1
                                                ELSE position[s] - 1]
        BY <4>1 DEF Fill
      <4>. HIDE DEF s
      <4>4. position[s] \in Int /\ position[s] + 1 \in Int /\ position[s] - 1 \in Int
        BY <3>1, <4>2
      <4>. QED BY <3>2, <4>2, <4>3, <4>4
    <3>5. CASE \E e \in Entries : FillLeg(e)
      <4>1. PICK e \in Entries : FillLeg(e)
        BY <3>5
      <4>2. position' = [position EXCEPT ![SymbolOf[e]] = @ - 1] /\ SymbolOf[e] \in Symbols
        BY <4>1, EntryAssumption, Zenon DEF FillLeg
      <4>3. position[SymbolOf[e]] - 1 \in Int
        BY <3>1, <4>2
      <4>. QED BY <3>2, <4>2, <4>3
    <3>6. CASE (\E e \in Entries : Expire(e)) \/ (\E s \in Symbols : UserOrder(s)) \/ SwitchKill
               \/ Tick \/ UNCHANGED vars
      BY <3>1, <3>6 DEF Expire, UserOrder, SwitchKill, Tick, vars, broker
    <3>. QED BY <1>7, <3>3, <3>4, <3>5, <3>6 DEF Outside
  <2>3. /\ UNCHANGED <<pc, stage, cur, tried, snap, result, refused>>
        /\ phase' \in Nat /\ phase \in Nat /\ phase' >= phase
    BY <1>7, OutsideRests, Started, RunNames DEF Tick
  <2>4. ASSUME NEW r \in Runs PROVE Place(r)'
    <3>1. Index(r) \in Nat
      BY DEF Index
    <3>. QED BY <2>3, <3>1 DEF Typed, Place
  <2>5. TypeOK'
    BY <1>2, <1>5, <1>6, <2>1, <2>2, <2>3 DEF Typed, TypeOK, Schedule
  <2>. QED BY <1>2, <1>3, <2>3, <2>4, <2>5 DEF Typed
<1>8. ASSUME NEW r \in Runs, Run(r) PROVE Typed'
  <2>1. OneRun(r) /\ Own(r)
    BY <1>8, RunIsAlone, CommonSteps, EntrySteps, FlatSteps DEF Run
  <2>2. \A q \in Runs : Place(q)'
    BY <2>1 DEF OneRun, Own, Typed, Place
  <2>3. TypeOK'
    BY <1>2, <1>5, <1>6, <2>1 DEF Typed, TypeOK, OneRun, Own, Schedule, Snapshot
  <2>. QED BY <1>2, <1>3, <2>1, <2>2, <2>3 DEF Typed, Own
<1>. QED BY <1>7, <1>8 DEF Next, Outside

-----------------------------------------------------------------------------
(* 3. The limits.                                                          *)

(* A run past its last look at the positions is committed to its entry;    *)
(* before, from a passed evaluation on, it is a candidate while it is due. *)
Committed(r) == pc[r] \in {"recheck_orders", "submit"} /\ ~Known(orders[cur[r]])
Candidate(r) == pc[r] \in {"intent", "reserve", "reread", "recheck_positions"} /\ Due(r)
Tracked(i) == Known(orders[i]) \/ \E q \in EntryRuns : Committed(q) /\ cur[q] = i

(* A run that is due has seen the reservation of every such entry. *)
SeesLedger(r) ==
    pc[r] = "orders" /\ Due(r) =>
       \A i \in Ids : Tracked(i) => snap[r].ledger[i] = ledger[i]

(* What is at risk, over all entries, and the room for one more. *)
Risky == {s \in Symbols : \E e \in EntriesIn(s, Ids) : Exposed(orders[e])}
Loss == SumFunctionOnSet([e \in Entries |-> Risk(orders[e])], Entries)
Held(s) == SumFunctionOnSet([e \in Entries |-> Remaining(orders[e])], EntriesIn(s, Ids))
Room == Cardinality(Risky) < MaxPositions /\ Loss + Qty <= DailyRisk

(* Room that was found is kept, and for one run only. *)
MayEnter(r) ==
    Candidate(r) \/ Committed(r) =>
       Room /\ \A q \in EntryRuns \ {r} : ~Committed(q)

Limits ==
    /\ \A r \in Runs : SeesLedger(r)
    /\ \A r \in EntryRuns : MayEnter(r)
    /\ Cardinality(Risky) <= MaxPositions
    /\ Loss <= DailyRisk

(* The terms of the sums over entries. *)
LEMMA EntryTerms ==
    ASSUME Typed, NEW e \in Entries
    PROVE  /\ Sound(orders[e]) /\ Risk(orders[e]) \in Nat /\ Remaining(orders[e]) \in Nat
           /\ [x \in Entries |-> Risk(orders[x])][e] = Risk(orders[e])
<1>1. Sound(orders[e])
  BY DEF Typed, Ids
<1>. QED BY <1>1 DEF Sound, Risk, Remaining, Pending, Working, Order

(* The risk used is a natural number. *)
LEMMA LossNat == ASSUME Typed PROVE Loss \in Nat
<1>. DEFINE f == [x \in Entries |-> Risk(orders[x])]
<1>1. \A e \in Entries : f[e] \in Nat
  BY EntryTerms
<1>. HIDE DEF f
<1>2. SumFunctionOnSet(f, Entries) \in Nat
  BY <1>1, EntryAssumption, SumNat
<1>. QED BY <1>2 DEF Loss, f

(* The symbols at risk can be counted. *)
LEMMA RiskyFinite ==
    IsFiniteSet(Risky) /\ Cardinality(Risky) \in Nat
<1>1. Risky \in SUBSET Symbols
  BY DEF Risky
<1>. QED BY <1>1, EntryAssumption, FS_Subset, FS_CardinalityType

(* The limits. *)
LEMMA BoundNat ==
    MaxPositions \in Nat /\ DailyRisk \in Nat /\ Qty \in Nat \ {0}
BY LimitAssumption

(* Orders that follow the ones they were leave no more at risk. *)
LEMMA SettledLimits ==
    ASSUME Typed, Typed',
           \A e \in Entries : /\ Risk(orders'[e]) <= Risk(orders[e])
                              /\ Exposed(orders'[e]) => Exposed(orders[e])
    PROVE  /\ Loss' <= Loss
           /\ Cardinality(Risky') <= Cardinality(Risky)
<1>. DEFINE f == [x \in Entries |-> Risk(orders[x])]
            g == [x \in Entries |-> Risk(orders'[x])]
<1>1. \A e \in Entries : Risk(orders[e]) \in Nat
  BY EntryTerms
<1>2. \A e \in Entries : Risk(orders'[e]) \in Nat
  <2>1. ASSUME NEW e \in Entries PROVE Risk(orders'[e]) \in Nat
    <3>1. Sound(orders'[e])
      BY DEF Typed, Ids
    <3>. QED BY <3>1 DEF Sound, Risk, Remaining, Pending, Working, Order
  <2>. QED BY <2>1
<1>3. \A e \in Entries : g[e] \in Int /\ f[e] \in Int /\ g[e] <= f[e]
  BY <1>1, <1>2
<1>4. SumFunctionOnSet(g, Entries) <= SumFunctionOnSet(f, Entries)
  <2>. HIDE DEF f, g
  <2>. QED BY <1>3, EntryAssumption, SumLeq
<1>5. Loss' <= Loss
  BY <1>4 DEF Loss
<1>6. Risky' \in SUBSET Risky
  BY DEF Risky, EntriesIn
<1>7. Cardinality(Risky') <= Cardinality(Risky)
  <2>. HIDE DEF f, g
  <2>. QED BY <1>6, RiskyFinite, FS_Subset
<1>. QED BY <1>5, <1>7

(* An entry that the broker accepts adds its symbol and its quantity. *)
LEMMA BoughtLimits ==
    ASSUME Typed, Typed', NEW r \in EntryRuns, Bought(r)
    PROVE  /\ Loss' = Loss + Qty
           /\ Cardinality(Risky') <= Cardinality(Risky) + 1
<1>. DEFINE e == cur[r]
            f == [x \in Entries |-> Risk(orders[x])]
            g == [x \in Entries |-> Risk(orders'[x])]
<1>1. e \in Entries /\ e \in Ids /\ orders[e] = NoOrder
  BY DEF Bought, Typed, Sound, Ids
<1>2. orders' = [orders EXCEPT ![e] = Accepted(Qty, "working")] /\ orders \in [Ids -> Order]
  BY DEF Bought, Typed, TypeOK
<1>3. Risk(Accepted(Qty, "working")) = Qty
  BY BoundNat, AcceptedSound
<1>4. \A x \in Entries : f[x] \in Nat
  BY EntryTerms
<1>5. f[e] = 0 /\ g[e] = Qty
  BY <1>1, <1>2, <1>3, NoOrderSound
<1>6. \A x \in Entries \ {e} : orders'[x] = orders[x]
  BY <1>2 DEF Ids
<1>7. \A x \in Entries \ {e} : g[x] = f[x]
  BY <1>6
<1>8. SumFunctionOnSet(g, Entries) = SumFunctionOnSet(f, Entries) + Qty
  <2>. HIDE DEF f, g, e
  <2>1. \A x \in Entries : f[x] \in Int /\ g[x] \in Int
    BY <1>4, <1>5, <1>7, BoundNat
  <2>2. SumFunctionOnSet(g, Entries) = SumFunctionOnSet(f, Entries) - f[e] + g[e]
    BY <1>1, <1>7, <2>1, EntryAssumption, SumChange
  <2>3. SumFunctionOnSet(f, Entries) \in Int
    BY <2>1, EntryAssumption, SumInt
  <2>. QED BY <1>5, <2>2, <2>3, BoundNat
<1>9. Loss' = Loss + Qty
  BY <1>8 DEF Loss
<1>10. Risky' \in SUBSET (Risky \cup {SymbolOf[e]})
  BY <1>6 DEF Risky, EntriesIn
<1>11. Cardinality(Risky') <= Cardinality(Risky) + 1
  <2>. HIDE DEF f, g, e
  <2>1. /\ IsFiniteSet(Risky \cup {SymbolOf[e]})
        /\ Cardinality(Risky \cup {SymbolOf[e]}) <= Cardinality(Risky) + 1
        /\ Cardinality(Risky) \in Nat /\ Cardinality(Risky \cup {SymbolOf[e]}) \in Nat
    <3>1. IsFiniteSet(Risky) /\ Cardinality(Risky) \in Nat
      BY RiskyFinite
    <3>. HIDE DEF Risky
    <3>2. /\ IsFiniteSet(Risky \cup {SymbolOf[e]})
          /\ Cardinality(Risky \cup {SymbolOf[e]}) =
                IF SymbolOf[e] \in Risky THEN Cardinality(Risky) ELSE Cardinality(Risky) + 1
      BY <3>1, FS_AddElement
    <3>. QED BY <3>1, <3>2
  <2>2. Cardinality(Risky') <= Cardinality(Risky \cup {SymbolOf[e]}) /\ IsFiniteSet(Risky')
    BY <1>10, <2>1, FS_Subset
  <2>3. Cardinality(Risky') \in Nat
    BY <2>2, FS_CardinalityType
  <2>. QED BY <2>1, <2>2, <2>3
<1>. QED BY <1>9, <1>11

(* What a step does to the limits. *)
LEMMA LimitMoves ==
    ASSUME Typed, Typed', IInv, [Next]_vars
    PROVE  \/ /\ Loss' <= Loss
              /\ Cardinality(Risky') <= Cardinality(Risky)
           \/ \E r \in EntryRuns :
                 /\ Bought(r) /\ Loss' = Loss + Qty
                 /\ Cardinality(Risky') <= Cardinality(Risky) + 1
<1>1. CASE Settled
  BY <1>1, SettledLimits DEF Settled, Follows, Ids
<1>2. ASSUME NEW s \in Symbols, SoldOff(s)
      PROVE  Loss' <= Loss /\ Cardinality(Risky') <= Cardinality(Risky)
  <2>1. \A e \in Entries : orders'[e] = orders[e]
    BY <1>2, ExitIds DEF SoldOff, Typed, TypeOK, Ids
  <2>2. \A e \in Entries : Risk(orders'[e]) <= Risk(orders[e])
    BY <2>1, EntryTerms
  <2>. QED BY <2>1, <2>2, SettledLimits
<1>3. ASSUME NEW r \in EntryRuns, Bought(r)
      PROVE  Loss' = Loss + Qty /\ Cardinality(Risky') <= Cardinality(Risky) + 1
  BY <1>3, BoughtLimits
<1>. QED BY <1>1, <1>2, <1>3, OrderMoves

-----------------------------------------------------------------------------
(* A run at work on an entry. *)
LEMMA AtWorkOnEntry ==
    ASSUME IInv, NEW q \in Runs,
           pc[q] \in Intended \cup {"intent"} \/ (pc[q] = "orders" /\ stage[q] = "evaluate")
    PROVE  cur[q] \in Entries /\ cur[q] \in Ids
BY DEF IInv, Local, EntryOf, Evaluating, Ids

(* A run is committed by its last look at the positions, while it is due. *)
LEMMA Commits ==
    ASSUME Typed, IInv, [Next]_vars, NEW q \in EntryRuns, Committed(q)'
    PROVE  \/ Committed(q) /\ cur'[q] = cur[q]
           \/ /\ Candidate(q) /\ Due(q) /\ cur'[q] = cur[q]
              /\ pc[q] = "recheck_positions" /\ pc'[q] = "recheck_orders"
              /\ phase' = phase /\ UNCHANGED <<orders, ledger>>
<1>. USE DEF At, Goto, Forget, Die, Return, GotoOrDie
<1>0. DOMAIN pc = Runs /\ DOMAIN cur = Runs /\ q \in Runs /\ q # Flat
  BY RunNames DEF IInv, Shape
<1>1. \A i \in Ids : Known(orders[i]) => Known(orders'[i])
  BY OrderMoves, KnownStays
<1>2. CASE Rests(q)
  <2>1. pc[q] \in {"recheck_orders", "submit"} /\ cur'[q] = cur[q]
    BY <1>2 DEF Rests, Committed
  <2>2. cur[q] \in Ids
    BY <1>0, <2>1, AtWorkOnEntry DEF Intended
  <2>. QED BY <1>1, <2>1, <2>2 DEF Committed
<1>3. CASE Run(q)
  <2>1. pc'[q] \in {"recheck_orders", "submit"}
    BY DEF Committed
  <2>2. CASE RecheckPositions(q)
    BY <1>0, <2>1, <2>2 DEF RecheckPositions, Candidate, broker, store
  <2>3. CASE RecheckOrders(q)
    BY <1>0, <2>1, <2>3 DEF RecheckOrders, Committed
  <2>4. CASE Propose(q) \/ Evaluate(q) \/ WriteIntent(q) \/ Reserve(q) \/ RereadAuthority(q)
             \/ Submit(q)
    BY <1>0, <2>1, <2>4 DEF Propose, Evaluate, WriteIntent, Reserve, RereadAuthority, Submit
  <2>5. CASE Claim(q) \/ ReadPositions(q) \/ ReadOpenOrders(q) \/ Abort(q)
    BY <1>0, <2>1, <2>5 DEF Claim, ReadPositions, ReadOpenOrders, Abort
  <2>6. CASE ForceFlat(q)
    BY <1>0, <2>6, FlatOnly
  <2>. QED BY <1>3, <2>2, <2>3, <2>4, <2>5, <2>6 DEF Run, Submission
<1>. QED BY <1>0, <1>2, <1>3, RunOrRest

(* A run becomes a candidate by an evaluation that passes. *)
LEMMA Candidates ==
    ASSUME Typed, IInv, [Next]_vars, NEW q \in EntryRuns, Candidate(q)'
    PROVE  \/ Candidate(q) /\ phase' = phase
           \/ /\ Due(q) /\ pc[q] = "orders" /\ stage[q] = "evaluate" /\ Passes(q)
              /\ OneRun(q) /\ UNCHANGED orders
<1>. USE DEF At, Goto, Forget, Die, Return, GotoOrDie
<1>0. DOMAIN pc = Runs /\ DOMAIN cur = Runs /\ q \in Runs /\ q # Flat
  BY RunNames DEF IInv, Shape
<1>1. pc'[q] \in {"intent", "reserve", "reread", "recheck_positions"} /\ Due(q)'
  BY DEF Candidate
<1>2. CASE Rests(q)
  <2>1. pc[q] \in {"intent", "reserve", "reread", "recheck_positions"}
    BY <1>1, <1>2 DEF Rests
  <2>2. phase >= Index(q) /\ phase \in 1..3
    BY <1>0, <2>1, Started DEF Typed, Place
  <2>3. phase' = phase
    <3>1. CASE Tick
      <4>1. phase' = phase + 1 /\ phase' \in {2, 3}
        BY <2>2, <3>1 DEF Tick, Schedule
      <4>2. phase' = Index(q)
        BY <1>0, <1>1, <4>1 DEF Due, Schedule, Index, EntryRuns
      <4>3. Index(q) \in Nat
        BY DEF Index
      <4>. QED BY <2>2, <4>1, <4>2, <4>3
    <3>. QED BY <1>0, <3>1, RunOrRest
  <2>. QED BY <1>1, <2>1, <2>3 DEF Candidate, Due
<1>3. CASE Run(q)
  <2>0. OneRun(q) /\ phase' = phase /\ Due(q)
    BY <1>0, <1>1, <1>3, RunIsAlone DEF OneRun, Due
  <2>1. CASE Evaluate(q)
    <3>1. Passes(q) /\ UNCHANGED orders
      BY <1>0, <1>1, <2>1 DEF Evaluate, broker
    <3>. QED BY <2>0, <2>1, <3>1 DEF Evaluate
  <2>2. CASE WriteIntent(q) \/ Reserve(q) \/ RereadAuthority(q)
    BY <1>0, <2>0, <2>2 DEF WriteIntent, Reserve, RereadAuthority, Candidate
  <2>3. CASE Propose(q) \/ RecheckPositions(q) \/ RecheckOrders(q) \/ Submit(q)
    BY <1>0, <1>1, <2>3 DEF Propose, RecheckPositions, RecheckOrders, Submit
  <2>4. CASE Claim(q) \/ ReadPositions(q) \/ ReadOpenOrders(q) \/ Abort(q)
    BY <1>0, <1>1, <2>4 DEF Claim, ReadPositions, ReadOpenOrders, Abort
  <2>5. CASE ForceFlat(q)
    BY <1>0, <2>5, FlatOnly
  <2>. QED BY <1>3, <2>1, <2>2, <2>3, <2>4, <2>5 DEF Run, Submission
<1>. QED BY <1>0, <1>2, <1>3, RunOrRest

(* A reservation stays, and force_flat reserves only under its own name. *)
LEMMA LedgerStays ==
    ASSUME Typed, IInv, [Next]_vars, NEW i \in Ids, ledger[i] # NoRun
    PROVE  ledger'[i] = ledger[i] \/ pc[Flat] = "exit_reserve"
<1>0. ledger \in [Ids -> Runs \cup {NoRun}]
  BY DEF IInv, Shape
<1>1. CASE Outside
  BY <1>1, OutsideRests
<1>2. ASSUME NEW r \in Runs, Run(r), ~Reserve(r), ~ExitReserve(r) PROVE UNCHANGED ledger
  BY <1>2 DEF Run, Submission, ForceFlat, store, Claim, Propose, ReadPositions,
     ReadOpenOrders, Evaluate, WriteIntent, RereadAuthority, RecheckPositions,
     RecheckOrders, Submit, Before, Cancel, CancelsSent, AfterCancel, Exit, Close, ExitsSent,
     Verify, Abort
<1>3. ASSUME NEW r \in Runs, Reserve(r) PROVE ledger'[i] = ledger[i]
  <2>1. CASE ledger[cur[r]] = NoRun /\ ledger' = [ledger EXCEPT ![cur[r]] = r]
    BY <1>0, <2>1
  <2>. QED BY <1>3, <2>1 DEF Reserve
<1>4. ASSUME NEW r \in Runs, ExitReserve(r) PROVE pc[Flat] = "exit_reserve"
  BY <1>4, FlatOnly DEF ForceFlat, ExitReserve, At
<1>. QED BY <1>1, <1>2, <1>3, <1>4 DEF Next, Outside

(* A run at the end of its reads has made them while due, or makes them.   *)
LEMMA Reads ==
    ASSUME Typed, IInv, [Next]_vars, NEW r \in Runs, pc'[r] = "orders", Due(r)'
    PROVE  \/ pc[r] = "orders" /\ Rests(r) /\ phase' = phase
           \/ /\ snap'[r].ledger = ledger /\ snap'[r].open = OpenOrders
              /\ UNCHANGED <<phase, ledger, orders, stage>> /\ OneRun(r)
<1>. USE DEF At, Goto, Forget, Die, Return, GotoOrDie, End, Reconcile
<1>0. DOMAIN pc = Runs
  BY DEF IInv, Shape
<1>2. CASE Rests(r)
  <2>2. pc[r] = "orders" /\ phase >= Index(r) /\ phase \in 1..3
    BY <1>2, Started DEF Rests, Typed, Place
  <2>3. phase' = phase
    <3>1. CASE Tick
      <4>1. phase' = phase + 1 /\ phase' \in {2, 3}
        BY <2>2, <3>1 DEF Tick, Schedule
      <4>2. phase' = Index(r)
        BY <4>1 DEF Due, Schedule, Index, Runs, EntryRuns, Flat
      <4>3. Index(r) \in Nat
        BY DEF Index
      <4>. QED BY <2>2, <4>1, <4>2, <4>3
    <3>. QED BY <3>1, RunOrRest
  <2>. QED BY <1>2, <2>2, <2>3
<1>3. CASE Run(r)
  <2>1. CASE ReadOpenOrders(r)
    <3>1. snap' = [snap EXCEPT ![r].open = OpenOrders, ![r].ledger = ledger]
      BY <2>1 DEF ReadOpenOrders
    <3>2. snap \in [Runs -> Snapshot] /\ snap[r] \in Snapshot
      BY DEF Typed
    <3>3. snap'[r].ledger = ledger /\ snap'[r].open = OpenOrders
      BY <3>1, <3>2 DEF Snapshot
    <3>4. UNCHANGED <<phase, ledger, orders, stage>>
      BY <2>1 DEF ReadOpenOrders, store, broker
    <3>. QED BY <1>3, <3>3, <3>4, RunIsAlone
  <2>2. CASE Claim(r) \/ ReadPositions(r) \/ Abort(r)
    BY <1>0, <2>2 DEF Claim, ReadPositions, Abort
  <2>3. CASE Propose(r) \/ Evaluate(r) \/ WriteIntent(r) \/ Reserve(r)
    BY <1>0, <2>3 DEF Propose, Evaluate, WriteIntent, Reserve
  <2>4. CASE RereadAuthority(r) \/ RecheckPositions(r) \/ RecheckOrders(r) \/ Submit(r)
    BY <1>0, <2>4 DEF RereadAuthority, RecheckPositions, RecheckOrders, Submit
  <2>5. CASE Before(r) \/ Cancel(r) \/ CancelsSent(r) \/ AfterCancel(r)
    BY <1>0, <2>5 DEF Before, Cancel, CancelsSent, AfterCancel
  <2>6. CASE Exit(r) \/ ExitReserve(r)
    BY <1>0, <2>6 DEF Exit, Skip, Ambiguous, ExitIntent, ExitReserve
  <2>7. CASE Close(r) \/ ExitsSent(r) \/ Verify(r)
    BY <1>0, <2>7 DEF Close, ExitsSent, Verify
  <2>. QED BY <1>3, <2>1, <2>2, <2>3, <2>4, <2>5, <2>6, <2>7 DEF Run, Submission, ForceFlat
<1>. QED BY <1>2, <1>3, RunOrRest

-----------------------------------------------------------------------------
(* The same, after a step. *)
LEMMA NextSizes == ASSUME Typed' PROVE Loss' \in Nat /\ Cardinality(Risky') \in Nat
<1>. DEFINE f == [x \in Entries |-> Risk(orders'[x])]
<1>1. ASSUME NEW e \in Entries PROVE f[e] \in Nat
  <2>1. Sound(orders'[e])
    BY DEF Typed, Ids
  <2>. QED BY <2>1 DEF Sound, Risk, Remaining, Pending, Working, Order
<1>. HIDE DEF f
<1>2. SumFunctionOnSet(f, Entries) \in Nat
  BY <1>1, EntryAssumption, SumNat
<1>3. Risky' \in SUBSET Symbols
  BY DEF Risky
<1>4. Cardinality(Risky') \in Nat
  BY <1>3, EntryAssumption, FS_Subset, FS_CardinalityType
<1>. QED BY <1>2, <1>4 DEF Loss, f

(* Every order at the broker, and every entry about to be, is reserved. *)
LEMMA TrackedIsReserved ==
    ASSUME Typed, IInv, NEW i \in Ids, Tracked(i)
    PROVE  /\ ledger[i] # NoRun
           /\ Known(orders[i]) => intents[i] = ledger[i]
<1>1. CASE Known(orders[i])
  BY <1>1 DEF IInv, IntentBeforeOrder
<1>2. ASSUME NEW q \in EntryRuns, Committed(q), cur[q] = i PROVE ledger[i] # NoRun
  <2>1. q \in Runs /\ ledger[cur[q]] = q
    BY <1>2, RunNames DEF Committed, IInv, Local, LedgerOf, Ledgered, Intended
  <2>. QED BY <1>2, <2>1, RunAssumption
<1>. QED BY <1>1, <1>2 DEF Tracked

(* So what a reconciliation verifies is every order there is ... *)
LEMMA VerifiedIsKnown ==
    ASSUME Typed, IInv, NEW r \in Runs, SeesLedger(r), pc[r] = "orders", Due(r)
    PROVE  Verified(snap[r].ledger) = {i \in Ids : Known(orders[i])}
<1>1. ASSUME NEW i \in Ids, Known(orders[i]) PROVE i \in Verified(snap[r].ledger)
  BY <1>1, TrackedIsReserved DEF SeesLedger, Tracked, Verified, Reserved
<1>. QED BY <1>1, VerifiedIn

(* ... and one without alert leaves no entry on its way to the broker. *)
LEMMA NoAlertNoneCommitted ==
    ASSUME Typed, IInv, NEW r \in Runs, SeesLedger(r), pc[r] = "orders", Due(r),
           ~Alerts(snap[r])
    PROVE  \A q \in EntryRuns : ~Committed(q)
<1>1. SUFFICES ASSUME NEW q \in EntryRuns, Committed(q) PROVE FALSE
  OBVIOUS
<1>2. q \in Runs /\ cur[q] \in Ids /\ ~Known(orders[cur[q]])
  BY <1>1, RunNames, AtWorkOnEntry DEF Committed, Intended
<1>3. snap[r].ledger[cur[q]] # NoRun
  BY <1>1, <1>2, TrackedIsReserved DEF SeesLedger, Tracked
<1>. QED BY <1>2, <1>3 DEF Alerts, Reserved

(* An evaluation that passes has found the room for its entry. *)
LEMMA PassesLeavesRoom ==
    ASSUME Typed, IInv, NEW r \in Runs, SeesLedger(r), pc[r] = "orders", Due(r), Passes(r)
    PROVE  Room
<1>. DEFINE sn == snap[r]
            known == {i \in Ids : Known(orders[i])}
            held == {SymbolOf[e] : e \in {x \in known \cap Entries : Exposed(orders[x])}}
            count == held \cup {s \in Symbols : Owned(sn)[s] > 0}
            f == [e \in Entries |-> Risk(orders[e])]
<1>1. Verified(sn.ledger) = known
  BY VerifiedIsKnown
<1>2. Cardinality(count) < MaxPositions
  <2>1. PositionCount(sn) < MaxPositions
    BY DEF Passes
  <2>. QED BY <1>1, <2>1 DEF PositionCount
<1>3. Risky \in SUBSET count /\ count \in SUBSET Symbols
  <2>1. ASSUME NEW s \in Risky PROVE s \in held
    <3>1. PICK e \in EntriesIn(s, Ids) : Exposed(orders[e])
      BY DEF Risky
    <3>2. e \in Entries /\ e \in Ids /\ SymbolOf[e] = s
      BY DEF EntriesIn
    <3>3. Known(orders[e])
      BY <3>1, <3>2, NoOrderSound DEF Typed, Sound
    <3>. QED BY <3>1, <3>2, <3>3
  <2>2. held \in SUBSET Symbols
    BY EntryAssumption
  <2>. HIDE DEF held
  <2>. QED BY <2>1, <2>2
<1>4. Cardinality(Risky) < MaxPositions
  <2>. HIDE DEF count
  <2>1. IsFiniteSet(count) /\ Cardinality(count) \in Nat
    BY <1>3, EntryAssumption, FS_Subset, FS_CardinalityType
  <2>2. Cardinality(Risky) <= Cardinality(count) /\ Cardinality(Risky) \in Nat
    BY <1>3, <2>1, RiskyFinite, FS_Subset
  <2>. QED BY <1>2, <2>1, <2>2, BoundNat
<1>5. SumFunctionOnSet(f, known \cap Entries) + Qty <= DailyRisk
  <2>1. RiskUsed(sn) + Qty <= DailyRisk
    BY DEF Passes
  <2>2. RiskUsed(sn) = SumFunctionOnSet(f, known \cap Entries)
    BY <1>1 DEF RiskUsed, Risk
  <2>. QED BY <2>1, <2>2
<1>6. SumFunctionOnSet(f, Entries) = SumFunctionOnSet(f, known \cap Entries)
  <2>1. \A e \in Entries : f[e] \in Nat
    BY EntryTerms
  <2>2. ASSUME NEW e \in Entries \ (known \cap Entries) PROVE f[e] = 0
    <3>1. orders[e] = NoOrder
      BY <2>2 DEF Typed, Sound, Ids
    <3>. QED BY <3>1, NoOrderSound
  <2>. DEFINE T == known \cap Entries
  <2>3. T \in SUBSET Entries
    OBVIOUS
  <2>4. \A e \in Entries \ T : f[e] = 0
    BY <2>2
  <2>. HIDE DEF f, known, T
  <2>5. SumFunctionOnSet(f, Entries) = SumFunctionOnSet(f, T)
    BY <2>1, <2>3, <2>4, EntryAssumption, SumSupport
  <2>. QED BY <2>5 DEF T
<1>. QED BY <1>4, <1>5, <1>6 DEF Room, Loss

(* Two runs of the day are never due together. *)
LEMMA OneDue ==
    ASSUME Typed, NEW q \in Runs, NEW r \in Runs, Due(q), Due(r) PROVE q = r
BY Started DEF Index, Runs, EntryRuns, Flat

(* No entry comes on its way to the broker while another run is due. *)
LEMMA NoneCommits ==
    ASSUME Typed, IInv, [Next]_vars, NEW r \in Runs, Due(r), pc[r] # "recheck_positions",
           NEW q \in EntryRuns, Committed(q)'
    PROVE  Committed(q) /\ cur'[q] = cur[q]
BY Commits, OneDue, RunNames

(* A ledger that was read while the run is due stays good for as long. *)
LEMMA SeesLedgerStays ==
    ASSUME Typed, IInv, Limits, [Next]_vars, NEW r \in Runs PROVE SeesLedger(r)'
<1>1. SUFFICES ASSUME pc'[r] = "orders", Due(r)',
                      NEW i \in Ids, Tracked(i)'
               PROVE  snap'[r].ledger[i] = ledger'[i]
  BY DEF SeesLedger
<1>2. CASE pc[r] = "orders" /\ Rests(r) /\ phase' = phase
  <2>0. Due(r)
    BY <1>1, <1>2 DEF Due
  <2>1. phase >= Index(r) /\ (pc[Flat] # "idle" => r = Flat)
    <3>1. pc[Flat] # "idle" => phase >= Index(Flat)
      BY RunNames DEF Typed, Place
    <3>. QED BY <2>0, <3>1, Started, RunNames DEF Index, Flat, Runs, EntryRuns
  <2>2. pc[Flat] \notin {"close", "exit_reserve"}
    BY <1>2, <2>1
  <2>3. Tracked(i)
    <3>1. ASSUME NEW q \in EntryRuns, Committed(q)', cur'[q] = i PROVE Tracked(i)
      BY <1>2, <2>0, <3>1, NoneCommits DEF Tracked
    <3>2. CASE Known(orders'[i])
      <4>1. CASE Settled
        BY <3>2, <4>1 DEF Settled, Follows, Tracked
      <4>2. ASSUME NEW q \in EntryRuns, Bought(q) PROVE Tracked(i)
        <5>1. Committed(q)
          BY <4>2 DEF Bought, Committed
        <5>2. i = cur[q] \/ Known(orders[i])
          BY <3>2, <4>2 DEF Bought, Typed, TypeOK
        <5>. QED BY <5>1, <5>2 DEF Tracked
      <4>3. ASSUME NEW s \in Symbols, SoldOff(s) PROVE FALSE
        BY <2>2, <4>3 DEF SoldOff
      <4>. QED BY <4>1, <4>2, <4>3, OrderMoves
    <3>. QED BY <1>1, <3>1, <3>2 DEF Tracked
  <2>4. ledger[i] # NoRun
    BY <2>3, TrackedIsReserved
  <2>5. ledger'[i] = ledger[i]
    BY <2>2, <2>4, LedgerStays
  <2>6. snap[r].ledger[i] = ledger[i]
    BY <1>2, <2>0, <2>3 DEF Limits, SeesLedger
  <2>. QED BY <1>2, <2>5, <2>6 DEF Rests
<1>3. CASE snap'[r].ledger = ledger /\ UNCHANGED ledger
  BY <1>3
<1>. QED BY <1>1, <1>2, <1>3, Reads

(* Room that was found is not used by another run. *)
LEMMA MayEnterStays ==
    ASSUME Typed, Typed', IInv, Limits, [Next]_vars, NEW r \in EntryRuns PROVE MayEnter(r)'
<1>0. r \in Runs
  BY RunNames
<1>1. SUFFICES ASSUME Candidate(r)' \/ Committed(r)'
               PROVE  Room' /\ \A q \in EntryRuns \ {r} : ~Committed(q)'
  BY DEF MayEnter
<1>2. CASE Candidate(r) \/ Committed(r)
  <2>1. Room /\ \A q \in EntryRuns \ {r} : ~Committed(q)
    BY <1>2 DEF Limits, MayEnter
  <2>2. ASSUME NEW q \in EntryRuns, Bought(q) PROVE FALSE
    <3>1. Committed(q)
      BY <2>2 DEF Bought, Committed
    <3>2. q = r
      BY <2>1, <3>1
    <3>. QED BY <1>1, <2>2, <3>2 DEF Bought, Candidate, Committed
  <2>3. Loss' <= Loss /\ Cardinality(Risky') <= Cardinality(Risky)
    BY <2>2, LimitMoves
  <2>4. Room'
    <3>1. /\ Loss \in Nat /\ Cardinality(Risky) \in Nat
          /\ Loss' \in Nat /\ Cardinality(Risky') \in Nat
      BY LossNat, RiskyFinite, NextSizes
    <3>2. Cardinality(Risky) < MaxPositions /\ Loss + Qty <= DailyRisk
      BY <2>1 DEF Room
    <3>3. Cardinality(Risky') < MaxPositions
      BY <2>3, <3>1, <3>2, BoundNat
    <3>4. Loss' + Qty <= DailyRisk
      <4>1. \A x, y, q, d \in Nat : x <= y /\ y + q <= d => x + q <= d
        OBVIOUS
      <4>2. Loss' <= Loss /\ Loss + Qty <= DailyRisk
        BY <2>3, <3>2
      <4>3. Loss \in Nat /\ Loss' \in Nat /\ Qty \in Nat /\ DailyRisk \in Nat
        BY <3>1, BoundNat
      <4>. QED BY <4>1, <4>2, <4>3
    <3>. QED BY <3>3, <3>4 DEF Room
  <2>5. ASSUME NEW q \in EntryRuns \ {r}, Committed(q)' PROVE FALSE
    <3>1. ~Committed(q)
      BY <2>1, <2>5
    <3>2. Candidate(q) /\ Due(q) /\ q \in Runs
      BY <2>5, <3>1, Commits, RunNames
    <3>3. ~Committed(r)
      BY <2>5, <3>2 DEF Limits, MayEnter
    <3>4. Due(r)
      BY <1>2, <3>3 DEF Candidate
    <3>. QED BY <1>0, <2>5, <3>2, <3>4, OneDue
  <2>. QED BY <2>4, <2>5
<1>3. CASE /\ Due(r) /\ pc[r] = "orders" /\ stage[r] = "evaluate" /\ Passes(r)
           /\ OneRun(r) /\ UNCHANGED orders
  <2>1. SeesLedger(r) /\ ~Alerts(snap[r])
    BY <1>0, <1>3 DEF Limits, Passes
  <2>2. Room
    BY <1>0, <1>3, <2>1, PassesLeavesRoom
  <2>3. \A q \in EntryRuns : ~Committed(q)
    BY <1>0, <1>3, <2>1, NoAlertNoneCommitted
  <2>4. Room'
    BY <1>3, <2>2 DEF Room, Loss, Risky
  <2>5. \A q \in EntryRuns \ {r} : ~Committed(q)'
    BY <1>3, <2>3, RunNames DEF OneRun, Committed
  <2>. QED BY <2>4, <2>5
<1>. QED BY <1>1, <1>2, <1>3, Candidates, Commits

(* Nothing is at risk at first. *)
LEMMA InitLimits == Init => Limits
<1> SUFFICES ASSUME Init PROVE Limits
  OBVIOUS
<1>1. Typed
  BY InitTyped
<1>2. \A i \in Ids : orders[i] = NoOrder
  BY DEF Init
<1>3. Risky = {}
  BY <1>2, NoOrderSound DEF Risky, EntriesIn
<1>4. Loss = 0
  <2>. DEFINE f == [e \in Entries |-> Risk(orders[e])]
  <2>1. \A e \in Entries : f[e] = 0
    BY <1>2, NoOrderSound DEF Ids
  <2>. HIDE DEF f
  <2>2. SumFunctionOnSet(f, Entries) = SumFunctionOnSet(f, {})
    BY <2>1, EntryAssumption, SumSupport
  <2>3. SumFunctionOnSet(f, Entries) = 0
    BY <2>2, SumEmpty
  <2>. QED BY <2>3 DEF Loss, f
<1>5. Cardinality(Risky) = 0
  BY <1>3, FS_EmptySet
<1>6. \A r \in Runs : pc[r] = "idle"
  BY DEF Init
<1>7. \A r \in Runs : SeesLedger(r)
  BY <1>6 DEF SeesLedger
<1>8. \A r \in EntryRuns : MayEnter(r)
  BY <1>6, RunNames DEF MayEnter, Candidate, Committed
<1>. QED BY <1>4, <1>5, <1>7, <1>8, BoundNat DEF Limits

(* Every step keeps the limits. *)
LEMMA NextLimits == Typed /\ Typed' /\ IInv /\ Limits /\ [Next]_vars => Limits'
<1> SUFFICES ASSUME Typed, Typed', IInv, Limits, [Next]_vars PROVE Limits'
  OBVIOUS
<1>1. \A r \in Runs : SeesLedger(r)'
  BY SeesLedgerStays
<1>2. \A r \in EntryRuns : MayEnter(r)'
  BY MayEnterStays
<1>3. Cardinality(Risky') <= MaxPositions /\ Loss' <= DailyRisk
  <2>1. /\ Loss \in Nat /\ Cardinality(Risky) \in Nat
        /\ Loss' \in Nat /\ Cardinality(Risky') \in Nat
    BY LossNat, RiskyFinite, NextSizes
  <2>2. CASE Loss' <= Loss /\ Cardinality(Risky') <= Cardinality(Risky)
    BY <2>1, <2>2, BoundNat DEF Limits
  <2>3. ASSUME NEW r \in EntryRuns, Bought(r), Loss' = Loss + Qty,
               Cardinality(Risky') <= Cardinality(Risky) + 1
        PROVE  Cardinality(Risky') <= MaxPositions /\ Loss' <= DailyRisk
    <3>1. Committed(r)
      BY <2>3 DEF Bought, Committed
    <3>2. Room
      BY <3>1 DEF Limits, MayEnter
    <3>. QED BY <2>1, <2>3, <3>2, BoundNat DEF Room
  <2>. QED BY <2>2, <2>3, LimitMoves
<1>. QED BY <1>1, <1>2, <1>3 DEF Limits

(* Every variable keeps its type, and no order is filled past its quantity *)
(* or sold past its fills (executor.py, reconcile.py).                     *)
THEOREM TypesKept == Spec => []TypeOK
<1>1. Typed => TypeOK
  BY DEF Typed
<1>. QED BY <1>1, InitIInv, NextIInv, InitTyped, NextTyped, PTL DEF Spec

(* The limits hold all day. *)
LEMMA LimitsAlways == Spec => [](Typed /\ Limits)
BY InitIInv, NextIInv, InitTyped, NextTyped, InitLimits, NextLimits, PTL DEF Spec

(* Never more symbols at risk than policy.max_positions, over all runs,    *)
(* overlapping ones included, and with the entries that wait for a fill    *)
(* (policy.py 96, executor.py 102-157).                                    *)
THEOREM PositionsBounded == Spec => []PositionLimit
<1>1. Typed /\ Limits => PositionLimit
  <2> SUFFICES ASSUME Typed, Limits PROVE PositionLimit
    OBVIOUS
  <2>2. \A e \in Ids : Exposed(orders[e]) <=> Working(orders[e]) \/ Remaining(orders[e]) > 0
    <3>1. ASSUME NEW e \in Ids
          PROVE  Exposed(orders[e]) <=> Working(orders[e]) \/ Remaining(orders[e]) > 0
      <4>1. Sound(orders[e])
        BY DEF Typed
      <4>. QED BY <4>1 DEF Sound, Order, Exposed, Pending, Remaining
    <3>. QED BY <3>1
  <2>3. Risky = {s \in Symbols : \E e \in EntriesIn(s, Ids) :
                    Working(orders[e]) \/ Remaining(orders[e]) > 0}
    BY <2>2 DEF Risky, EntriesIn
  <2>4. Cardinality(Risky) <= MaxPositions
    BY DEF Limits
  <2>. QED BY <2>3, <2>4 DEF PositionLimit
<1>. QED BY <1>1, LimitsAlways, PTL

(* What was lost at stops and what can still be lost stay within the daily *)
(* budget together (policy.py 131-135, reconcile.py 84-112).               *)
THEOREM DailyRiskBounded == Spec => []DailyRiskBound
<1>1. Typed /\ Limits => DailyRiskBound
  <2> SUFFICES ASSUME Typed, Limits PROVE DailyRiskBound
    OBVIOUS
  <2>. DEFINE f == [e \in Entries |-> Risk(orders[e])]
              g == [e \in Entries |->
                      orders[e].stopped +
                         (IF Working(orders[e]) THEN orders[e].qty ELSE orders[e].filled)
                         - orders[e].sold]
  <2>2. \A e \in Entries : f[e] \in Nat
    BY EntryTerms
  <2>3. \A e \in Entries : f[e] = g[e]
    <3>1. ASSUME NEW e \in Entries PROVE f[e] = g[e]
      <4>1. Sound(orders[e])
        BY EntryTerms
      <4>. QED BY <4>1 DEF Sound, Order, Risk, Remaining, Pending
    <3>. QED BY <3>1
  <2>4. DOMAIN g = Entries
    OBVIOUS
  <2>5. Loss = SumFunctionOnSet(f, Entries)
    BY DEF Loss
  <2>6. DailyRiskBound <=> SumFunction(g) <= DailyRisk
    BY DEF DailyRiskBound
  <2>. HIDE DEF f, g
  <2>7. SumFunctionOnSet(f, Entries) = SumFunctionOnSet(g, Entries)
    BY <2>2, <2>3, EntryAssumption, SumSame
  <2>8. SumFunction(g) = SumFunctionOnSet(g, Entries)
    BY <2>4 DEF SumFunction
  <2>. QED BY <2>5, <2>6, <2>7, <2>8 DEF Limits
<1>. QED BY <1>1, LimitsAlways, PTL

-----------------------------------------------------------------------------
(* 4. The exits.                                                           *)

(* The day is closed: no entry can reach the broker any more. *)
Closing == phase = 3 /\ \A q \in EntryRuns : ~Committed(q)
EntriesQuiet == \A e \in Entries : Quiet(orders[e])
AllQuiet == \A i \in Ids : Quiet(orders[i])

(* force_flat cancels and sells in a closed day; what still works is on    *)
(* its list; it sells what quiet entries hold; an exit never sells more.   *)
Closes ==
    pc[Flat] \in {"cancel"} \cup Selling \/ stage[Flat] \in {"current", "after"} => Closing
SeesOpen ==
    pc[Flat] = "orders" /\ stage[Flat] \in {"current", "after"} =>
       AllQuiet \/ \E o \in snap[Flat].open : o[1] \in Ids /\ Known(orders[o[1]])
Sells ==
    pc[Flat] \in Selling =>
       /\ EntriesQuiet
       /\ \A s \in Symbols : snap[Flat].owned[s] > 0 /\ ~Known(orders[ExitId(s)]) =>
                                snap[Flat].owned[s] = Held(s)
Sold ==
    \A s \in Symbols : Known(orders[ExitId(s)]) =>
       Closing /\ EntriesQuiet /\ orders[ExitId(s)].qty = Held(s)
Clean ==
    result = "clean" =>
       /\ pc[Flat] = "done" /\ Closing /\ AllQuiet
       /\ \A s \in Symbols : Net(s) = 0
Exiting == Closes /\ SeesOpen /\ Sells /\ Sold /\ Clean

(* The net position is what the entries hold less what the exit sold. *)
LEMMA NetIsHeld ==
    ASSUME Typed, NEW s \in Symbols
    PROVE  /\ Net(s) = Held(s) - orders[ExitId(s)].filled
           /\ Held(s) \in Nat /\ orders[ExitId(s)].filled \in Nat
           /\ ~Known(orders[ExitId(s)]) => orders[ExitId(s)].filled = 0
<1>1. ExitId(s) \in Ids /\ Sound(orders[ExitId(s)])
  BY ExitIds DEF Typed
<1>2. EntriesIn(s, Ids) \in SUBSET Entries
  BY DEF EntriesIn
<1>3. Held(s) \in Nat
  BY <1>2, RemainingSums DEF Held
<1>4. orders[ExitId(s)].filled \in Nat
  BY <1>1 DEF Sound, Order
<1>5. ~Known(orders[ExitId(s)]) => orders[ExitId(s)].filled = 0
  BY <1>1 DEF Sound, NoOrder
<1>6. Net(s) = Held(s) - orders[ExitId(s)].filled
  BY <1>1 DEF Net, NetOf, Held
<1>. QED BY <1>3, <1>4, <1>5, <1>6

(* Orders that are not at the broker do not count. *)
LEMMA NetOfKnown ==
    ASSUME Typed, NEW s \in Symbols
    PROVE  NetOf(s, {i \in Ids : Known(orders[i])}) = Net(s)
<1>. DEFINE known == {i \in Ids : Known(orders[i])}
            f == [e \in Entries |-> Remaining(orders[e])]
            S == EntriesIn(s, Ids)
            T == EntriesIn(s, known)
<1>1. T \in SUBSET S /\ S \in SUBSET Entries /\ IsFiniteSet(S)
  BY EntryAssumption, FS_Subset DEF EntriesIn
<1>2. \A e \in S : f[e] \in Nat
  BY <1>1, EntryTerms
<1>3. \A e \in S \ T : f[e] = 0
  <2>1. ASSUME NEW e \in S \ T PROVE f[e] = 0
    <3>1. e \in Entries /\ e \in Ids /\ ~Known(orders[e])
      BY <2>1 DEF EntriesIn
    <3>2. orders[e] = NoOrder
      BY <3>1 DEF Typed, Sound
    <3>. QED BY <3>1, <3>2, NoOrderSound
  <2>. QED BY <2>1
<1>4. SumFunctionOnSet(f, S) = SumFunctionOnSet(f, T)
  <2>. HIDE DEF f, S, T
  <2>. QED BY <1>1, <1>2, <1>3, SumSupport
<1>5. ExitId(s) \in Ids /\ (ExitId(s) \notin known => orders[ExitId(s)].filled = 0)
  BY ExitIds, NetIsHeld
<1>6. NetOf(s, known) = SumFunctionOnSet(f, T)
                        - IF ExitId(s) \in known THEN orders[ExitId(s)].filled ELSE 0
  BY DEF NetOf
<1>7. Net(s) = SumFunctionOnSet(f, S) - orders[ExitId(s)].filled
  BY <1>5 DEF Net, NetOf
<1>. HIDE DEF known, f, S, T
<1>8. NetOf(s, known) = Net(s)
  BY <1>4, <1>5, <1>6, <1>7
<1>. QED BY <1>8 DEF known

(* Entries that do not move hold the same. *)
LEMMA HeldSame ==
    ASSUME Typed, Typed',
           \A e \in Entries : orders'[e].filled = orders[e].filled /\ orders'[e].sold = orders[e].sold,
           NEW s \in Symbols
    PROVE  Held(s)' = Held(s)
<1>. DEFINE f == [e \in Entries |-> Remaining(orders[e])]
            g == [e \in Entries |-> Remaining(orders'[e])]
            S == EntriesIn(s, Ids)
<1>1. S \in SUBSET Entries /\ IsFiniteSet(S)
  BY EntryAssumption, FS_Subset DEF EntriesIn
<1>2. \A e \in S : f[e] \in Nat /\ f[e] = g[e]
  BY <1>1, EntryTerms DEF Remaining
<1>3. SumFunctionOnSet(f, S) = SumFunctionOnSet(g, S)
  <2>. HIDE DEF f, g, S
  <2>. QED BY <1>1, <1>2, SumSame
<1>. QED BY <1>3 DEF Held

(* The day does not reopen. *)
LEMMA ClosingStays ==
    ASSUME Typed, IInv, Closing, [Next]_vars PROVE Closing'
<1>1. phase' = 3
  <2>1. phase = 3 /\ ~Tick
    BY DEF Closing, Tick, Schedule
  <2>. QED BY <2>1, RunNames, RunOrRest
<1>2. ASSUME NEW q \in EntryRuns, Committed(q)' PROVE FALSE
  <2>1. Due(q) \/ Committed(q)
    BY <1>2, Commits
  <2>. QED BY <2>1, Started, RunNames DEF Closing
<1>. QED BY <1>1, <1>2 DEF Closing

(* Nothing is bought any more. *)
LEMMA ClosingNotBought ==
    ASSUME Closing, NEW q \in EntryRuns PROVE ~Bought(q)
BY DEF Closing, Bought, Committed

(* Entries that are quiet then stay so, and hold what they held. *)
LEMMA EntriesStayQuiet ==
    ASSUME Typed, Typed', IInv, [Next]_vars, Closing, EntriesQuiet
    PROVE  EntriesQuiet' /\ \A s \in Symbols : Held(s)' = Held(s)
<1>1. \A e \in Entries : /\ Quiet(orders'[e]) /\ orders'[e].filled = orders[e].filled
                         /\ orders'[e].sold = orders[e].sold
  <2>1. CASE Settled
    BY <2>1 DEF Settled, Follows, EntriesQuiet, Ids
  <2>2. ASSUME NEW s \in Symbols, SoldOff(s), NEW e \in Entries PROVE orders'[e] = orders[e]
    BY <2>2, ExitIds DEF SoldOff, Typed, TypeOK, Ids
  <2>. QED BY <2>1, <2>2, OrderMoves, ClosingNotBought DEF EntriesQuiet
<1>2. \A s \in Symbols : Held(s)' = Held(s)
  BY <1>1, HeldSame
<1>. QED BY <1>1, <1>2 DEF EntriesQuiet

(* Once everything is quiet and no exit is sent, nothing changes. *)
LEMMA AllStayQuiet ==
    ASSUME Typed, Typed', IInv, [Next]_vars, Closing, AllQuiet, pc[Flat] # "close"
    PROVE  AllQuiet' /\ \A s \in Symbols : Net(s)' = Net(s)
<1>1. Settled
  BY OrderMoves, ClosingNotBought DEF SoldOff
<1>2. \A i \in Ids : /\ Quiet(orders'[i]) /\ orders'[i].filled = orders[i].filled
                     /\ orders'[i].sold = orders[i].sold
  BY <1>1 DEF Settled, Follows, AllQuiet
<1>3. ASSUME NEW s \in Symbols PROVE Net(s)' = Net(s)
  <2>1. Held(s)' = Held(s)
    BY <1>2, HeldSame DEF Ids
  <2>2. orders'[ExitId(s)].filled = orders[ExitId(s)].filled /\ ExitId(s) \in Ids
    BY <1>2, ExitIds
  <2>3. Net(s)' = Held(s)' - orders'[ExitId(s)].filled
    BY <2>2 DEF Net, NetOf, Held
  <2>. QED BY <2>1, <2>2, <2>3, NetIsHeld
<1>. QED BY <1>2, <1>3 DEF AllQuiet

(* force_flat works on the last slot. *)
LEMMA FlatIsDue ==
    ASSUME Typed, pc[Flat] # "idle" PROVE phase = 3 /\ Due(Flat)
<1>1. phase \in 1..3 /\ phase >= 3
  BY RunNames, Started DEF Typed, Place, Index, Flat
<1>. QED BY <1>1, RunNames, Started DEF Index, Flat

(* A reconciliation of force_flat that shows no alert closes the day ... *)
LEMMA NoAlertCloses ==
    ASSUME Typed, IInv, Limits, pc[Flat] = "orders", ~Alerts(snap[Flat])
    PROVE  /\ Closing
           /\ Verified(snap[Flat].ledger) = {i \in Ids : Known(orders[i])}
           /\ \A s \in Symbols : Owned(snap[Flat])[s] = Net(s) /\ Net(s) >= 0
<1>1. phase = 3 /\ Due(Flat) /\ SeesLedger(Flat)
  BY FlatIsDue, RunNames DEF Limits
<1>2. Closing
  BY <1>1, NoAlertNoneCommitted, RunNames DEF Closing
<1>3. Verified(snap[Flat].ledger) = {i \in Ids : Known(orders[i])}
  BY <1>1, VerifiedIsKnown, RunNames
<1>4. ASSUME NEW s \in Symbols PROVE Owned(snap[Flat])[s] = Net(s) /\ Net(s) >= 0
  <2>1. ~Mismatch(snap[Flat], s)
    BY DEF Alerts
  <2>2. NetOf(s, Verified(snap[Flat].ledger)) = Net(s)
    BY <1>3, NetOfKnown
  <2>3. ~(Net(s) < 0)
    BY <2>1, <2>2 DEF Mismatch
  <2>4. Owned(snap[Flat])[s] = Net(s)
    BY <2>1, <2>2 DEF Owned
  <2>5. Net(s) \in Int
    BY NetOfInt DEF Net
  <2>. QED BY <2>3, <2>4, <2>5
<1>. QED BY <1>2, <1>3, <1>4

(* ... and one that shows no order of the project either, all of them.     *)
LEMMA NoneMineQuiet ==
    ASSUME Typed, IInv, Limits, SeesOpen, pc[Flat] = "orders",
           stage[Flat] \in {"current", "after"},
           ~Alerts(snap[Flat]), Mine(snap[Flat]) = {}
    PROVE  AllQuiet
<1>1. \A o \in snap[Flat].open : o[1] \notin {i \in Ids : Known(orders[i])}
  BY NoAlertCloses DEF Mine
<1>. QED BY <1>1 DEF SeesOpen

-----------------------------------------------------------------------------
(* The steps of force_flat, one by one. *)
LEMMA FlatCases ==
    ASSUME Typed, IInv, [Next]_vars
    PROVE  \/ Rests(Flat)
           \/ Claim(Flat) \/ ReadPositions(Flat) \/ ReadOpenOrders(Flat) \/ Abort(Flat)
           \/ ForceFlat(Flat)
<1>1. ~Submission(Flat)
  BY RunNames DEF Submission, Propose, Evaluate, WriteIntent, Reserve, RereadAuthority,
     RecheckPositions, RecheckOrders, Submit, At, Typed, Place, FlatPlaces, Evaluating, Selling
<1>. QED BY <1>1, RunNames, RunOrRest DEF Run

(* force_flat cancels and sells only in a closed day. *)
LEMMA ClosesStays ==
    ASSUME Typed, IInv, Limits, Exiting, [Next]_vars PROVE Closes'
<1>. USE DEF At, Goto, End, Forget, Reconcile, Die
<1>0. DOMAIN pc = Runs /\ DOMAIN stage = Runs /\ Flat \in Runs
  BY RunNames DEF IInv, Shape
<1>1. CASE pc[Flat] \in {"cancel"} \cup Selling \/ stage[Flat] \in {"current", "after"}
  BY <1>1, ClosingStays DEF Exiting, Closes
<1>2. CASE ~(pc[Flat] \in {"cancel"} \cup Selling \/ stage[Flat] \in {"current", "after"})
  <2>1. CASE Rests(Flat)
    BY <1>2, <2>1 DEF Rests, Closes
  <2>2. CASE Claim(Flat)
    BY <1>0, <2>2 DEF Claim, Closes, Selling
  <2>3. CASE ReadPositions(Flat) \/ ReadOpenOrders(Flat) \/ Abort(Flat)
    BY <1>0, <1>2, <2>3 DEF ReadPositions, ReadOpenOrders, Abort, Closes, Selling
  <2>4. CASE Before(Flat)
    <3>1. CASE ~Alerts(snap[Flat])
      <4>1. Closing
        BY <2>4, <3>1, NoAlertCloses DEF Before
      <4>. QED BY <4>1, ClosingStays DEF Closes
    <3>2. CASE Alerts(snap[Flat])
      BY <1>0, <1>2, <2>4, <3>2 DEF Before, Closes, Selling
    <3>. QED BY <3>1, <3>2
  <2>5. ~AfterCancel(Flat) /\ ~Verify(Flat)
    BY <1>2 DEF AfterCancel, Verify
  <2>6. ~Cancel(Flat) /\ ~CancelsSent(Flat) /\ ~Exit(Flat) /\ ~ExitReserve(Flat)
        /\ ~Close(Flat) /\ ~ExitsSent(Flat)
    BY <1>2 DEF Cancel, CancelsSent, Exit, ExitReserve, Close, ExitsSent, Selling
  <2>. QED BY <2>1, <2>2, <2>3, <2>4, <2>5, <2>6, FlatCases DEF ForceFlat
<1>. QED BY <1>1, <1>2

(* What works while force_flat reads is on its list. *)
LEMMA SeesOpenStays ==
    ASSUME Typed, Typed', IInv, Limits, Exiting, [Next]_vars PROVE SeesOpen'
<1>1. SUFFICES ASSUME pc'[Flat] = "orders", stage'[Flat] \in {"current", "after"}
               PROVE  AllQuiet' \/ \E o \in snap'[Flat].open : o[1] \in Ids /\ Known(orders'[o[1]])
  BY DEF SeesOpen
<1>2. Due(Flat)'
  <2>1. phase' \in 1..3 /\ phase' >= 3
    BY <1>1, RunNames DEF Typed, TypeOK, Schedule, Place, Index, Flat
  <2>. QED BY <2>1 DEF Due, Schedule, Flat
<1>3. CASE pc[Flat] = "orders" /\ Rests(Flat)
  <2>1. stage[Flat] \in {"current", "after"} /\ snap'[Flat] = snap[Flat]
    BY <1>1, <1>3 DEF Rests
  <2>2. Closing
    BY <2>1 DEF Exiting, Closes
  <2>3. CASE AllQuiet
    BY <1>3, <2>2, <2>3, AllStayQuiet
  <2>4. CASE \E o \in snap[Flat].open : o[1] \in Ids /\ Known(orders[o[1]])
    BY <2>1, <2>4, OrderMoves, KnownStays
  <2>. QED BY <1>3, <2>1, <2>3, <2>4 DEF Exiting, SeesOpen
<1>4. CASE snap'[Flat].open = OpenOrders /\ UNCHANGED orders
  <2>1. CASE AllQuiet
    BY <1>4, <2>1 DEF AllQuiet
  <2>2. CASE ~AllQuiet
    <3>1. PICK i \in Ids : ~Quiet(orders[i])
      BY <2>2 DEF AllQuiet
    <3>2. Known(orders[i])
      BY <3>1, NoOrderSound DEF Typed, Sound
    <3>3. \E o \in OpenOrders : o[1] = i
      <4>1. CASE Working(orders[i])
        <5>1. <<i, "order", orders[i].filled>> \in OpenOrders
          BY <4>1 DEF OpenOrders
        <5>. QED BY <5>1
      <4>2. CASE orders[i].legs = "working"
        <5>1. <<i, "legs", orders[i].sold>> \in OpenOrders
          BY <4>2 DEF OpenOrders
        <5>. QED BY <5>1
      <4>. QED BY <3>1, <4>1, <4>2 DEF Quiet
    <3>. QED BY <1>4, <3>2, <3>3
  <2>. QED BY <2>1, <2>2
<1>. QED BY <1>1, <1>2, <1>3, <1>4, Reads, RunNames

(* What it means to sell is what the entries hold. *)
LEMMA SellsStays ==
    ASSUME Typed, Typed', IInv, Limits, Exiting, [Next]_vars PROVE Sells'
<1>. USE DEF At, Goto, End, Forget, Reconcile, Die
<1>0. /\ DOMAIN pc = Runs /\ DOMAIN stage = Runs /\ Flat \in Runs
      /\ snap \in [Runs -> Snapshot] /\ snap[Flat] \in Snapshot
      /\ snap[Flat].owned \in [Symbols -> Int]
  BY RunNames DEF IInv, Shape, Typed, Snapshot
<1>1. SUFFICES ASSUME pc'[Flat] \in Selling
               PROVE  /\ EntriesQuiet'
                      /\ \A s \in Symbols :
                            snap'[Flat].owned[s] > 0 /\ ~Known(orders'[ExitId(s)]) =>
                               snap'[Flat].owned[s] = Held(s)'
  BY DEF Sells
<1>2. CASE pc[Flat] \in Selling /\ \A s \in Symbols :
                snap'[Flat].owned[s] > 0 => snap'[Flat].owned[s] = snap[Flat].owned[s]
  <2>1. Closing /\ EntriesQuiet
    BY <1>2 DEF Exiting, Closes, Sells
  <2>2. EntriesQuiet' /\ \A s \in Symbols : Held(s)' = Held(s)
    BY <2>1, EntriesStayQuiet
  <2>3. ASSUME NEW s \in Symbols, snap'[Flat].owned[s] > 0, ~Known(orders'[ExitId(s)])
        PROVE  snap'[Flat].owned[s] = Held(s)'
    <3>1. ~Known(orders[ExitId(s)])
      BY <2>3, OrderMoves, KnownStays, ExitIds
    <3>2. snap[Flat].owned[s] > 0 /\ snap'[Flat].owned[s] = snap[Flat].owned[s]
      BY <1>2, <2>3
    <3>3. snap[Flat].owned[s] = Held(s)
      BY <1>2, <3>1, <3>2 DEF Exiting, Sells
    <3>. QED BY <2>2, <3>2, <3>3
  <2>. QED BY <2>2, <2>3
<1>3. CASE Rests(Flat)
  <2>1. pc[Flat] \in Selling /\ snap'[Flat] = snap[Flat]
    BY <1>1, <1>3 DEF Rests
  <2>. QED BY <1>2, <2>1
<1>4. CASE Claim(Flat) \/ ReadPositions(Flat) \/ ReadOpenOrders(Flat) \/ Abort(Flat)
  BY <1>0, <1>1, <1>4 DEF Claim, ReadPositions, ReadOpenOrders, Abort, Selling
<1>5. CASE Before(Flat) \/ Cancel(Flat) \/ CancelsSent(Flat) \/ ExitsSent(Flat) \/ Verify(Flat)
  BY <1>0, <1>1, <1>5 DEF Before, Cancel, CancelsSent, ExitsSent, Verify, Selling
<1>6. CASE AfterCancel(Flat)
  <2>1. Confirmed(snap[Flat]) /\ UNCHANGED orders
        /\ snap' = [snap EXCEPT ![Flat] = [NoSnap EXCEPT !.owned = Owned(snap[Flat]),
                                                        !.bases = Bases(snap[Flat])]]
    BY <1>0, <1>1, <1>6 DEF AfterCancel, Selling, broker
  <2>2. pc[Flat] = "orders" /\ stage[Flat] = "current" /\ ~Alerts(snap[Flat])
        /\ Mine(snap[Flat]) = {}
    BY <1>6, <2>1 DEF AfterCancel, Confirmed
  <2>3. AllQuiet
    BY <2>2, NoneMineQuiet DEF Exiting
  <2>4. EntriesQuiet'
    BY <2>1, <2>3 DEF AllQuiet, EntriesQuiet, Ids
  <2>5. snap'[Flat].owned = Owned(snap[Flat])
    <3>1. snap'[Flat] = [NoSnap EXCEPT !.owned = Owned(snap[Flat]), !.bases = Bases(snap[Flat])]
      BY <1>0, <2>1
    <3>. QED BY <3>1 DEF NoSnap
  <2>6. ASSUME NEW s \in Symbols, snap'[Flat].owned[s] > 0, ~Known(orders'[ExitId(s)])
        PROVE  snap'[Flat].owned[s] = Held(s)'
    <3>1. snap'[Flat].owned[s] = Net(s)
      BY <2>2, <2>5, NoAlertCloses
    <3>2. Net(s) = Held(s)
      BY <2>1, <2>6, NetIsHeld
    <3>3. Held(s)' = Held(s)
      BY <2>1 DEF Held
    <3>. QED BY <3>1, <3>2, <3>3
  <2>. QED BY <2>4, <2>6
<1>7. CASE Exit(Flat)
  <2>1. pc[Flat] \in Selling
    BY <1>7 DEF Exit, Selling
  <2>2. PICK t \in Symbols : Skip(Flat, t) \/ Ambiguous(Flat, t) \/ ExitIntent(Flat, t)
    BY <1>7 DEF Exit
  <2>3. CASE Skip(Flat, t)
    <3>1. snap' = [snap EXCEPT ![Flat] = [snap[Flat] EXCEPT
                                            !.owned = [snap[Flat].owned EXCEPT ![t] = 0]]]
      BY <1>0, <2>3 DEF Skip
    <3>2. snap'[Flat].owned = [snap[Flat].owned EXCEPT ![t] = 0]
      BY <1>0, <3>1 DEF Snapshot
    <3>3. \A s \in Symbols : snap'[Flat].owned[s] > 0 => snap'[Flat].owned[s] = snap[Flat].owned[s]
      BY <1>0, <3>2
    <3>. QED BY <1>2, <2>1, <3>3
  <2>4. CASE ExitIntent(Flat, t)
    <3>1. snap' = [snap EXCEPT ![Flat] = [snap[Flat] EXCEPT !.ledger = ledger]]
      BY <1>0, <2>4 DEF ExitIntent
    <3>2. snap'[Flat].owned = snap[Flat].owned
      BY <1>0, <3>1 DEF Snapshot
    <3>. QED BY <1>2, <2>1, <3>2
  <2>5. CASE Ambiguous(Flat, t)
    BY <1>0, <1>1, <2>5 DEF Ambiguous, Selling
  <2>. QED BY <2>2, <2>3, <2>4, <2>5
<1>8. CASE ExitReserve(Flat)
  <2>1. pc[Flat] \in Selling /\ UNCHANGED snap
    BY <1>0, <1>1, <1>8 DEF ExitReserve, Selling
  <2>. QED BY <1>2, <2>1
<1>9. CASE Close(Flat)
  <2>1. pc[Flat] \in Selling
    BY <1>9 DEF Close, Selling
  <2>. DEFINE t == SymbolOfId(cur[Flat])
              sn == [snap[Flat] EXCEPT !.owned = [snap[Flat].owned EXCEPT ![t] = 0]]
  <2>2. snap' = [snap EXCEPT ![Flat].owned[t] = 0, ![Flat].ledger = NoSnap.ledger]
    BY <1>0, <1>1, <1>9 DEF Close, Selling
  <2>3. snap'[Flat] = [sn EXCEPT !.ledger = NoSnap.ledger]
    <3>. DEFINE s1 == [snap EXCEPT ![Flat] = sn]
    <3>1. snap' = [s1 EXCEPT ![Flat] = [s1[Flat] EXCEPT !.ledger = NoSnap.ledger]]
      BY <1>0, <2>2
    <3>2. s1[Flat] = sn /\ DOMAIN s1 = Runs
      BY <1>0
    <3>. HIDE DEF sn, t
    <3>. QED BY <1>0, <3>1, <3>2
  <2>4. snap'[Flat].owned = [snap[Flat].owned EXCEPT ![t] = 0]
    <3>. HIDE DEF t
    <3>. QED BY <1>0, <2>3 DEF Snapshot
  <2>5. t \in Symbols
    BY <1>9, ExitIds DEF Close, Typed, SellsOne
  <2>6. \A s \in Symbols : snap'[Flat].owned[s] > 0 => snap'[Flat].owned[s] = snap[Flat].owned[s]
    <3>. HIDE DEF t
    <3>. QED BY <1>0, <2>4, <2>5
  <2>. QED BY <1>2, <2>1, <2>6
<1>. QED BY <1>3, <1>4, <1>5, <1>6, <1>7, <1>8, <1>9, FlatCases DEF ForceFlat

(* An exit has the quantity the entries hold. *)
LEMMA SoldStays ==
    ASSUME Typed, Typed', IInv, Limits, Exiting, [Next]_vars PROVE Sold'
<1>1. SUFFICES ASSUME NEW s \in Symbols, Known(orders'[ExitId(s)])
               PROVE  Closing' /\ EntriesQuiet' /\ orders'[ExitId(s)].qty = Held(s)'
  BY DEF Sold
<1>2. ExitId(s) \in Ids /\ ExitId(s) \notin Entries
  BY ExitIds
<1>3. ASSUME Closing, EntriesQuiet, orders'[ExitId(s)].qty = Held(s)
      PROVE  Closing' /\ EntriesQuiet' /\ orders'[ExitId(s)].qty = Held(s)'
  BY <1>3, ClosingStays, EntriesStayQuiet
<1>4. CASE Known(orders[ExitId(s)])
  <2>1. Closing /\ EntriesQuiet /\ orders[ExitId(s)].qty = Held(s)
    BY <1>4 DEF Exiting, Sold
  <2>2. orders'[ExitId(s)].qty = orders[ExitId(s)].qty
    <3>1. CASE Settled
      BY <1>2, <3>1 DEF Settled, Follows
    <3>2. ASSUME NEW t \in Symbols, SoldOff(t) PROVE orders'[ExitId(s)] = orders[ExitId(s)]
      <4>1. ExitId(t) # ExitId(s)
        BY <1>4, <3>2 DEF SoldOff
      <4>. QED BY <1>2, <3>2, <4>1 DEF SoldOff, Typed, TypeOK
    <3>. QED BY <2>1, <3>1, <3>2, OrderMoves, ClosingNotBought
  <2>. QED BY <1>3, <2>1, <2>2
<1>5. CASE ~Known(orders[ExitId(s)])
  <2>1. ~Settled
    BY <1>1, <1>2, <1>5 DEF Settled, Follows
  <2>2. ASSUME NEW q \in EntryRuns, Bought(q) PROVE FALSE
    <3>1. orders'[ExitId(s)] = orders[ExitId(s)]
      BY <1>2, <2>2 DEF Bought, Typed, TypeOK
    <3>. QED BY <1>1, <1>5, <3>1
  <2>3. PICK t \in Symbols : SoldOff(t)
    BY <2>1, <2>2, OrderMoves
  <2>4. ExitId(t) = ExitId(s)
    <3>1. SUFFICES ASSUME ExitId(t) # ExitId(s) PROVE FALSE
      OBVIOUS
    <3>2. orders'[ExitId(s)] = orders[ExitId(s)]
      BY <1>2, <2>3, <3>1 DEF SoldOff, Typed, TypeOK
    <3>. QED BY <1>1, <1>5, <3>2
  <2>5. t = s
    BY <2>4, ExitIds
  <2>6. pc[Flat] = "close" /\ snap[Flat].owned[s] > 0 /\ snap[Flat].owned[s] \in Int
    BY <2>3, <2>5, RunNames DEF SoldOff, Typed, Snapshot
  <2>7. Closing /\ EntriesQuiet /\ snap[Flat].owned[s] = Held(s)
    BY <1>5, <2>6 DEF Exiting, Closes, Sells, Selling
  <2>8. orders'[ExitId(s)] = Accepted(snap[Flat].owned[s], "none")
    BY <1>2, <2>3, <2>5 DEF SoldOff, Typed, TypeOK
  <2>9. orders'[ExitId(s)].qty = Held(s)
    BY <2>6, <2>7, <2>8, AcceptedSound
  <2>. QED BY <1>3, <2>7, <2>9
<1>. QED BY <1>4, <1>5

(* force_flat reports once, at its end. *)
LEMMA Reports ==
    ASSUME Typed, IInv, [Next]_vars, result' = "clean"
    PROVE  result = "clean" \/ (Verify(Flat) /\ AssertFlat(snap[Flat]))
<1>. USE DEF End
<1>1. CASE Outside
  BY <1>1, OutsideRests
<1>2. ASSUME NEW r \in Runs, Run(r), ~ForceFlat(r) PROVE result' = result
  BY <1>2 DEF Run, Submission, Claim, Propose, ReadPositions,
     ReadOpenOrders, Evaluate, WriteIntent, Reserve, RereadAuthority, RecheckPositions,
     RecheckOrders, Submit, Abort
<1>3. ASSUME NEW r \in Runs, ForceFlat(r), result # "clean"
      PROVE  Verify(Flat) /\ AssertFlat(snap[Flat])
  <2>1. r = Flat
    BY <1>3, FlatOnly
  <2>2. CASE Before(r) \/ Cancel(r) \/ CancelsSent(r) \/ AfterCancel(r)
    BY <1>3, <2>2 DEF Before, Cancel, CancelsSent, AfterCancel
  <2>3. CASE Exit(r) \/ ExitReserve(r) \/ Close(r) \/ ExitsSent(r)
    BY <1>3, <2>3 DEF Exit, Skip, Ambiguous, ExitIntent, ExitReserve, Close, ExitsSent
  <2>4. CASE Verify(r)
    BY <2>1, <2>4 DEF Verify
  <2>. QED BY <1>3, <2>2, <2>3, <2>4 DEF ForceFlat
<1>. QED BY <1>1, <1>2, <1>3 DEF Next, Outside

(* A clean report stays true. *)
LEMMA CleanStays ==
    ASSUME Typed, Typed', IInv, Limits, Exiting, [Next]_vars PROVE Clean'
<1>. USE DEF At, Goto, End, Forget
<1>0. DOMAIN pc = Runs /\ Flat \in Runs
  BY RunNames DEF IInv, Shape
<1>1. SUFFICES ASSUME result' = "clean"
               PROVE  /\ pc'[Flat] = "done" /\ Closing' /\ AllQuiet'
                      /\ \A s \in Symbols : Net(s)' = 0
  BY DEF Clean
<1>2. ASSUME Closing, AllQuiet, pc[Flat] # "close", \A s \in Symbols : Net(s) = 0
      PROVE  Closing' /\ AllQuiet' /\ \A s \in Symbols : Net(s)' = 0
  BY <1>2, ClosingStays, AllStayQuiet
<1>3. CASE result = "clean"
  <2>1. pc[Flat] = "done" /\ Closing /\ AllQuiet /\ \A s \in Symbols : Net(s) = 0
    BY <1>3 DEF Exiting, Clean
  <2>2. Rests(Flat)
    <3>1. ~Claim(Flat) /\ ~ReadPositions(Flat) /\ ~ReadOpenOrders(Flat) /\ ~Abort(Flat)
      BY <2>1 DEF Claim, ReadPositions, ReadOpenOrders, Abort
    <3>2. ~ForceFlat(Flat)
      BY <2>1 DEF ForceFlat, Before, Cancel, CancelsSent, AfterCancel, Exit, ExitReserve, Close,
         ExitsSent, Verify
    <3>. QED BY <3>1, <3>2, FlatCases
  <2>. QED BY <1>2, <2>1, <2>2 DEF Rests
<1>4. CASE Verify(Flat) /\ AssertFlat(snap[Flat])
  <2>1. /\ pc[Flat] = "orders" /\ stage[Flat] = "after" /\ pc'[Flat] = "done"
        /\ ~Alerts(snap[Flat]) /\ Mine(snap[Flat]) = {}
    BY <1>0, <1>4 DEF Verify, AssertFlat
  <2>2. Closing /\ AllQuiet
    BY <2>1, NoAlertCloses, NoneMineQuiet DEF Exiting
  <2>3. ASSUME NEW s \in Symbols PROVE Net(s) = 0
    <3>1. Owned(snap[Flat])[s] <= 0 /\ Owned(snap[Flat])[s] = Net(s) /\ Net(s) >= 0
      BY <1>4, <2>1, NoAlertCloses DEF AssertFlat
    <3>2. Net(s) \in Int
      BY NetOfInt DEF Net
    <3>. QED BY <3>1, <3>2
  <2>. QED BY <1>2, <2>1, <2>2, <2>3
<1>. QED BY <1>1, <1>3, <1>4, Reports

(* force_flat has not begun. *)
LEMMA InitExiting == Init => Exiting
<1> SUFFICES ASSUME Init PROVE Exiting
  OBVIOUS
<1>1. pc[Flat] = "idle" /\ stage[Flat] = "none" /\ result = "none"
  BY RunNames DEF Init
<1>2. \A s \in Symbols : ~Known(orders[ExitId(s)])
  BY ExitIds, NoOrderSound DEF Init
<1>. QED BY <1>1, <1>2 DEF Exiting, Closes, SeesOpen, Sells, Sold, Clean, Selling

(* Every step keeps what force_flat relies on. *)
LEMMA NextExiting ==
    Typed /\ Typed' /\ IInv /\ Limits /\ Exiting /\ [Next]_vars => Exiting'
<1> SUFFICES ASSUME Typed, Typed', IInv, Limits, Exiting, [Next]_vars PROVE Exiting'
  OBVIOUS
<1>1. Closes' /\ SeesOpen'
  BY ClosesStays, SeesOpenStays
<1>2. Sells' /\ Sold' /\ Clean'
  BY SellsStays, SoldStays, CleanStays
<1>. QED BY <1>1, <1>2 DEF Exiting

(* It holds all day. *)
LEMMA ExitingAlways == Spec => [](Typed /\ Exiting)
BY InitIInv, NextIInv, InitTyped, NextTyped, InitLimits, NextLimits, InitExiting, NextExiting,
   PTL DEF Spec

(* The project's own shares are never oversold: an exit is sent only when  *)
(* no entry and no leg works any more, for what the entries hold           *)
(* (executor.py 216-262).                                                  *)
THEOREM NeverOversold == Spec => []NeverShort
<1>1. Typed /\ Exiting => NeverShort
  <2> SUFFICES ASSUME Typed, Exiting, NEW s \in Symbols PROVE Net(s) >= 0
    BY DEF NeverShort
  <2>1. CASE Known(orders[ExitId(s)])
    <3>1. orders[ExitId(s)].qty = Held(s)
      BY <2>1 DEF Exiting, Sold
    <3>2. orders[ExitId(s)].filled <= orders[ExitId(s)].qty
      BY ExitIds DEF Typed, Sound
    <3>. QED BY <3>1, <3>2, NetIsHeld
  <2>2. CASE ~Known(orders[ExitId(s)])
    BY <2>2, NetIsHeld
  <2>. QED BY <2>1, <2>2
<1>. QED BY <1>1, ExitingAlways, PTL

(* A force_flat that reports no issue left no share and no working order,  *)
(* and no run adds one later that day (executor.py 272-281, slots.py       *)
(* 21-30).                                                                 *)
THEOREM CleanIsFlat == Spec => []FlatMeansFlat
<1>1. Exiting => FlatMeansFlat
  BY DEF Exiting, Clean, FlatMeansFlat, AllQuiet, Quiet
<1>. QED BY <1>1, ExitingAlways, PTL
=============================================================================
