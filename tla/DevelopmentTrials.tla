-------------------------- MODULE DevelopmentTrials --------------------------
(* The preregistered development run of research version 2: the trial ledger  *)
(* (trading_research/v2/ledger.py), the runner that spends its slots          *)
(* (v2_history/development_runner.py) and its immutable files (audit.py).     *)
(*                                                                            *)
(* A run may be killed between any two writes.  Nothing stops the operator    *)
(* from starting a second run while one is active, except the ledger's lock   *)
(* file and the files the first has left.                                     *)
EXTENDS Integers, Sequences, FiniteSets, SequencesExt

CONSTANTS
    Procs, None,
    Slots,      \* number of development slots: 26 in the code
    Priced,     \* slots that show prices to the strategy
    Codes,      \* committed implementations a run may have
    MaxRuns, MaxFaults  \* bounds: runs started, kills and exceptions

ASSUME TrialsAssumption ==
    /\ Slots \in Nat \ {0} /\ Priced \subseteq 1 .. Slots
    /\ None \notin Procs /\ "stale" \notin Procs
    /\ MaxRuns \in Nat /\ MaxFaults \in Nat

VARIABLES
    ledger,   \* event-00000000.json ...: a chain
    lock,     \* .writer.lock: its writer, None, or "stale"
    marker,   \* FIRST_PERFORMANCE_EXPOSURE_V2.json: the run that wrote it
    partial,  \* whether its .partial file exists
    failures, \* outcomes/*.failure.json: what they say of which trial
    run,      \* what each process is doing
    started,  \* number of the latest run
    begun,    \* history: runs that have begun an attempt
    exposed,  \* history: which run showed prices to the strategy, for which slot
    met,      \* history: pairs of runs that were active at the same time
    faults

files == <<ledger, lock, marker, partial, failures>>
history == <<started, begun, exposed, met>>
vars == <<files, run, history, faults>>

Idle == [step |-> "idle", no |-> 0, code |-> None, slot |-> 0, attempt |-> 0,
         rows |-> 0, status |-> None, why |-> None, copy |-> <<>>]

Init ==
    /\ ledger = <<>> /\ lock = None /\ marker = 0 /\ partial = FALSE
    /\ failures = {}
    /\ run = [p \in Procs |-> Idle]
    /\ started = 0 /\ begun = {} /\ exposed = {} /\ met = {}
    /\ faults = 0

At(p, s) == run[p].step = s
To(p, s) == run' = [run EXCEPT ![p].step = s]
End(p) == run' = [run EXCEPT ![p] = Idle]

Event(r, status) == [slot |-> r.slot, code |-> r.code, attempt |-> r.attempt,
                     status |-> status, rows |-> r.rows]
IsStart(e) == e.status = "ATTEMPT_STARTED"
SameTrial(e, r) == e.slot = r.slot /\ e.code = r.code

-----------------------------------------------------------------------------
(* The ledger.                                                                *)

AnySlot(r, events) == TRUE  \* mutant: a used slot pays for another code, too

\* begin: D1_TRIAL_BUDGET_OVERFLOW, D1_TRIAL_SLOT_ALREADY_CONSUMED.
MayBegin(r, events) ==
    LET starts == {e \in ToSet(events) : IsStart(e)} IN
      \/ \E e \in starts : SameTrial(e, r)
      \/ /\ Cardinality({<<e.slot, e.code>> : e \in starts}) < Slots
         /\ \A e \in starts : e.slot # r.slot

EndedOnes(r, events) ==  \* mutant: an attempt that was killed does not count
    1 + Cardinality({i \in DOMAIN events : ~IsStart(events[i]) /\ SameTrial(events[i], r)})

NextAttempt(r, events) ==
    1 + Cardinality({i \in DOMAIN events : IsStart(events[i]) /\ SameTrial(events[i], r)})

\* finish: D1_LEDGER_ATTEMPT, D1R_EXPOSURE_CANNOT_DECREASE.
MayFinish(r, events) ==
    LET own == {i \in DOMAIN events :
                  SameTrial(events[i], r) /\ events[i].attempt = r.attempt} IN
      \E i \in own : own = {i} /\ IsStart(events[i]) /\ events[i].rows <= r.rows

\* The lock file is created exclusively.
LockFree(p) == lock = None

\* Under the lock the whole chain is read; an exception unlocks.
Acquire(p, step, next) ==
    /\ At(p, step) /\ LockFree(p)
    /\ lock' = p
    /\ run' = [run EXCEPT ![p].step = next, ![p].copy = ledger]
    /\ UNCHANGED <<ledger, marker, partial, failures, history, faults>>

\* D1_LEDGER_WRITER_ACTIVE: begin ends the run, finish is an exception of its try.
Busy(p, step, next) ==
    /\ At(p, step) /\ ~LockFree(p)
    /\ IF next = "idle" THEN End(p) ELSE To(p, next)
    /\ UNCHANGED <<files, history, faults>>

\* _append: the next number of the chain as it was read, renamed into place (only
\* a writer without the lock could meet D1_LEDGER_OVERWRITE).
Append_(p, e, step) ==
    /\ ledger' = Append(run[p].copy, e)
    /\ run' = [run EXCEPT ![p].step = step, ![p].copy = <<>>, ![p].attempt = e.attempt]
    /\ UNCHANGED <<lock, marker, partial, failures, started, exposed, met, faults>>

\* The finally of _lock.
Unlock(p, step, next) ==
    /\ At(p, step)
    /\ lock' = None
    /\ IF next = "idle" THEN End(p) ELSE To(p, next)
    /\ UNCHANGED <<ledger, marker, partial, failures, history, faults>>

Begin(p) ==
    /\ At(p, "begin locked")
    /\ LET r == [run[p] EXCEPT !.attempt = NextAttempt(run[p], run[p].copy)] IN
         \/ /\ MayBegin(r, run[p].copy)
            /\ Append_(p, Event(r, "ATTEMPT_STARTED"), "begun")
            /\ begun' = begun \cup {r.no}
         \/ /\ ~MayBegin(r, run[p].copy)
            /\ To(p, "refused") /\ UNCHANGED <<files, history, faults>>

\* With the run's own attempt found it appends; this never fails for it.
Finish(p) ==
    /\ At(p, "finish locked") /\ MayFinish(run[p], run[p].copy)
    /\ Append_(p, Event(run[p], run[p].status), "finished")
    /\ UNCHANGED begun

-----------------------------------------------------------------------------
(* A run.                                                                     *)

Active == {p \in Procs : ~At(p, "idle")}

\* main: a marker refuses the run.
Start(p) ==
    /\ At(p, "idle") /\ started < MaxRuns
    /\ marker = 0
    /\ started' = started + 1
    /\ \E c \in Codes :
         run' = [run EXCEPT ![p] = [Idle EXCEPT !.step = "enter", !.no = started + 1,
                                      !.code = c, !.slot = 1]]
    /\ met' = met \cup {{started + 1, run[q].no} : q \in Active}
    /\ UNCHANGED <<files, begun, exposed, faults>>

SkipCheck(p) ==  \* mutant: a ledger with attempts is no reason to stop
    /\ At(p, "enter")
    /\ To(p, "begin") /\ UNCHANGED <<files, history, faults>>

\* execute: so does a ledger with an attempt.
Enter(p) ==
    /\ At(p, "enter")
    /\ IF ledger = <<>> THEN To(p, "begin") ELSE End(p)
    /\ UNCHANGED <<files, history, faults>>

Unannounced(p) == "evaluate"  \* mutant: no marker before the first exposure
AfterBegin(p) == IF run[p].slot = 1 THEN "marker" ELSE "evaluate"

\* An exception after begin: a failure file is to be written, and the attempt to
\* be finished as INTERRUPTED.
Fail(p, why) == run' = [run EXCEPT ![p].step = "failing", ![p].why = why,
                                   ![p].status = "INTERRUPTED"]

\* A failure file of the same trial that says something else is an exception in
\* the handler: the run ends and its attempt stays open.
WriteFailure(p) ==
    /\ At(p, "failing")
    /\ LET r == run[p]
           file == [slot |-> r.slot, code |-> r.code, why |-> r.why, rows |-> r.rows] IN
         IF \E f \in failures : SameTrial(f, r) /\ f # file
         THEN End(p) /\ UNCHANGED failures
         ELSE To(p, "finish") /\ failures' = failures \cup {file}
    /\ UNCHANGED <<ledger, lock, marker, partial, history, faults>>

\* immutable_json: the file is looked for ...
MarkerLook(p) ==
    /\ At(p, "marker")
    /\ IF marker # 0 THEN Fail(p, "conflict") ELSE To(p, "marker open")
    /\ UNCHANGED <<files, history, faults>>

\* ... its partial is created exclusively ...
MarkerOpen(p) ==
    /\ At(p, "marker open")
    /\ IF partial THEN Fail(p, "error") /\ UNCHANGED partial
       ELSE To(p, "marker rename") /\ partial' = TRUE
    /\ UNCHANGED <<ledger, lock, marker, failures, history, faults>>

\* ... and renamed, over whatever is there by then.
MarkerRename(p) ==
    /\ At(p, "marker rename")
    /\ marker' = run[p].no /\ partial' = FALSE
    /\ To(p, "evaluate")
    /\ UNCHANGED <<ledger, lock, failures, history, faults>>

\* The evaluation shows prices to the strategy; an outcome is written, or an
\* exception ends it.  The outcome of a trial is a function of its identity.
Evaluate(p) ==
    /\ At(p, "evaluate")
    /\ LET priced == run[p].slot \in Priced
           after(step, status, why) ==
             run' = [run EXCEPT ![p].step = step, ![p].status = status, ![p].why = why,
                                ![p].rows = IF priced THEN 1 ELSE 0] IN
         /\ exposed' = IF priced THEN exposed \cup {<<run[p].no, run[p].slot>>} ELSE exposed
         /\ \/ after("finish", "PASS", None) /\ UNCHANGED faults
            \/ /\ faults < MaxFaults /\ faults' = faults + 1
               /\ after("failing", "INTERRUPTED", "error")
    /\ UNCHANGED <<files, started, begun, met>>

\* The next slot; the run ends with its last one or with an INTERRUPTED one.
Turn(p) ==
    /\ At(p, "turn")
    /\ IF run[p].status = "INTERRUPTED" \/ run[p].slot = Slots THEN End(p)
       ELSE run' = [run EXCEPT ![p].step = "begin", ![p].slot = @ + 1,
                               ![p].rows = 0, ![p].status = None, ![p].why = None]
    /\ UNCHANGED <<files, history, faults>>

\* finish found the lock taken: an exception in the try finishes once more, as
\* INTERRUPTED; one in its handler ends the run.
FinishBusy(p) ==
    /\ At(p, "finish") /\ ~LockFree(p)
    /\ IF run[p].status = "PASS" THEN Fail(p, "busy") ELSE End(p)
    /\ UNCHANGED <<files, history, faults>>

Kill(p) ==
    /\ ~At(p, "idle") /\ faults < MaxFaults
    /\ faults' = faults + 1
    /\ lock' = IF lock = p THEN "stale" ELSE lock
    /\ End(p)
    /\ UNCHANGED <<ledger, marker, partial, failures, history>>

\* External: the operator removes the lock of a dead writer.
RecoverLock == lock = "stale" /\ lock' = None
               /\ UNCHANGED <<ledger, marker, partial, failures, run, history, faults>>

Next ==
    \/ \E p \in Procs :
         \/ Start(p) \/ Enter(p)
         \/ Acquire(p, "begin", "begin locked") \/ Busy(p, "begin", "idle")
         \/ Begin(p)
         \/ Unlock(p, "begun", AfterBegin(p)) \/ Unlock(p, "refused", "idle")
         \/ MarkerLook(p) \/ MarkerOpen(p) \/ MarkerRename(p)
         \/ Evaluate(p) \/ WriteFailure(p)
         \/ Acquire(p, "finish", "finish locked") \/ FinishBusy(p)
         \/ Finish(p) \/ Unlock(p, "finished", "turn") \/ Turn(p)
         \/ Kill(p)
    \/ RecoverLock

Spec == Init /\ [][Next]_vars

-----------------------------------------------------------------------------
(* Properties.                                                                *)

Starts == {i \in DOMAIN ledger : IsStart(ledger[i])}
SameAttempt(e, f) == e.slot = f.slot /\ e.code = f.code /\ e.attempt = f.attempt

\* The chain of events is sound whatever runs were killed or overlapped: the
\* attempts of a trial are numbered without gaps, and each has at most one end,
\* after its start and with no fewer rows (begin, finish, _append).
LedgerSound ==
    /\ \A i \in Starts :
         ledger[i].attempt = 1 + Cardinality({j \in Starts : j < i
                               /\ ledger[j].slot = ledger[i].slot
                               /\ ledger[j].code = ledger[i].code})
    /\ \A i \in DOMAIN ledger \ Starts :
         /\ \E j \in Starts : j < i /\ SameAttempt(ledger[j], ledger[i])
                                /\ ledger[j].rows <= ledger[i].rows
         /\ \A j \in DOMAIN ledger \ Starts : SameAttempt(ledger[j], ledger[i]) => i = j

\* A slot is spent on one identity: changed code never gets fresh evidence from a
\* slot that was used, even by an attempt that failed (begin).
SlotSpentOnce ==
    \A i, j \in Starts : ledger[i].slot = ledger[j].slot => ledger[i].code = ledger[j].code

\* Before the strategy sees a price, the attempt is in the ledger and the marker
\* of a first exposure is on disk, so that no later run takes the period for
\* untouched (execute).
ExposureIsAnnounced ==
    exposed # {} =>
      /\ marker # 0
      /\ \A x \in exposed : \E i \in Starts : ledger[i].slot = x[2]

\* No existing attempt is silently rerun, nor prices shown again: two runs have
\* begun attempts only if both were active at the same time (main and execute look
\* at the marker and at the ledger first).
RerunOnlyTogether ==
    /\ \A m, n \in begun : m # n => {m, n} \in met
    /\ \A x \in exposed : x[1] \in begun
=============================================================================
