---------------------- MODULE DevelopmentTrials_proofs ----------------------
(***************************************************************************)
(* For any number of processes, runs, slots, implementations and faults: a *)
(* slot is spent on one identity, no price is shown before the ledger and  *)
(* the marker say so, two runs begin only if they overlap, and the chain   *)
(* of events is sound.                                                     *)
(***************************************************************************)
EXTENDS DevelopmentTrials, TLAPS, FiniteSetTheorems

Steps == {"idle", "enter", "begin", "begin locked", "begun", "refused", "marker",
          "marker open", "marker rename", "evaluate", "failing", "finish",
          "finish locked", "finished", "turn"}
Whys == {None, "conflict", "error", "busy"}
Statuses == {None, "PASS", "INTERRUPTED"}
Events == [slot : Nat, code : Codes, attempt : Nat,
           status : Statuses \cup {"ATTEMPT_STARTED"}, rows : Nat]
Runs == [step : Steps, no : Nat, code : Codes \cup {None}, slot : Nat, attempt : Nat,
         rows : Nat, status : Statuses, why : Whys, copy : Seq(Events)]

Types ==
    /\ ledger \in Seq(Events) /\ run \in [Procs -> Runs]
    /\ started \in Nat

\* Who works under the lock holds it, and has read the chain as it is.
Holding(p) ==
    /\ run[p].step \in {"begin locked", "begun", "refused", "finish locked", "finished"}
         => lock = p
    /\ run[p].step \in {"begin locked", "finish locked"} => run[p].copy = ledger

\* What a run is: numbered, of one code, ending a trial as one of two.
Proper(p) ==
    /\ run[p].step # "idle" => run[p].no # 0 /\ run[p].code \in Codes
    /\ run[p].step = "failing" => run[p].status = "INTERRUPTED"
    /\ run[p].step \in {"finish", "finish locked"} => run[p].status \in {"PASS", "INTERRUPTED"}

\* Behind the first evaluation the marker is there.
Announced(p) ==
    /\ run[p].step # "idle" /\ run[p].slot # 1 => marker # 0
    /\ run[p].step = "evaluate" => marker # 0
    /\ run[p].step \in {"finish", "finish locked", "finished", "turn"}
         => run[p].status = "INTERRUPTED" \/ marker # 0

StartOf(slot) == \E i \in Starts : ledger[i].slot = slot
\* Before an evaluation its attempt is in the ledger.
Attempted(p) ==
    run[p].step \in {"begun", "marker", "marker open", "marker rename", "evaluate"}
      => run[p].no \in begun /\ StartOf(run[p].slot)

\* Who found the ledger empty has met every run that began since.
Passed(p) ==
    run[p].step \notin {"idle", "enter"}
      => \A m \in begun : m # run[p].no => {m, run[p].no} \in met

RunInv(p) == Holding(p) /\ Proper(p) /\ Announced(p) /\ Attempted(p) /\ Passed(p)
Together ==
    \A p, q \in Procs : p # q /\ run[p].step # "idle" /\ run[q].step # "idle"
                          => {run[p].no, run[q].no} \in met
Histories ==
    /\ SlotSpentOnce /\ ExposureIsAnnounced /\ RerunOnlyTogether
    /\ begun # {} => ledger # <<>>

IInv == Types /\ (\A p \in Procs : RunInv(p)) /\ Together /\ Histories

-----------------------------------------------------------------------------
(* What a step does to the record of its process. *)

LEMMA NewRecord ==
  ASSUME Types, NEW p \in Procs, NEW r \in Runs, run' = [run EXCEPT ![p] = r]
  PROVE  /\ run' \in [Procs -> Runs] /\ run'[p] = r
         /\ \A q \in Procs : q # p => run'[q] = run[q]
  BY DEF Types

LEMMA Moved ==
  ASSUME Types, NEW p \in Procs, NEW s \in Steps, To(p, s)
  PROVE  /\ run' \in [Procs -> Runs] /\ run'[p].step = s
         /\ run'[p].no = run[p].no /\ run'[p].code = run[p].code
         /\ run'[p].slot = run[p].slot /\ run'[p].status = run[p].status
         /\ run'[p].copy = run[p].copy
         /\ \A q \in Procs : q # p => run'[q] = run[q]
<1>1. run[p] \in Runs BY DEF Types
<1>2. [run[p] EXCEPT !.step = s] \in Runs BY <1>1 DEF Runs
<1>3. run' = [run EXCEPT ![p] = [run[p] EXCEPT !.step = s]] BY DEF Types, To
<1>4. run'[p] = [run[p] EXCEPT !.step = s] BY <1>2, <1>3, NewRecord
<1>5. /\ run'[p].step = s /\ run'[p].no = run[p].no /\ run'[p].code = run[p].code
      /\ run'[p].slot = run[p].slot /\ run'[p].status = run[p].status
      /\ run'[p].copy = run[p].copy
  BY <1>1, <1>4 DEF Runs
<1>. QED BY <1>2, <1>3, <1>5, NewRecord

LEMMA IdleRun == Idle \in Runs
<1>1. <<>> \in Seq(Events) OBVIOUS
<1>. QED BY <1>1 DEF Idle, Runs, Steps, Statuses, Whys

LEMMA Ended ==
  ASSUME Types, NEW p \in Procs, End(p)
  PROVE  /\ run' \in [Procs -> Runs] /\ run'[p].step = "idle"
         /\ \A q \in Procs : q # p => run'[q] = run[q]
<1>1. run' = [run EXCEPT ![p] = Idle] BY DEF End
<1>2. run'[p] = Idle BY <1>1, IdleRun, NewRecord
<1>. QED BY <1>1, <1>2, IdleRun, NewRecord DEF Idle

LEMMA Failed ==
  ASSUME Types, NEW p \in Procs, NEW w \in Whys, Fail(p, w)
  PROVE  /\ run' \in [Procs -> Runs] /\ run'[p].step = "failing"
         /\ run'[p].status = "INTERRUPTED"
         /\ run'[p].no = run[p].no /\ run'[p].code = run[p].code
         /\ run'[p].slot = run[p].slot
         /\ \A q \in Procs : q # p => run'[q] = run[q]
<1>. DEFINE r == [run[p] EXCEPT !.step = "failing", !.why = w, !.status = "INTERRUPTED"]
<1>1. run[p] \in Runs BY DEF Types
<1>2. r \in Runs BY <1>1 DEF Runs, Steps, Statuses
<1>3. run' = [run EXCEPT ![p] = r] BY DEF Types, Fail
<1>4. run'[p] = r BY <1>2, <1>3, NewRecord
<1>5. /\ run'[p].step = "failing" /\ run'[p].status = "INTERRUPTED"
      /\ run'[p].no = run[p].no /\ run'[p].code = run[p].code /\ run'[p].slot = run[p].slot
  BY <1>1, <1>4 DEF Runs
<1>. QED BY <1>2, <1>3, <1>5, NewRecord

-----------------------------------------------------------------------------
(* What a step leaves to the others. *)

\* Starts stay where they are.
StartsKept == \A i \in Starts : i \in Starts' /\ ledger'[i] = ledger[i]

LEMMA OthersKept ==
  ASSUME IInv, NEW p \in Procs, NEW q \in Procs, q # p, run'[q] = run[q],
         lock = q => lock' = lock /\ ledger' = ledger,
         marker # 0 => marker' # 0,
         begun \subseteq begun', met \subseteq met', StartsKept,
         \A m \in begun' \ begun : m = run[p].no /\ run[p].step # "idle"
  PROVE  RunInv(q)'
<1>0. RunInv(q) BY DEF IInv
<1>1. Holding(q)' BY <1>0 DEF RunInv, Holding
<1>2. Proper(q)' BY <1>0 DEF RunInv, Proper
<1>3. Announced(q)' BY <1>0 DEF RunInv, Announced
<1>4. Attempted(q)'
  <2>1. StartOf(run[q].slot) => StartOf(run[q].slot)' BY DEF StartOf, StartsKept
  <2>. QED BY <1>0, <2>1 DEF RunInv, Attempted, StartOf
<1>5. Passed(q)'
  <2>. SUFFICES ASSUME run[q].step \notin {"idle", "enter"}, NEW m \in begun',
                       m # run[q].no
                PROVE  {m, run[q].no} \in met
    BY DEF Passed
  <2>1. CASE m \in begun BY <1>0, <2>1 DEF RunInv, Passed
  <2>2. CASE m \notin begun
    <3>1. m = run[p].no /\ run[p].step # "idle" BY <2>2
    <3>. QED BY <3>1 DEF IInv, Together
  <2>. QED BY <2>1, <2>2
<1>. QED BY <1>1, <1>2, <1>3, <1>4, <1>5 DEF RunInv

\* A step of p that starts no run.
LEMMA StepKeeps ==
  ASSUME IInv, NEW p \in Procs, run' \in [Procs -> Runs],
         \A q \in Procs : q # p => run'[q] = run[q],
         run[p].step # "idle",
         run'[p].step # "idle" => run'[p].no = run[p].no /\ RunInv(p)',
         lock = p \/ lock \notin Procs \/ (lock' = lock /\ ledger' = ledger),
         marker # 0 => marker' # 0,
         begun \subseteq begun', met' = met, StartsKept,
         \A m \in begun' \ begun : m = run[p].no
  PROVE  (\A q \in Procs : RunInv(q)') /\ Together'
<1>1. ASSUME NEW q \in Procs, q # p PROVE RunInv(q)' BY <1>1, OthersKept
<1>2. ASSUME run'[p].step = "idle" PROVE RunInv(p)'
  <2>1. Holding(p)' BY <1>2 DEF Holding
  <2>2. Proper(p)' BY <1>2 DEF Proper
  <2>3. Announced(p)' BY <1>2 DEF Announced
  <2>4. Attempted(p)' BY <1>2 DEF Attempted
  <2>5. Passed(p)' BY <1>2 DEF Passed
  <2>. QED BY <2>1, <2>2, <2>3, <2>4, <2>5 DEF RunInv
<1>3. Together' BY DEF IInv, Together
<1>. QED BY <1>1, <1>2, <1>3

LEMMA HistoriesKept ==
  ASSUME IInv, UNCHANGED <<ledger, begun, exposed>>, marker # 0 => marker' # 0,
         met \subseteq met'
  PROVE  Histories'
<1>1. SlotSpentOnce' BY DEF IInv, Histories, SlotSpentOnce, Starts, IsStart
<1>2. ExposureIsAnnounced'
  BY DEF IInv, Histories, ExposureIsAnnounced, Starts, IsStart
<1>3. RerunOnlyTogether' BY DEF IInv, Histories, RerunOnlyTogether
<1>. QED BY <1>1, <1>2, <1>3 DEF IInv, Histories

LEMMA SameLedger == ledger' = ledger => StartsKept
  BY DEF StartsKept, Starts, IsStart

\* Steps that change nothing but the record of their process and, when it is free
\* or its own, the lock.
LEMMA QuietKeeps ==
  ASSUME IInv, NEW p \in Procs, run' \in [Procs -> Runs],
         \A q \in Procs : q # p => run'[q] = run[q],
         run[p].step # "idle",
         run'[p].step # "idle" => run'[p].no = run[p].no /\ RunInv(p)',
         lock = p \/ lock \notin Procs \/ lock' = lock,
         UNCHANGED <<ledger, marker, started, begun, exposed, met>>
  PROVE  IInv'
<1>1. Types' BY DEF IInv, Types
<1>2. StartsKept BY SameLedger
<1>3. (\A q \in Procs : RunInv(q)') /\ Together' BY <1>2, StepKeeps
<1>4. Histories' BY HistoriesKept
<1>. QED BY <1>1, <1>3, <1>4 DEF IInv

-----------------------------------------------------------------------------
(* Every step keeps the invariant. *)

LEMMA InitInv == Init => IInv
<1>. SUFFICES ASSUME Init PROVE IInv OBVIOUS
<1>1. Types BY IdleRun DEF Init, Types
<1>2. \A p \in Procs : run[p].step = "idle" BY DEF Init, Idle
<1>3. ASSUME NEW p \in Procs PROVE RunInv(p)
  <2>1. Holding(p) BY <1>2 DEF Holding
  <2>2. Proper(p) BY <1>2 DEF Proper
  <2>3. Announced(p) BY <1>2 DEF Announced
  <2>4. Attempted(p) BY <1>2 DEF Attempted
  <2>5. Passed(p) BY <1>2 DEF Passed
  <2>. QED BY <2>1, <2>2, <2>3, <2>4, <2>5 DEF RunInv
<1>4. Together BY <1>2 DEF Together
<1>5. Histories
  BY DEF Init, Histories, SlotSpentOnce, ExposureIsAnnounced, RerunOnlyTogether, Starts
<1>. QED BY <1>1, <1>3, <1>4, <1>5 DEF IInv

\* A process that ends its run without having touched anything but its lock.
LEMMA EndKeeps ==
  ASSUME IInv, NEW p \in Procs, End(p), run[p].step # "idle",
         lock = p \/ lock \notin Procs \/ lock' = lock,
         UNCHANGED <<ledger, marker, started, begun, exposed, met>>
  PROVE  IInv'
<1>1. /\ run' \in [Procs -> Runs] /\ run'[p].step = "idle"
      /\ \A q \in Procs : q # p => run'[q] = run[q]
  BY Ended DEF IInv
<1>. QED BY <1>1, QuietKeeps

\* An exception after begin.
LEMMA FailKeeps ==
  ASSUME IInv, NEW p \in Procs, NEW w \in Whys, Fail(p, w),
         run[p].step \notin {"idle", "enter"},
         UNCHANGED <<ledger, lock, marker, started, begun, exposed, met>>
  PROVE  IInv'
<1>1. /\ run' \in [Procs -> Runs] /\ run'[p].step = "failing"
      /\ run'[p].status = "INTERRUPTED"
      /\ run'[p].no = run[p].no /\ run'[p].code = run[p].code /\ run'[p].slot = run[p].slot
      /\ \A q \in Procs : q # p => run'[q] = run[q]
  BY Failed DEF IInv
<1>2. RunInv(p) BY DEF IInv
<1>3. Holding(p)' BY <1>1 DEF Holding
<1>4. Proper(p)' BY <1>1, <1>2 DEF RunInv, Proper
<1>5. Announced(p)' BY <1>1, <1>2 DEF RunInv, Announced
<1>6. Attempted(p)' BY <1>1 DEF Attempted
<1>7. Passed(p)' BY <1>1, <1>2 DEF RunInv, Passed
<1>8. RunInv(p)' BY <1>3, <1>4, <1>5, <1>6, <1>7 DEF RunInv
<1>. QED BY <1>1, <1>8, QuietKeeps

LEMMA EnterKeeps ==
  ASSUME IInv, NEW p \in Procs, Enter(p)
  PROVE  IInv'
<1>1. UNCHANGED <<ledger, lock, marker, started, begun, exposed, met>> /\ run[p].step = "enter"
  BY DEF Enter, At, files, history
<1>2. CASE End(p) BY <1>1, <1>2, EndKeeps
<1>3. CASE ledger = <<>> /\ To(p, "begin")
  <2>1. /\ run' \in [Procs -> Runs] /\ run'[p].step = "begin"
        /\ run'[p].no = run[p].no /\ run'[p].code = run[p].code /\ run'[p].slot = run[p].slot
        /\ \A q \in Procs : q # p => run'[q] = run[q]
    BY <1>3, Moved DEF IInv, Steps
  <2>2. begun = {} BY <1>3 DEF IInv, Histories
  <2>3. RunInv(p) BY DEF IInv
  <2>4. Holding(p)' BY <2>1 DEF Holding
  <2>5. Proper(p)' BY <1>1, <2>1, <2>3 DEF RunInv, Proper
  <2>6. Announced(p)' BY <1>1, <2>1, <2>3 DEF RunInv, Announced
  <2>7. Attempted(p)' BY <2>1 DEF Attempted
  <2>8. Passed(p)' BY <1>1, <2>2 DEF Passed
  <2>9. RunInv(p)' BY <2>4, <2>5, <2>6, <2>7, <2>8 DEF RunInv
  <2>. QED BY <1>1, <2>1, <2>9, QuietKeeps
<1>. QED BY <1>2, <1>3 DEF Enter

LEMMA AcquireKeeps ==
  ASSUME IInv, NEW p \in Procs, NEW from \in {"begin", "finish"}, NEW to \in Steps,
         from = "begin" => to = "begin locked", from = "finish" => to = "finish locked",
         Acquire(p, from, to)
  PROVE  IInv'
<1>. DEFINE r == [run[p] EXCEPT !.step = to, !.copy = ledger]
<1>1. /\ run[p].step = from /\ lock = None /\ lock' = p
      /\ UNCHANGED <<ledger, marker, started, begun, exposed, met>>
  BY DEF Acquire, At, LockFree, history
<1>2. run[p] \in Runs /\ ledger \in Seq(Events) BY DEF IInv, Types
<1>3. r \in Runs BY <1>2 DEF Runs
<1>4. run' = [run EXCEPT ![p] = r] BY DEF Acquire, IInv, Types
<1>5. run' \in [Procs -> Runs] /\ run'[p] = r /\ \A q \in Procs : q # p => run'[q] = run[q]
  BY <1>3, <1>4, NewRecord DEF IInv
<1>6. /\ run'[p].step = to /\ run'[p].copy = ledger
      /\ run'[p].no = run[p].no /\ run'[p].code = run[p].code /\ run'[p].slot = run[p].slot
      /\ run'[p].status = run[p].status
  BY <1>2, <1>5 DEF Runs
<1>7. to \in {"begin locked", "finish locked"} BY <1>1
<1>8. RunInv(p) BY DEF IInv
<1>9. Holding(p)' BY <1>1, <1>6 DEF Holding
<1>10. Proper(p)' BY <1>1, <1>6, <1>7, <1>8 DEF RunInv, Proper
<1>11. Announced(p)' BY <1>1, <1>6, <1>7, <1>8 DEF RunInv, Announced
<1>12. Attempted(p)' BY <1>6, <1>7 DEF Attempted
<1>13. Passed(p)' BY <1>1, <1>6, <1>7, <1>8 DEF RunInv, Passed
<1>14. RunInv(p)' BY <1>9, <1>10, <1>11, <1>12, <1>13 DEF RunInv
<1>. QED BY <1>1, <1>5, <1>6, <1>14, QuietKeeps, TrialsAssumption

LEMMA UnlockKeeps ==
  ASSUME IInv, NEW p \in Procs, NEW from \in {"begun", "refused", "finished"},
         NEW to \in {"idle", "marker", "evaluate", "turn"},
         from = "begun" => to = AfterBegin(p), from = "finished" => to = "turn",
         from = "refused" => to = "idle", Unlock(p, from, to)
  PROVE  IInv'
<1>0. RunInv(p) BY DEF IInv
<1>1. /\ run[p].step = from /\ lock = p
      /\ UNCHANGED <<ledger, marker, started, begun, exposed, met>>
  BY <1>0 DEF Unlock, At, history, RunInv, Holding
<1>2. CASE to = "idle"
  <2>1. End(p) BY <1>2 DEF Unlock
  <2>. QED BY <1>1, <2>1, EndKeeps
<1>3. CASE to # "idle"
  <2>0. To(p, to) BY <1>3 DEF Unlock
  <2>1. /\ run' \in [Procs -> Runs] /\ run'[p].step = to
        /\ run'[p].no = run[p].no /\ run'[p].code = run[p].code /\ run'[p].slot = run[p].slot
        /\ run'[p].status = run[p].status
        /\ \A q \in Procs : q # p => run'[q] = run[q]
    BY <2>0, Moved DEF IInv, Steps
  <2>3. Holding(p)' BY <2>1 DEF Holding
  <2>4. Proper(p)' BY <1>0, <1>1, <2>1 DEF RunInv, Proper
  <2>5. Announced(p)'
    <3>1. from = "begun" /\ to = "evaluate" => run[p].slot # 1 BY DEF AfterBegin
    <3>. QED BY <1>0, <1>1, <1>3, <2>1, <3>1 DEF RunInv, Announced, AfterBegin
  <2>6. Attempted(p)'
    <3>1. CASE from = "begun"
      <4>1. run[p].no \in begun /\ StartOf(run[p].slot)
        BY <1>0, <1>1, <3>1 DEF RunInv, Attempted
      <4>. QED BY <1>1, <2>1, <4>1 DEF Attempted, StartOf, Starts, IsStart
    <3>2. CASE from # "begun" BY <1>3, <2>1, <3>2 DEF Attempted
    <3>. QED BY <3>1, <3>2
  <2>7. Passed(p)' BY <1>0, <1>1, <2>1 DEF RunInv, Passed
  <2>8. RunInv(p)' BY <2>3, <2>4, <2>5, <2>6, <2>7 DEF RunInv
  <2>. QED BY <1>1, <2>1, <2>8, QuietKeeps
<1>. QED BY <1>2, <1>3

\* A chain that has grown by one event.
LEMMA Grown ==
  ASSUME Types, NEW e \in Events, ledger' = Append(ledger, e)
  PROVE  /\ ledger' \in Seq(Events) /\ ledger' # <<>> /\ StartsKept
         /\ \A i \in Starts' : \/ i \in Starts /\ ledger'[i] = ledger[i]
                               \/ ledger'[i] = e /\ IsStart(e)
         /\ IsStart(e) => \E i \in Starts' : ledger'[i] = e
<1>1. ledger \in Seq(Events) BY DEF Types
<1>2. /\ ledger' \in Seq(Events) /\ ledger' # <<>>
      /\ DOMAIN ledger' = 1 .. (Len(ledger) + 1) /\ DOMAIN ledger = 1 .. Len(ledger)
      /\ Len(ledger) \in Nat
      /\ \A i \in 1 .. Len(ledger) : ledger'[i] = ledger[i]
      /\ ledger'[Len(ledger) + 1] = e
  BY <1>1
<1>3. StartsKept BY <1>2 DEF StartsKept, Starts, IsStart
<1>4. ASSUME NEW i \in Starts'
      PROVE  \/ i \in Starts /\ ledger'[i] = ledger[i]
             \/ ledger'[i] = e /\ IsStart(e)
  <2>1. i \in DOMAIN ledger' /\ IsStart(ledger'[i]) BY <1>4 DEF Starts, IsStart
  <2>2. CASE i \in 1 .. Len(ledger) BY <1>2, <2>1, <2>2 DEF Starts, IsStart
  <2>3. CASE i = Len(ledger) + 1 BY <1>2, <2>1, <2>3
  <2>. QED BY <1>2, <2>1, <2>2, <2>3
<1>5. ASSUME IsStart(e) PROVE \E i \in Starts' : ledger'[i] = e
  <2>1. Len(ledger) + 1 \in DOMAIN ledger' BY <1>2
  <2>2. Len(ledger) + 1 \in Starts' BY <1>2, <1>5, <2>1 DEF Starts, IsStart
  <2>. QED BY <1>2, <2>2
<1>. QED BY <1>2, <1>3, <1>4, <1>5

\* The number of an attempt is a number.
LEMMA AttemptCounts ==
  ASSUME NEW events \in Seq(Events), NEW r
  PROVE  NextAttempt(r, events) \in Nat
<1>. DEFINE I == {i \in DOMAIN events : IsStart(events[i]) /\ SameTrial(events[i], r)}
<1>1. Len(events) \in Nat /\ DOMAIN events = 1 .. Len(events) OBVIOUS
<1>2. IsFiniteSet(1 .. Len(events)) BY <1>1, FS_Interval
<1>3. IsFiniteSet(I) BY <1>1, <1>2, FS_Subset
<1>4. Cardinality(I) \in Nat BY <1>3, FS_CardinalityType
<1>. QED BY <1>4 DEF NextAttempt

\* A trial that may begin has the code on which its slot was spent.
LEMMA SlotHasCode ==
  ASSUME SlotSpentOnce, NEW r, MayBegin(r, ledger), NEW i \in Starts, ledger[i].slot = r.slot
  PROVE  ledger[i].code = r.code
<1>1. i \in DOMAIN ledger /\ IsStart(ledger[i]) /\ ledger[i] \in ToSet(ledger)
  BY DEF Starts, ToSet
<1>2. PICK e \in ToSet(ledger) : IsStart(e) /\ SameTrial(e, r) BY <1>1 DEF MayBegin
<1>3. PICK k \in DOMAIN ledger : ledger[k] = e BY <1>2 DEF ToSet
<1>4. k \in Starts BY <1>2, <1>3 DEF Starts
<1>5. ledger[k].slot = r.slot /\ ledger[k].code = r.code BY <1>2, <1>3 DEF SameTrial
<1>. QED BY <1>4, <1>5 DEF SlotSpentOnce

LEMMA BeginKeeps ==
  ASSUME IInv, NEW p \in Procs, Begin(p)
  PROVE  IInv'
<1>. DEFINE r == [run[p] EXCEPT !.attempt = NextAttempt(run[p], run[p].copy)]
           e == Event(r, "ATTEMPT_STARTED")
<1>0. RunInv(p) BY DEF IInv
<1>1. /\ run[p].step = "begin locked" /\ lock = p /\ run[p].copy = ledger
      /\ run[p].no # 0 /\ run[p].code \in Codes
  BY <1>0 DEF Begin, At, RunInv, Holding, Proper
<1>2. run[p] \in Runs /\ ledger \in Seq(Events) BY DEF IInv, Types
<1>3. CASE To(p, "refused") /\ UNCHANGED <<files, history, faults>>
  <2>1. /\ run' \in [Procs -> Runs] /\ run'[p].step = "refused"
        /\ run'[p].no = run[p].no /\ run'[p].code = run[p].code /\ run'[p].slot = run[p].slot
        /\ \A q \in Procs : q # p => run'[q] = run[q]
    BY <1>3, Moved DEF IInv, Steps
  <2>2. UNCHANGED <<ledger, lock, marker, started, begun, exposed, met>>
    BY <1>3 DEF files, history
  <2>3. Holding(p)' BY <1>1, <2>1, <2>2 DEF Holding
  <2>4. Proper(p)' BY <1>1, <2>1 DEF Proper
  <2>5. Announced(p)' BY <1>0, <1>1, <2>1, <2>2 DEF RunInv, Announced
  <2>6. Attempted(p)' BY <2>1 DEF Attempted
  <2>7. Passed(p)' BY <1>0, <1>1, <2>1, <2>2 DEF RunInv, Passed
  <2>8. RunInv(p)' BY <2>3, <2>4, <2>5, <2>6, <2>7 DEF RunInv
  <2>. QED BY <1>1, <2>1, <2>2, <2>8, QuietKeeps
<1>4. CASE ~(To(p, "refused") /\ UNCHANGED <<files, history, faults>>)
  <2>1. /\ MayBegin(r, run[p].copy) /\ Append_(p, e, "begun")
        /\ begun' = begun \cup {r.no}
    BY <1>4 DEF Begin
  <2>2. r \in Runs /\ r.no = run[p].no /\ r.code = run[p].code /\ r.slot = run[p].slot
    BY <1>2, AttemptCounts DEF Runs
  <2>. HIDE DEF r
  <2>3. /\ e \in Events /\ IsStart(e)
        /\ e.slot = r.slot /\ e.code = r.code /\ e.attempt \in Nat
    BY <1>1, <2>2 DEF Event, Events, Runs, IsStart
  <2>. HIDE DEF e
  <2>4. /\ ledger' = Append(ledger, e)
        /\ run' = [run EXCEPT ![p].step = "begun", ![p].copy = <<>>, ![p].attempt = e.attempt]
        /\ UNCHANGED <<lock, marker, started, exposed, met>>
    BY <1>1, <2>1 DEF Append_
  <2>5. /\ run' \in [Procs -> Runs] /\ run'[p].step = "begun"
        /\ run'[p].no = run[p].no /\ run'[p].code = run[p].code /\ run'[p].slot = run[p].slot
        /\ \A q \in Procs : q # p => run'[q] = run[q]
    <3>. DEFINE n == [run[p] EXCEPT !.step = "begun", !.copy = <<>>, !.attempt = e.attempt]
    <3>1. <<>> \in Seq(Events) OBVIOUS
    <3>2. n \in Runs BY <1>2, <2>3, <3>1 DEF Runs, Steps
    <3>3. run' = [run EXCEPT ![p] = n] BY <2>4 DEF IInv, Types
    <3>4. run'[p] = n BY <3>2, <3>3, NewRecord DEF IInv
    <3>5. /\ run'[p].step = "begun" /\ run'[p].no = run[p].no /\ run'[p].code = run[p].code
          /\ run'[p].slot = run[p].slot
      BY <1>2, <3>4 DEF Runs
    <3>. QED BY <3>2, <3>3, <3>5, NewRecord DEF IInv
  <2>6. /\ ledger' \in Seq(Events) /\ ledger' # <<>> /\ StartsKept
        /\ \A i \in Starts' : \/ i \in Starts /\ ledger'[i] = ledger[i]
                              \/ ledger'[i] = e
        /\ \E i \in Starts' : ledger'[i] = e
    BY <2>3, <2>4, Grown DEF IInv
  <2>7. RunInv(p)'
    <3>1. Holding(p)' BY <1>1, <2>4, <2>5 DEF Holding
    <3>2. Proper(p)' BY <1>1, <2>5 DEF Proper
    <3>3. Announced(p)' BY <1>0, <1>1, <2>4, <2>5 DEF RunInv, Announced
    <3>4. StartOf(run[p].slot)' BY <2>2, <2>3, <2>5, <2>6 DEF StartOf
    <3>5. Attempted(p)' BY <2>1, <2>2, <2>5, <3>4 DEF Attempted
    <3>6. Passed(p)'
      <4>1. \A m \in begun : m # run[p].no => {m, run[p].no} \in met
        BY <1>0, <1>1 DEF RunInv, Passed
      <4>2. begun' = begun \cup {run[p].no} /\ met' = met BY <2>1, <2>2, <2>4
      <4>. QED BY <2>5, <4>1, <4>2 DEF Passed
    <3>. QED BY <3>1, <3>2, <3>3, <3>5, <3>6 DEF RunInv
  <2>8. (\A q \in Procs : RunInv(q)') /\ Together'
    BY <1>1, <2>1, <2>2, <2>4, <2>5, <2>6, <2>7, StepKeeps
  <2>9. Histories'
    <3>1. SlotSpentOnce'
      <4>. SUFFICES ASSUME NEW i \in Starts', NEW j \in Starts',
                           ledger'[i].slot = ledger'[j].slot
                    PROVE  ledger'[i].code = ledger'[j].code
        BY DEF SlotSpentOnce
      <4>1. SlotSpentOnce /\ MayBegin(r, ledger) BY <1>1, <2>1 DEF IInv, Histories
      <4>2. \A k \in Starts : ledger[k].slot = r.slot => ledger[k].code = r.code
        BY <4>1, SlotHasCode
      <4>. QED BY <2>3, <2>6, <4>1, <4>2 DEF SlotSpentOnce
    <3>2. ExposureIsAnnounced'
      <4>1. ASSUME NEW x \in exposed PROVE \E i \in Starts' : ledger'[i].slot = x[2]
        BY <2>6 DEF IInv, Histories, ExposureIsAnnounced, StartsKept
      <4>. QED BY <2>4, <4>1 DEF IInv, Histories, ExposureIsAnnounced
    <3>3. RerunOnlyTogether'
      <4>1. \A m \in begun : m # run[p].no => {m, run[p].no} \in met
        BY <1>0, <1>1 DEF RunInv, Passed
      <4>2. \A m, n \in begun' : m # n => {m, n} \in met'
        BY <2>1, <2>2, <2>4, <4>1 DEF IInv, Histories, RerunOnlyTogether
      <4>3. \A x \in exposed' : x[1] \in begun'
        BY <2>1, <2>4 DEF IInv, Histories, RerunOnlyTogether
      <4>. QED BY <4>2, <4>3 DEF RerunOnlyTogether
    <3>. QED BY <2>6, <3>1, <3>2, <3>3 DEF Histories
  <2>10. Types' BY <2>4, <2>5, <2>6 DEF IInv, Types
  <2>. QED BY <2>8, <2>9, <2>10 DEF IInv
<1>. QED BY <1>3, <1>4

LEMMA FinishKeeps ==
  ASSUME IInv, NEW p \in Procs, Finish(p)
  PROVE  IInv'
<1>. DEFINE e == Event(run[p], run[p].status)
<1>0. RunInv(p) BY DEF IInv
<1>1. /\ run[p].step = "finish locked" /\ lock = p /\ run[p].copy = ledger
      /\ run[p].no # 0 /\ run[p].code \in Codes /\ run[p].status \in {"PASS", "INTERRUPTED"}
  BY <1>0 DEF Finish, At, RunInv, Holding, Proper
<1>2. run[p] \in Runs BY DEF IInv, Types
<1>3. e \in Events /\ ~IsStart(e) /\ e.attempt \in Nat
  BY <1>1, <1>2 DEF Event, Events, Runs, Statuses, IsStart
<1>. HIDE DEF e
<1>4. /\ ledger' = Append(ledger, e)
      /\ run' = [run EXCEPT ![p].step = "finished", ![p].copy = <<>>, ![p].attempt = e.attempt]
      /\ UNCHANGED <<lock, marker, started, exposed, met, begun>>
  BY <1>1 DEF Finish, Append_, e
<1>5. /\ run' \in [Procs -> Runs] /\ run'[p].step = "finished"
      /\ run'[p].no = run[p].no /\ run'[p].code = run[p].code /\ run'[p].slot = run[p].slot
      /\ run'[p].status = run[p].status
      /\ \A q \in Procs : q # p => run'[q] = run[q]
  <2>. DEFINE n == [run[p] EXCEPT !.step = "finished", !.copy = <<>>, !.attempt = e.attempt]
  <2>1. <<>> \in Seq(Events) OBVIOUS
  <2>2. n \in Runs BY <1>2, <1>3, <2>1 DEF Runs, Steps
  <2>3. run' = [run EXCEPT ![p] = n] BY <1>4 DEF IInv, Types
  <2>4. run'[p] = n BY <2>2, <2>3, NewRecord DEF IInv
  <2>5. /\ run'[p].step = "finished" /\ run'[p].no = run[p].no /\ run'[p].code = run[p].code
        /\ run'[p].slot = run[p].slot /\ run'[p].status = run[p].status
    BY <1>2, <2>4 DEF Runs
  <2>. QED BY <2>2, <2>3, <2>5, NewRecord DEF IInv
<1>6. /\ ledger' \in Seq(Events) /\ ledger' # <<>> /\ StartsKept
      /\ \A i \in Starts' : i \in Starts /\ ledger'[i] = ledger[i]
  BY <1>3, <1>4, Grown DEF IInv
<1>7. RunInv(p)'
  <2>1. Holding(p)' BY <1>1, <1>4, <1>5 DEF Holding
  <2>2. Proper(p)' BY <1>1, <1>5 DEF Proper
  <2>3. Announced(p)' BY <1>0, <1>1, <1>4, <1>5 DEF RunInv, Announced
  <2>4. Attempted(p)' BY <1>5 DEF Attempted
  <2>5. Passed(p)'
    <3>1. \A m \in begun : m # run[p].no => {m, run[p].no} \in met
      BY <1>0, <1>1 DEF RunInv, Passed
    <3>2. begun' = begun /\ met' = met BY <1>4
    <3>. QED BY <1>5, <3>1, <3>2 DEF Passed
  <2>. QED BY <2>1, <2>2, <2>3, <2>4, <2>5 DEF RunInv
<1>8. (\A q \in Procs : RunInv(q)') /\ Together'
  BY <1>1, <1>4, <1>5, <1>6, <1>7, StepKeeps
<1>9. Histories'
  <2>1. SlotSpentOnce' BY <1>6 DEF IInv, Histories, SlotSpentOnce
  <2>2. ExposureIsAnnounced'
    <3>1. ASSUME NEW x \in exposed PROVE \E i \in Starts' : ledger'[i].slot = x[2]
      BY <1>6 DEF IInv, Histories, ExposureIsAnnounced, StartsKept
    <3>. QED BY <1>4, <3>1 DEF IInv, Histories, ExposureIsAnnounced
  <2>3. RerunOnlyTogether' BY <1>4 DEF IInv, Histories, RerunOnlyTogether
  <2>. QED BY <1>6, <2>1, <2>2, <2>3 DEF Histories
<1>10. Types' BY <1>4, <1>5, <1>6 DEF IInv, Types
<1>. QED BY <1>8, <1>9, <1>10 DEF IInv

\* A move among the steps between the start of an attempt and its evaluation, or
\* from the failure file to its end.
LEMMA MarkerMoveKeeps ==
  ASSUME IInv, NEW p \in Procs, NEW s \in {"marker open", "marker rename"}, To(p, s),
         run[p].step \in {"marker", "marker open"},
         UNCHANGED <<ledger, lock, marker, started, begun, exposed, met>>
  PROVE  IInv'
<1>1. /\ run' \in [Procs -> Runs] /\ run'[p].step = s
      /\ run'[p].no = run[p].no /\ run'[p].code = run[p].code /\ run'[p].slot = run[p].slot
      /\ \A q \in Procs : q # p => run'[q] = run[q]
  BY Moved DEF IInv, Steps
<1>2. RunInv(p) BY DEF IInv
<1>3. Holding(p)' BY <1>1 DEF Holding
<1>4. Proper(p)' BY <1>1, <1>2 DEF RunInv, Proper
<1>5. Announced(p)' BY <1>1, <1>2 DEF RunInv, Announced
<1>6. Attempted(p)'
  <2>1. run[p].no \in begun /\ StartOf(run[p].slot) BY <1>2 DEF RunInv, Attempted
  <2>. QED BY <1>1, <2>1 DEF Attempted, StartOf, Starts, IsStart
<1>7. Passed(p)' BY <1>1, <1>2 DEF RunInv, Passed
<1>8. RunInv(p)' BY <1>3, <1>4, <1>5, <1>6, <1>7 DEF RunInv
<1>. QED BY <1>1, <1>8, QuietKeeps

LEMMA WriteFailureKeeps ==
  ASSUME IInv, NEW p \in Procs, WriteFailure(p)
  PROVE  IInv'
<1>0. RunInv(p) BY DEF IInv
<1>1. /\ run[p].step = "failing" /\ run[p].status = "INTERRUPTED"
      /\ UNCHANGED <<ledger, lock, marker, started, begun, exposed, met>>
  BY <1>0 DEF WriteFailure, At, history, RunInv, Proper
<1>2. CASE End(p) BY <1>1, <1>2, EndKeeps
<1>3. CASE To(p, "finish")
  <2>1. /\ run' \in [Procs -> Runs] /\ run'[p].step = "finish"
        /\ run'[p].no = run[p].no /\ run'[p].code = run[p].code /\ run'[p].slot = run[p].slot
        /\ run'[p].status = run[p].status
        /\ \A q \in Procs : q # p => run'[q] = run[q]
    BY <1>3, Moved DEF IInv, Steps
  <2>2. Holding(p)' BY <2>1 DEF Holding
  <2>3. Proper(p)' BY <1>0, <1>1, <2>1 DEF RunInv, Proper
  <2>4. Announced(p)' BY <1>0, <1>1, <2>1 DEF RunInv, Announced
  <2>5. Attempted(p)' BY <2>1 DEF Attempted
  <2>6. Passed(p)' BY <1>0, <1>1, <2>1 DEF RunInv, Passed
  <2>7. RunInv(p)' BY <2>2, <2>3, <2>4, <2>5, <2>6 DEF RunInv
  <2>. QED BY <1>1, <2>1, <2>7, QuietKeeps
<1>. QED BY <1>2, <1>3 DEF WriteFailure

LEMMA MarkerRenameKeeps ==
  ASSUME IInv, NEW p \in Procs, MarkerRename(p)
  PROVE  IInv'
<1>0. RunInv(p) BY DEF IInv
<1>1. /\ run[p].step = "marker rename" /\ run[p].no # 0 /\ run[p].code \in Codes
      /\ run[p].no \in begun /\ StartOf(run[p].slot)
  BY <1>0 DEF MarkerRename, At, RunInv, Proper, Attempted
<1>2. /\ marker' = run[p].no /\ To(p, "evaluate")
      /\ UNCHANGED <<ledger, lock, started, begun, exposed, met>>
  BY DEF MarkerRename, history
<1>3. /\ run' \in [Procs -> Runs] /\ run'[p].step = "evaluate"
      /\ run'[p].no = run[p].no /\ run'[p].code = run[p].code /\ run'[p].slot = run[p].slot
      /\ \A q \in Procs : q # p => run'[q] = run[q]
  BY <1>2, Moved DEF IInv, Steps
<1>4. RunInv(p)'
  <2>1. Holding(p)' BY <1>3 DEF Holding
  <2>2. Proper(p)' BY <1>1, <1>3 DEF Proper
  <2>3. Announced(p)' BY <1>1, <1>2, <1>3 DEF Announced
  <2>4. Attempted(p)' BY <1>1, <1>2, <1>3 DEF Attempted, StartOf, Starts, IsStart
  <2>5. Passed(p)' BY <1>0, <1>1, <1>2, <1>3 DEF RunInv, Passed
  <2>. QED BY <2>1, <2>2, <2>3, <2>4, <2>5 DEF RunInv
<1>5. StartsKept BY <1>2, SameLedger
<1>6. (\A q \in Procs : RunInv(q)') /\ Together'
  BY <1>1, <1>2, <1>3, <1>4, <1>5, StepKeeps
<1>7. Histories' BY <1>1, <1>2, HistoriesKept
<1>8. Types' BY <1>2, <1>3 DEF IInv, Types
<1>. QED BY <1>6, <1>7, <1>8 DEF IInv

LEMMA EvaluateKeeps ==
  ASSUME IInv, NEW p \in Procs, Evaluate(p)
  PROVE  IInv'
<1>0. RunInv(p) BY DEF IInv
<1>1. /\ run[p].step = "evaluate" /\ run[p].no # 0 /\ run[p].code \in Codes
      /\ run[p].no \in begun /\ StartOf(run[p].slot) /\ marker # 0
  BY <1>0 DEF Evaluate, At, RunInv, Proper, Attempted, Announced
<1>2. /\ UNCHANGED <<ledger, lock, marker, started, begun, met>>
      /\ exposed' = exposed \/ exposed' = exposed \cup {<<run[p].no, run[p].slot>>}
  BY DEF Evaluate, files
<1>3. PICK n \in {0, 1}, s \in {<<"finish", "PASS", None>>,
                                 <<"failing", "INTERRUPTED", "error">>} :
        run' = [run EXCEPT ![p].step = s[1], ![p].status = s[2], ![p].why = s[3],
                           ![p].rows = n]
  BY DEF Evaluate
<1>4. /\ run' \in [Procs -> Runs]
      /\ run'[p].step \in {"finish", "failing"} /\ run'[p].status \in {"PASS", "INTERRUPTED"}
      /\ run'[p].step = "failing" => run'[p].status = "INTERRUPTED"
      /\ run'[p].no = run[p].no /\ run'[p].code = run[p].code /\ run'[p].slot = run[p].slot
      /\ \A q \in Procs : q # p => run'[q] = run[q]
  <2>. DEFINE r == [run[p] EXCEPT !.step = s[1], !.status = s[2], !.why = s[3], !.rows = n]
  <2>1. run[p] \in Runs BY DEF IInv, Types
  <2>2. /\ s[1] \in {"finish", "failing"} /\ s[2] \in {"PASS", "INTERRUPTED"}
        /\ s[1] = "failing" => s[2] = "INTERRUPTED"
        /\ s[3] \in Whys /\ n \in Nat
    BY DEF Whys
  <2>3. r \in Runs BY <2>1, <2>2 DEF Runs, Steps, Statuses
  <2>4. run' = [run EXCEPT ![p] = r] BY <1>3 DEF IInv, Types
  <2>5. run'[p] = r BY <2>3, <2>4, NewRecord DEF IInv
  <2>6. /\ run'[p].step = s[1] /\ run'[p].status = s[2]
        /\ run'[p].no = run[p].no /\ run'[p].code = run[p].code /\ run'[p].slot = run[p].slot
    BY <2>1, <2>5 DEF Runs
  <2>. QED BY <2>2, <2>3, <2>4, <2>6, NewRecord DEF IInv
<1>5. RunInv(p)'
  <2>1. Holding(p)' BY <1>4 DEF Holding
  <2>2. Proper(p)' BY <1>1, <1>4 DEF Proper
  <2>3. Announced(p)' BY <1>1, <1>2, <1>4 DEF Announced
  <2>4. Attempted(p)' BY <1>4 DEF Attempted
  <2>5. Passed(p)' BY <1>0, <1>1, <1>2, <1>4 DEF RunInv, Passed
  <2>. QED BY <2>1, <2>2, <2>3, <2>4, <2>5 DEF RunInv
<1>6. StartsKept BY <1>2, SameLedger
<1>7. (\A q \in Procs : RunInv(q)') /\ Together' BY <1>1, <1>2, <1>4, <1>5, <1>6, StepKeeps
<1>8. Histories'
  <2>1. SlotSpentOnce' BY <1>2 DEF IInv, Histories, SlotSpentOnce, Starts, IsStart
  <2>2. ASSUME NEW x \in exposed'
        PROVE  x[1] \in begun /\ \E i \in Starts : ledger[i].slot = x[2]
    <3>1. CASE x \in exposed
      BY <3>1 DEF IInv, Histories, RerunOnlyTogether, ExposureIsAnnounced
    <3>2. CASE x = <<run[p].no, run[p].slot>> BY <1>1, <3>2 DEF StartOf
    <3>. QED BY <1>2, <3>1, <3>2
  <2>3. ExposureIsAnnounced' BY <1>1, <1>2, <2>2 DEF ExposureIsAnnounced, Starts, IsStart
  <2>4. RerunOnlyTogether' BY <1>2, <2>2 DEF IInv, Histories, RerunOnlyTogether
  <2>. QED BY <1>2, <2>1, <2>3, <2>4 DEF IInv, Histories
<1>9. Types' BY <1>2, <1>4 DEF IInv, Types
<1>. QED BY <1>7, <1>8, <1>9 DEF IInv

LEMMA MarkerLookKeeps ==
  ASSUME IInv, NEW p \in Procs, MarkerLook(p)
  PROVE  IInv'
<1>1. /\ run[p].step = "marker"
      /\ UNCHANGED <<ledger, lock, marker, started, begun, exposed, met>>
  BY DEF MarkerLook, At, files, history
<1>2. CASE Fail(p, "conflict")
  <2>1. "conflict" \in Whys BY DEF Whys
  <2>. QED BY <1>1, <1>2, <2>1, FailKeeps
<1>3. CASE To(p, "marker open") BY <1>1, <1>3, MarkerMoveKeeps
<1>. QED BY <1>2, <1>3 DEF MarkerLook

LEMMA MarkerOpenKeeps ==
  ASSUME IInv, NEW p \in Procs, MarkerOpen(p)
  PROVE  IInv'
<1>1. /\ run[p].step = "marker open"
      /\ UNCHANGED <<ledger, lock, marker, started, begun, exposed, met>>
  BY DEF MarkerOpen, At, history
<1>2. CASE Fail(p, "error")
  <2>1. "error" \in Whys BY DEF Whys
  <2>. QED BY <1>1, <1>2, <2>1, FailKeeps
<1>3. CASE To(p, "marker rename") BY <1>1, <1>3, MarkerMoveKeeps
<1>. QED BY <1>2, <1>3 DEF MarkerOpen

LEMMA FinishBusyKeeps ==
  ASSUME IInv, NEW p \in Procs, FinishBusy(p)
  PROVE  IInv'
<1>1. /\ run[p].step = "finish"
      /\ UNCHANGED <<ledger, lock, marker, started, begun, exposed, met>>
  BY DEF FinishBusy, At, files, history
<1>2. CASE Fail(p, "busy")
  <2>1. "busy" \in Whys BY DEF Whys
  <2>. QED BY <1>1, <1>2, <2>1, FailKeeps
<1>3. CASE End(p) BY <1>1, <1>3, EndKeeps
<1>. QED BY <1>2, <1>3 DEF FinishBusy

LEMMA BusyKeeps ==
  ASSUME IInv, NEW p \in Procs, Busy(p, "begin", "idle")
  PROVE  IInv'
<1>1. /\ run[p].step = "begin" /\ End(p)
      /\ UNCHANGED <<ledger, lock, marker, started, begun, exposed, met>>
  BY DEF Busy, At, files, history
<1>. QED BY <1>1, EndKeeps

LEMMA TurnKeeps ==
  ASSUME IInv, NEW p \in Procs, Turn(p)
  PROVE  IInv'
<1>0. RunInv(p) BY DEF IInv
<1>1. /\ run[p].step = "turn"
      /\ UNCHANGED <<ledger, lock, marker, started, begun, exposed, met>>
  BY DEF Turn, At, files, history
<1>2. CASE End(p) BY <1>1, <1>2, EndKeeps
<1>3. CASE ~End(p)
  <2>. DEFINE r == [run[p] EXCEPT !.step = "begin", !.slot = @ + 1, !.rows = 0,
                                  !.status = None, !.why = None]
  <2>0. run[p].status # "INTERRUPTED" BY <1>3 DEF Turn
  <2>1. run[p] \in Runs BY DEF IInv, Types
  <2>2. r \in Runs
    <3>1. "begin" \in Steps /\ None \in Statuses /\ None \in Whys BY DEF Steps, Statuses, Whys
    <3>2. run[p].slot + 1 \in Nat /\ 0 \in Nat BY <2>1 DEF Runs
    <3>. QED BY <2>1, <3>1, <3>2 DEF Runs
  <2>3. run' = [run EXCEPT ![p] = r] BY <1>3 DEF Turn, IInv, Types
  <2>4. /\ run' \in [Procs -> Runs] /\ run'[p] = r
        /\ \A q \in Procs : q # p => run'[q] = run[q]
    BY <2>2, <2>3, NewRecord DEF IInv
  <2>5. /\ run'[p].step = "begin" /\ run'[p].no = run[p].no /\ run'[p].code = run[p].code
    BY <2>1, <2>4 DEF Runs
  <2>6. marker # 0 BY <1>0, <1>1, <2>0 DEF RunInv, Announced
  <2>7. Holding(p)' BY <2>5 DEF Holding
  <2>8. Proper(p)' BY <1>0, <1>1, <2>5 DEF RunInv, Proper
  <2>9. Announced(p)' BY <1>1, <2>5, <2>6 DEF Announced
  <2>10. Attempted(p)' BY <2>5 DEF Attempted
  <2>11. Passed(p)'
    <3>1. \A m \in begun : m # run[p].no => {m, run[p].no} \in met
      BY <1>0, <1>1 DEF RunInv, Passed
    <3>. QED BY <1>1, <2>5, <3>1 DEF Passed
  <2>12. RunInv(p)' BY <2>7, <2>8, <2>9, <2>10, <2>11 DEF RunInv
  <2>. QED BY <1>1, <2>4, <2>5, <2>12, QuietKeeps
<1>. QED BY <1>2, <1>3

LEMMA KillKeeps ==
  ASSUME IInv, NEW p \in Procs, Kill(p)
  PROVE  IInv'
<1>1. /\ run[p].step # "idle" /\ End(p) /\ (lock = p \/ lock' = lock)
      /\ UNCHANGED <<ledger, marker, started, begun, exposed, met>>
  BY DEF Kill, At, history
<1>. QED BY <1>1, EndKeeps

LEMMA RecoverLockKeeps ==
  ASSUME IInv, RecoverLock
  PROVE  IInv'
<1>1. /\ lock \notin Procs
      /\ UNCHANGED <<ledger, marker, run, started, begun, exposed, met>>
  BY TrialsAssumption DEF RecoverLock, history
<1>2. ASSUME NEW p \in Procs PROVE RunInv(p)'
  <2>1. RunInv(p) BY DEF IInv
  <2>2. Holding(p)' BY <1>1, <2>1 DEF RunInv, Holding
  <2>3. Proper(p)' BY <1>1, <2>1 DEF RunInv, Proper
  <2>4. Announced(p)' BY <1>1, <2>1 DEF RunInv, Announced
  <2>5. Attempted(p)' BY <1>1, <2>1 DEF RunInv, Attempted, StartOf, Starts, IsStart
  <2>6. Passed(p)' BY <1>1, <2>1 DEF RunInv, Passed
  <2>. QED BY <2>2, <2>3, <2>4, <2>5, <2>6 DEF RunInv
<1>3. Together' BY <1>1 DEF IInv, Together
<1>4. Histories' BY <1>1, HistoriesKept
<1>5. Types' BY <1>1 DEF IInv, Types
<1>. QED BY <1>2, <1>3, <1>4, <1>5 DEF IInv

LEMMA StartKeeps ==
  ASSUME IInv, NEW p \in Procs, Start(p)
  PROVE  IInv'
<1>1. /\ run[p].step = "idle" /\ started \in Nat /\ started' = started + 1
      /\ met' = met \cup {{started + 1, run[q].no} : q \in Active}
      /\ UNCHANGED <<ledger, lock, marker, begun, exposed>>
  BY DEF Start, At, files, IInv, Types
<1>2. PICK c \in Codes :
        run' = [run EXCEPT ![p] = [Idle EXCEPT !.step = "enter", !.no = started + 1,
                                     !.code = c, !.slot = 1]]
  BY DEF Start
<1>. DEFINE r == [Idle EXCEPT !.step = "enter", !.no = started + 1, !.code = c, !.slot = 1]
<1>3. /\ r \in Runs /\ r.step = "enter" /\ r.no = started + 1 /\ r.code = c /\ r.slot = 1
  <2>1. Idle \in Runs BY IdleRun
  <2>2. "enter" \in Steps /\ started + 1 \in Nat BY <1>1 DEF Steps
  <2>. QED BY <2>1, <2>2 DEF Runs
<1>4. /\ run' \in [Procs -> Runs] /\ run'[p] = r
      /\ \A q \in Procs : q # p => run'[q] = run[q]
  BY <1>2, <1>3, NewRecord DEF IInv
<1>. HIDE DEF r
<1>5. StartsKept BY <1>1, SameLedger
<1>6. ASSUME NEW q \in Procs, q # p PROVE RunInv(q)'
  BY <1>1, <1>4, <1>5, <1>6, OthersKept
<1>7. RunInv(p)'
  <2>1. run'[p].step = "enter" /\ run'[p].no = started + 1 /\ run'[p].code \in Codes
        /\ run'[p].slot = 1
    BY <1>3, <1>4
  <2>2. Holding(p)' BY <2>1 DEF Holding
  <2>3. Proper(p)' BY <1>1, <2>1 DEF Proper
  <2>4. Announced(p)' BY <2>1 DEF Announced
  <2>5. Attempted(p)' BY <2>1 DEF Attempted
  <2>6. Passed(p)' BY <2>1 DEF Passed
  <2>. QED BY <2>2, <2>3, <2>4, <2>5, <2>6 DEF RunInv
<1>8. Together'
  <2>1. ASSUME NEW q \in Procs, q # p, run'[q].step # "idle"
        PROVE  {run'[p].no, run'[q].no} \in met'
    <3>1. q \in Active BY <1>4, <2>1 DEF Active, At
    <3>2. run'[p].no = started + 1 /\ run'[q].no = run[q].no BY <1>3, <1>4, <2>1
    <3>. QED BY <1>1, <3>1, <3>2
  <2>2. ASSUME NEW q \in Procs, NEW u \in Procs, q # u, q # p, u # p,
               run'[q].step # "idle", run'[u].step # "idle"
        PROVE  {run'[q].no, run'[u].no} \in met'
    BY <1>1, <1>4, <2>2 DEF IInv, Together
  <2>3. ASSUME NEW q \in Procs, q # p, run'[q].step # "idle"
        PROVE  {run'[q].no, run'[p].no} \in met'
    <3>1. {run'[q].no, run'[p].no} = {run'[p].no, run'[q].no} OBVIOUS
    <3>. QED BY <2>1, <2>3, <3>1
  <2>. QED BY <2>1, <2>2, <2>3 DEF Together
<1>9. Histories' BY <1>1, HistoriesKept
<1>10. Types' BY <1>1, <1>4 DEF IInv, Types
<1>. QED BY <1>6, <1>7, <1>8, <1>9, <1>10 DEF IInv

LEMMA NextKeeps == IInv /\ [Next]_vars => IInv'
<1>. SUFFICES ASSUME IInv, [Next]_vars PROVE IInv' OBVIOUS
<1>1. CASE UNCHANGED vars
  <2>1. UNCHANGED <<ledger, lock, marker, run, started, begun, exposed, met>>
    BY <1>1 DEF vars, files, history
  <2>2. ASSUME NEW p \in Procs PROVE RunInv(p)'
    <3>1. RunInv(p) BY DEF IInv
    <3>. QED BY <2>1, <3>1 DEF RunInv, Holding, Proper, Announced, Attempted, StartOf,
                               Starts, IsStart, Passed
  <2>3. Together' BY <2>1 DEF IInv, Together
  <2>4. Histories' BY <2>1, HistoriesKept
  <2>5. Types' BY <2>1 DEF IInv, Types
  <2>. QED BY <2>2, <2>3, <2>4, <2>5 DEF IInv
<1>2. ASSUME NEW p \in Procs,
             \/ Start(p) \/ Enter(p) \/ Begin(p) \/ MarkerLook(p) \/ MarkerOpen(p)
             \/ MarkerRename(p) \/ Evaluate(p) \/ WriteFailure(p) \/ FinishBusy(p)
             \/ Finish(p) \/ Turn(p) \/ Kill(p)
      PROVE  IInv'
  BY <1>2, StartKeeps, EnterKeeps, BeginKeeps, MarkerLookKeeps, MarkerOpenKeeps,
     MarkerRenameKeeps, EvaluateKeeps, WriteFailureKeeps, FinishBusyKeeps, FinishKeeps,
     TurnKeeps, KillKeeps
<1>3. ASSUME NEW p \in Procs, Acquire(p, "begin", "begin locked") PROVE IInv'
  BY <1>3, AcquireKeeps DEF Steps
<1>4. ASSUME NEW p \in Procs, Acquire(p, "finish", "finish locked") PROVE IInv'
  BY <1>4, AcquireKeeps DEF Steps
<1>5. ASSUME NEW p \in Procs, Busy(p, "begin", "idle") PROVE IInv'
  BY <1>5, BusyKeeps
<1>6. ASSUME NEW p \in Procs, Unlock(p, "begun", AfterBegin(p)) PROVE IInv'
  <2>1. AfterBegin(p) \in {"idle", "marker", "evaluate", "turn"} BY DEF AfterBegin
  <2>. QED BY <1>6, <2>1, UnlockKeeps
<1>7. ASSUME NEW p \in Procs, Unlock(p, "refused", "idle") PROVE IInv'
  BY <1>7, UnlockKeeps
<1>8. ASSUME NEW p \in Procs, Unlock(p, "finished", "turn") PROVE IInv'
  BY <1>8, UnlockKeeps
<1>9. CASE RecoverLock BY <1>9, RecoverLockKeeps
<1>. QED BY <1>1, <1>2, <1>3, <1>4, <1>5, <1>6, <1>7, <1>8, <1>9 DEF Next

LEMMA Invariance == Spec => []IInv
  BY InitInv, NextKeeps, PTL DEF Spec

-----------------------------------------------------------------------------
(* The theorems. *)

\* Changed code never gets fresh evidence from a slot that was used (begin),
\* however runs overlap and die, and whoever removes a dead writer's lock.
THEOREM SpentOnce == Spec => []SlotSpentOnce
<1>1. IInv => SlotSpentOnce BY DEF IInv, Histories
<1>. QED BY <1>1, Invariance, PTL

\* The attempt and the marker are on disk before the strategy sees a price
\* (execute).
THEOREM Announcement == Spec => []ExposureIsAnnounced
<1>1. IInv => ExposureIsAnnounced BY DEF IInv, Histories
<1>. QED BY <1>1, Invariance, PTL

\* Two runs have begun attempts only if both were active at once (main, execute).
THEOREM NoSilentRerun == Spec => []RerunOnlyTogether
<1>1. IInv => RerunOnlyTogether BY DEF IInv, Histories
<1>. QED BY <1>1, Invariance, PTL

-----------------------------------------------------------------------------
(* The chain of events. *)

\* An event that continues a sound chain.
LEMMA GrownSound ==
  ASSUME Types, LedgerSound, NEW e \in Events, ledger' = Append(ledger, e),
         IsStart(e) =>
           e.attempt = 1 + Cardinality({j \in Starts : ledger[j].slot = e.slot
                                                        /\ ledger[j].code = e.code}),
         ~IsStart(e) =>
           /\ \E j \in Starts : SameAttempt(ledger[j], e) /\ ledger[j].rows <= e.rows
           /\ \A j \in DOMAIN ledger \ Starts : ~SameAttempt(ledger[j], e)
  PROVE  LedgerSound'
<1>. DEFINE n == Len(ledger) + 1
<1>1. ledger \in Seq(Events) BY DEF Types
<1>2. /\ ledger' \in Seq(Events) /\ Len(ledger) \in Nat
      /\ DOMAIN ledger' = 1 .. n /\ DOMAIN ledger = 1 .. Len(ledger)
      /\ \A i \in 1 .. Len(ledger) : ledger'[i] = ledger[i] /\ i < n /\ ~(n < i)
      /\ ledger'[n] = e /\ \A i \in 1 .. n : i = n \/ i \in 1 .. Len(ledger)
  BY <1>1
<1>. HIDE DEF n
<1>3. /\ \A i \in Starts' : i = n \/ i \in Starts
      /\ \A i \in Starts : i \in Starts' /\ i \in DOMAIN ledger
      /\ n \in Starts' <=> IsStart(e)
      /\ n \notin DOMAIN ledger /\ n \in DOMAIN ledger'
  <2>1. n \notin DOMAIN ledger /\ n \in DOMAIN ledger'
    <3>. USE DEF n
    <3>. QED BY <1>2
  <2>2. Starts' = {i \in 1 .. n : IsStart(ledger'[i])} BY <1>2 DEF Starts, IsStart
  <2>3. Starts = {i \in 1 .. Len(ledger) : IsStart(ledger[i])} BY <1>2 DEF Starts
  <2>4. \A i \in 1 .. Len(ledger) : i \in 1 .. n
    <3>. USE DEF n
    <3>. QED BY <1>2
  <2>. QED BY <1>2, <2>1, <2>2, <2>3, <2>4
<1>4. ASSUME NEW i \in Starts
      PROVE  {j \in Starts' : j < i /\ ledger'[j].slot = ledger'[i].slot
                                /\ ledger'[j].code = ledger'[i].code}
               = {j \in Starts : j < i /\ ledger[j].slot = ledger[i].slot
                                /\ ledger[j].code = ledger[i].code}
  BY <1>2, <1>3
<1>5. ASSUME n \in Starts'
      PROVE  {j \in Starts' : j < n /\ ledger'[j].slot = ledger'[n].slot
                                /\ ledger'[j].code = ledger'[n].code}
               = {j \in Starts : ledger[j].slot = e.slot /\ ledger[j].code = e.code}
  <2>1. ~(n < n)
    <3>. USE DEF n
    <3>. QED BY <1>2
  <2>. QED BY <1>2, <1>3, <2>1
<1>6. ASSUME NEW i \in Starts'
      PROVE  ledger'[i].attempt = 1 + Cardinality({j \in Starts' : j < i
                               /\ ledger'[j].slot = ledger'[i].slot
                               /\ ledger'[j].code = ledger'[i].code})
  <2>1. CASE i = n
    <3>. DEFINE S == {j \in Starts' : j < n /\ ledger'[j].slot = ledger'[n].slot
                                /\ ledger'[j].code = ledger'[n].code}
                T == {j \in Starts : ledger[j].slot = e.slot /\ ledger[j].code = e.code}
    <3>1. S = T /\ e.attempt = 1 + Cardinality(T) BY <1>3, <1>5, <1>6, <2>1
    <3>. HIDE DEF S, T
    <3>2. ledger'[n].attempt = 1 + Cardinality(S) BY <1>2, <3>1
    <3>. QED BY <2>1, <3>2 DEF S
  <2>2. CASE i # n
    <3>. DEFINE S == {j \in Starts' : j < i /\ ledger'[j].slot = ledger'[i].slot
                                /\ ledger'[j].code = ledger'[i].code}
                T == {j \in Starts : j < i /\ ledger[j].slot = ledger[i].slot
                                /\ ledger[j].code = ledger[i].code}
    <3>1. i \in Starts /\ ledger'[i] = ledger[i] BY <1>2, <1>3, <1>6, <2>2
    <3>2. S = T BY <1>4, <3>1
    <3>3. ledger[i].attempt = 1 + Cardinality(T) BY <3>1 DEF LedgerSound
    <3>. HIDE DEF S, T
    <3>4. ledger'[i].attempt = 1 + Cardinality(S) BY <3>1, <3>2, <3>3
    <3>. QED BY <3>4 DEF S
  <2>. QED BY <2>1, <2>2
<1>7. ASSUME NEW i \in DOMAIN ledger' \ Starts'
      PROVE  /\ \E j \in Starts' : j < i /\ SameAttempt(ledger'[j], ledger'[i])
                                     /\ ledger'[j].rows <= ledger'[i].rows
             /\ \A j \in DOMAIN ledger' \ Starts' :
                  SameAttempt(ledger'[j], ledger'[i]) => i = j
  <2>1. \A j \in DOMAIN ledger' \ Starts' : j = n \/ j \in DOMAIN ledger \ Starts
    BY <1>2, <1>3
  <2>2. CASE i = n
    <3>1. ~IsStart(e) BY <1>3, <1>7, <2>2
    <3>2. PICK j \in Starts : SameAttempt(ledger[j], e) /\ ledger[j].rows <= e.rows BY <3>1
    <3>3. j \in Starts' /\ j < n /\ ledger'[j] = ledger[j] BY <1>2, <1>3, <3>2
    <3>4. \A k \in DOMAIN ledger \ Starts : ~SameAttempt(ledger'[k], ledger'[n])
      BY <1>2, <3>1
    <3>. QED BY <1>2, <2>1, <2>2, <3>2, <3>3, <3>4
  <2>3. CASE i # n
    <3>1. i \in DOMAIN ledger \ Starts /\ ledger'[i] = ledger[i] BY <1>2, <1>7, <2>1, <2>3
    <3>2. PICK j \in Starts : j < i /\ SameAttempt(ledger[j], ledger[i])
                                /\ ledger[j].rows <= ledger[i].rows
      BY <3>1 DEF LedgerSound
    <3>3. j \in Starts' /\ ledger'[j] = ledger[j] BY <1>2, <1>3, <3>2
    <3>4. ASSUME NEW k \in DOMAIN ledger' \ Starts', SameAttempt(ledger'[k], ledger'[i])
          PROVE  i = k
      <4>1. CASE k = n
        <5>1. ~IsStart(e) BY <1>3, <3>4, <4>1
        <5>2. ~SameAttempt(ledger[i], e) BY <3>1, <5>1
        <5>. QED BY <1>2, <3>1, <3>4, <4>1, <5>2 DEF SameAttempt
      <4>2. CASE k # n
        <5>1. k \in DOMAIN ledger \ Starts /\ ledger'[k] = ledger[k] BY <1>2, <2>1, <3>4, <4>2
        <5>. QED BY <3>1, <3>4, <5>1 DEF LedgerSound
      <4>. QED BY <4>1, <4>2
    <3>. QED BY <3>1, <3>2, <3>3, <3>4
  <2>. QED BY <2>2, <2>3
<1>. QED BY <1>6, <1>7 DEF LedgerSound

LEMMA BeginSound ==
  ASSUME IInv, LedgerSound, NEW p \in Procs, Begin(p)
  PROVE  LedgerSound'
<1>. DEFINE a == NextAttempt(run[p], run[p].copy)
            r == [run[p] EXCEPT !.attempt = a]
            e == Event(r, "ATTEMPT_STARTED")
<1>1. /\ run[p].copy = ledger /\ run[p].code \in Codes
  BY DEF IInv, Begin, At, RunInv, Holding, Proper
<1>2. run[p] \in Runs /\ ledger \in Seq(Events) BY DEF IInv, Types
<1>3. CASE ledger' = ledger BY <1>3 DEF LedgerSound, Starts, IsStart, SameAttempt
<1>4. CASE ledger' # ledger
  <2>1. ledger' = Append(ledger, e) BY <1>1, <1>4 DEF Begin, Append_, files
  <2>2. a \in Nat BY <1>1, <1>2, AttemptCounts
  <2>. DEFINE T == {j \in Starts : ledger[j].slot = run[p].slot /\ ledger[j].code = run[p].code}
  <2>3. a = 1 + Cardinality(T)
    <3>. DEFINE I == {i \in DOMAIN ledger : IsStart(ledger[i]) /\ SameTrial(ledger[i], run[p])}
    <3>1. I = T BY DEF Starts, SameTrial
    <3>. HIDE DEF I, T
    <3>2. a = 1 + Cardinality(I) BY <1>1 DEF NextAttempt, I
    <3>. QED BY <3>1, <3>2
  <2>. HIDE DEF a, T
  <2>4. r \in Runs /\ r.slot = run[p].slot /\ r.code = run[p].code /\ r.attempt = a
    BY <1>2, <2>2 DEF Runs
  <2>. HIDE DEF r
  <2>5. /\ e \in Events /\ IsStart(e)
        /\ e.slot = run[p].slot /\ e.code = run[p].code /\ e.attempt = a
    BY <1>1, <2>4 DEF Event, Events, Runs, IsStart
  <2>. HIDE DEF e
  <2>6. {j \in Starts : ledger[j].slot = e.slot /\ ledger[j].code = e.code} = T
    BY <2>5 DEF T
  <2>7. e.attempt = 1 + Cardinality({j \in Starts : ledger[j].slot = e.slot
                                                     /\ ledger[j].code = e.code})
    BY <2>3, <2>5, <2>6
  <2>. QED BY <2>1, <2>5, <2>7, GrownSound DEF IInv
<1>. QED BY <1>3, <1>4

LEMMA FinishSound ==
  ASSUME IInv, LedgerSound, NEW p \in Procs, Finish(p)
  PROVE  LedgerSound'
<1>. DEFINE e == Event(run[p], run[p].status)
<1>1. /\ run[p].copy = ledger /\ run[p].code \in Codes
      /\ run[p].status \in {"PASS", "INTERRUPTED"}
  BY DEF IInv, Finish, At, RunInv, Holding, Proper
<1>2. run[p] \in Runs BY DEF IInv, Types
<1>3. ledger' = Append(ledger, e) BY <1>1 DEF Finish, Append_
<1>4. /\ e \in Events /\ ~IsStart(e) /\ e.slot = run[p].slot /\ e.code = run[p].code
      /\ e.attempt = run[p].attempt /\ e.rows = run[p].rows
  BY <1>1, <1>2 DEF Event, Events, Runs, Statuses, IsStart
<1>. HIDE DEF e
<1>. DEFINE own == {i \in DOMAIN ledger :
                      SameTrial(ledger[i], run[p]) /\ ledger[i].attempt = run[p].attempt}
<1>5. PICK i \in own : own = {i} /\ IsStart(ledger[i]) /\ ledger[i].rows <= run[p].rows
  BY <1>1 DEF Finish, MayFinish
<1>6. \A j \in DOMAIN ledger : SameAttempt(ledger[j], e) => j \in own
  BY <1>4 DEF SameAttempt, SameTrial
<1>7. i \in Starts /\ SameAttempt(ledger[i], e) /\ ledger[i].rows <= e.rows
  BY <1>4, <1>5 DEF Starts, SameAttempt, SameTrial
<1>. HIDE DEF own
<1>8. \A j \in DOMAIN ledger \ Starts : ~SameAttempt(ledger[j], e) BY <1>5, <1>6, <1>7
<1>. QED BY <1>3, <1>4, <1>7, <1>8, GrownSound DEF IInv

LEMMA NextSound == IInv /\ LedgerSound /\ [Next]_vars => LedgerSound'
<1>. SUFFICES ASSUME IInv, LedgerSound, [Next]_vars PROVE LedgerSound' OBVIOUS
<1>1. CASE ledger' = ledger BY <1>1 DEF LedgerSound, Starts, IsStart, SameAttempt
<1>2. CASE ledger' # ledger
  <2>1. (\E p \in Procs : Begin(p)) \/ (\E p \in Procs : Finish(p))
    BY <1>2
    DEF Next, vars, files, Start, Enter, Acquire, Busy, Unlock, MarkerLook, MarkerOpen,
        MarkerRename, Evaluate, WriteFailure, FinishBusy, Turn, Kill, RecoverLock
  <2>. QED BY <2>1, BeginSound, FinishSound
<1>. QED BY <1>1, <1>2

\* The attempts of a trial are numbered without gaps and each has at most one end,
\* whatever runs were killed or overlapped (TrialLedger.begin, finish, _append).
THEOREM ChainIsSound == Spec => []LedgerSound
<1>1. Init => LedgerSound
  <2>. SUFFICES ASSUME Init PROVE LedgerSound OBVIOUS
  <2>1. DOMAIN ledger = {} BY DEF Init
  <2>. QED BY <2>1 DEF LedgerSound, Starts
<1>. QED BY <1>1, NextSound, Invariance, PTL DEF Spec
=============================================================================
