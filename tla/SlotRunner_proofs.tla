-------------------------- MODULE SlotRunner_proofs --------------------------
(***************************************************************************)
(* For any processes, slots, schedule and length of the day: no run is     *)
(* performed twice, and what a run leaves behind is consistent however the *)
(* runs overlap and die.                                                   *)
(*                                                                         *)
(* The inductive invariant says that a run belongs to one process, the one *)
(* whose claim is durable or, for a manual run, the one it is named after, *)
(* and what a process at each step has already made durable for its run.   *)
(***************************************************************************)
EXTENDS SlotRunner, TLAPS

Saying == {"handoff", "check_flat", "check_reconcile"}
Saved == {"merge", "progress", "notify"}
Active == {"work"} \cup Saying \cup Saved

OwnsItsRun(p) == pc[p] \in Active => cur[p] \in RunIds /\ Owner(cur[p]) = p

Durable(p) ==
    /\ pc[p] = "work" => performed[cur[p]] = 0
    /\ pc[p] \in Saying \cup Saved => status[p] \in Outcomes
    /\ pc[p] \in Saved => handoffs[cur[p]] = status[p]
    /\ pc[p] \in {"progress", "notify"} => state.updated >= now[p]
    /\ pc[p] = "notify" => progress[cur[p]].status = status[p]

Begun(i) == IF i \in Slots THEN claims[i] # Nobody ELSE pc[i] # "idle"
NotBegun(i) == ~Begun(i) => performed[i] = 0 /\ progress[i].status = Absent
ClaimantRuns(s) == claims[s] # Nobody => pc[claims[s]] # "idle"

IInv ==
    /\ TypeOK
    /\ \A p \in Procs : OwnsItsRun(p) /\ Durable(p)
    /\ \A i \in RunIds : NotBegun(i)
    /\ \A s \in Slots : ClaimantRuns(s)
    /\ PerformedOnce
    /\ HandoffContinuity
    /\ CommittedBeforeNotified
    /\ NewestRunWins

-----------------------------------------------------------------------------
(* TypeOK in two halves, and what its records are made of. *)
DurableTypes ==
    /\ time \in Times
    /\ claims \in [Slots -> Procs \cup {Nobody}]
    /\ handoffs \in [RunIds -> Outcomes \cup {Absent}]
    /\ state \in States
    /\ progress \in [RunIds -> ProgressRecords]
    /\ summaries \subseteq RunIds /\ alarms \subseteq Procs
    /\ performed \in [RunIds -> Nat]
LocalTypes ==
    /\ pc \in [Procs -> Active \cup {"idle", "claim", "raised"} \cup Ended]
    /\ now \in [Procs -> 0..MaxTime]
    /\ todo \in [Procs -> SUBSET Slots]
    /\ cur \in [Procs -> RunIds \cup {Nobody}]
    /\ status \in [Procs -> Outcomes \cup {Absent}]
    /\ missed \in [Procs -> SUBSET Required]

LEMMA Halves == TypeOK <=> DurableTypes /\ LocalTypes
<1>1. Active \cup {"idle", "claim", "raised"} \cup Ended =
      {"idle", "claim", "work", "check_flat", "check_reconcile",
       "handoff", "merge", "progress", "notify", "raised"} \cup Ended
  BY DEF Active, Saying, Saved
<1>. QED BY <1>1, Zenon DEF TypeOK, DurableTypes, LocalTypes

(* A state and a progress record are built from parts of their types. *)
LEMMA Records ==
    /\ \A i \in RunIds \cup {Nobody}, u \in 0..MaxTime, s \in Outcomes \cup {Absent} :
          [run |-> i, updated |-> u, status |-> s] \in States
    /\ \A s \in Outcomes \cup {Absent}, m \in SUBSET Required :
          [status |-> s, missed |-> m] \in ProgressRecords
BY DEF States, ProgressRecords

(* Initially nothing is recorded and nobody works. *)
LEMMA InitIInv == Init => IInv
<1> SUFFICES ASSUME Init PROVE IInv
  OBVIOUS
<1>1. state \in States /\ NoProgress \in ProgressRecords
  <2>1. 0 \in 0..MaxTime
    BY TimeAssumption
  <2>2. state \in States
    BY <2>1, Records, Zenon DEF Init
  <2>. QED BY <2>2, Records DEF NoProgress
<1>2. DurableTypes
  BY <1>1, TimeAssumption DEF Init, DurableTypes, Times
<1>3. LocalTypes
  BY TimeAssumption DEF Init, LocalTypes
<1>4. ASSUME NEW p \in Procs PROVE OwnsItsRun(p) /\ Durable(p)
  BY DEF Init, OwnsItsRun, Durable, Active, Saying, Saved
<1>5. ASSUME NEW i \in RunIds PROVE NotBegun(i)
  BY DEF Init, NotBegun, NoProgress
<1>6. ASSUME NEW s \in Slots PROVE ClaimantRuns(s)
  BY DEF Init, ClaimantRuns
<1>7. PerformedOnce /\ HandoffContinuity /\ CommittedBeforeNotified /\ NewestRunWins
  BY DEF Init, PerformedOnce, HandoffContinuity, CommittedBeforeNotified, NewestRunWins,
         NoProgress
<1>. QED BY <1>2, <1>3, <1>4, <1>5, <1>6, <1>7, Halves DEF IInv

(* The durable half. *)
LEMMA DurableStep == IInv /\ [Next]_vars => DurableTypes'
<1> SUFFICES ASSUME IInv, [Next]_vars PROVE DurableTypes'
  OBVIOUS
<1>. USE DEF durable, outside
<1>0. DurableTypes /\ LocalTypes /\ \A p \in Procs : OwnsItsRun(p)
  BY Halves DEF IInv
<1>1. ASSUME NEW p \in Procs, Claim(p) PROVE DurableTypes'
  BY <1>0, <1>1 DEF Claim, DurableTypes, LocalTypes
<1>2. ASSUME NEW p \in Procs, Work(p) PROVE DurableTypes'
  BY <1>0, <1>2 DEF Work, DurableTypes, OwnsItsRun, Active, At
<1>3. ASSUME NEW p \in Procs, WriteHandoff(p) PROVE DurableTypes'
  BY <1>0, <1>3 DEF WriteHandoff, DurableTypes, LocalTypes
<1>4. ASSUME NEW p \in Procs, MergeState(p) PROVE DurableTypes'
  <2>1. [run |-> cur[p], updated |-> now[p], status |-> status[p]] \in States
    BY <1>0, Records DEF LocalTypes
  <2>2. state' \in States
    BY <1>0, <1>4, <2>1 DEF MergeState, DurableTypes
  <2>. QED BY <1>0, <1>4, <2>2 DEF MergeState, DurableTypes
<1>5. ASSUME NEW p \in Procs, WriteProgress(p) PROVE DurableTypes'
  <2>1. [status |-> status[p], missed |-> missed[p]] \in ProgressRecords
    BY <1>0, Records DEF LocalTypes
  <2>2. progress' \in [RunIds -> ProgressRecords]
    BY <1>0, <1>5, <2>1 DEF WriteProgress, DurableTypes
  <2>. QED BY <1>0, <1>5, <2>2 DEF WriteProgress, DurableTypes
<1>6. ASSUME NEW p \in Procs, Notify(p) PROVE DurableTypes'
  BY <1>0, <1>6 DEF Notify, DurableTypes, OwnsItsRun, Active, Saved, At
<1>7. ASSUME NEW p \in Procs, Alarm(p) PROVE DurableTypes'
  BY <1>0, <1>7 DEF Alarm, DurableTypes
<1>8. CASE Tick
  BY <1>0, <1>8, TimeAssumption DEF Tick, DurableTypes, Times
<1>9. ASSUME NEW p \in Procs, Start(p) \/ Finish(p) \/ CheckMissed(p) \/ Abort(p)
      PROVE  DurableTypes'
  BY <1>0, <1>9 DEF Start, Finish, CheckMissed, Check, Abort, DurableTypes
<1>10. CASE UNCHANGED vars
  BY <1>0, <1>10 DEF vars, DurableTypes
<1>. QED BY <1>1, <1>2, <1>3, <1>4, <1>5, <1>6, <1>7, <1>8, <1>9, <1>10 DEF Next, Step

(* The local half. *)
LEMMA LocalStep == IInv /\ [Next]_vars => LocalTypes'
<1> SUFFICES ASSUME IInv, [Next]_vars PROVE LocalTypes'
  OBVIOUS
<1>. USE DEF At, Goto, Active, Saying, Saved
<1>0. LocalTypes /\ time \in 0..MaxTime
  BY Halves, TimeAssumption DEF IInv, DurableTypes, Times
<1>1. ASSUME NEW p \in Procs, Start(p) PROVE LocalTypes'
  BY <1>0, <1>1 DEF Start, LocalTypes, RunIds
<1>2. ASSUME NEW p \in Procs, Claim(p) PROVE LocalTypes'
  BY <1>0, <1>2 DEF Claim, LocalTypes, RunIds
<1>3. ASSUME NEW p \in Procs, Finish(p) \/ Alarm(p) PROVE LocalTypes'
  BY <1>0, <1>3 DEF Finish, Alarm, LocalTypes, Ended
<1>4. ASSUME NEW p \in Procs, Work(p) PROVE LocalTypes'
  BY <1>0, <1>4 DEF Work, LocalTypes, Outcomes
<1>5. ASSUME NEW p \in Procs, NEW required \in Required, NEW here,
             NEW next \in Saying, Check(p, required, here, next)
      PROVE  LocalTypes'
  BY <1>0, <1>5 DEF Check, LocalTypes, Outcomes
<1>6. ASSUME NEW p \in Procs, CheckMissed(p) PROVE LocalTypes'
  BY <1>5, <1>6 DEF CheckMissed, Required
<1>7. ASSUME NEW p \in Procs,
             WriteHandoff(p) \/ MergeState(p) \/ WriteProgress(p)
      PROVE  LocalTypes'
  BY <1>0, <1>7 DEF WriteHandoff, MergeState, WriteProgress, Continue, Unwind, Leave,
                    LocalTypes
<1>8. ASSUME NEW p \in Procs, Notify(p) PROVE LocalTypes'
  BY <1>0, <1>8 DEF Notify, LocalTypes
<1>9. ASSUME NEW p \in Procs, Abort(p) PROVE LocalTypes'
  BY <1>0, <1>9 DEF Abort, Unwind, Crash, Leave, LocalTypes, Ended
<1>10. CASE Tick \/ UNCHANGED vars
  BY <1>0, <1>10 DEF Tick, vars, local, LocalTypes
<1>. QED BY <1>1, <1>2, <1>3, <1>4, <1>6, <1>7, <1>8, <1>9, <1>10 DEF Next, Step

-----------------------------------------------------------------------------
(* What a step of process p may change: its own variables, slots nobody    *)
(* claimed, and the records of its own runs.                               *)
OnlyOwn(p) ==
    /\ \A q \in Procs \ {p} : /\ pc'[q] = pc[q] /\ now'[q] = now[q]
                              /\ cur'[q] = cur[q] /\ status'[q] = status[q]
    /\ \A s \in Slots : claims[s] # Nobody => claims'[s] = claims[s]
    /\ \A i \in RunIds : Owner(i) \notin {p, Nobody} =>
          /\ performed'[i] = performed[i] /\ handoffs'[i] = handoffs[i]
          /\ progress'[i] = progress[i]
    /\ state'.updated >= state.updated

(* Such a step disturbs no other process. *)
LEMMA Others ==
    ASSUME IInv, TypeOK', NEW p \in Procs, OnlyOwn(p), NEW q \in Procs, q # p
    PROVE  OwnsItsRun(q)' /\ Durable(q)'
<1>1. /\ OwnsItsRun(q) /\ Durable(q) /\ q # Nobody
      /\ pc'[q] = pc[q] /\ now'[q] = now[q] /\ cur'[q] = cur[q] /\ status'[q] = status[q]
  BY NameAssumption DEF IInv, OnlyOwn, RunIds
<1>2. OwnsItsRun(q)'
  BY <1>1 DEF OnlyOwn, OwnsItsRun, Owner
<1>3. pc[q] \in Active =>
         /\ performed'[cur[q]] = performed[cur[q]] /\ handoffs'[cur[q]] = handoffs[cur[q]]
         /\ progress'[cur[q]] = progress[cur[q]]
  BY <1>1 DEF OnlyOwn, OwnsItsRun
<1>4. state.updated >= now[q] => state'.updated >= now[q]
  <2>1. DurableTypes /\ LocalTypes /\ state' \in States
    BY Halves DEF IInv, TypeOK
  <2>2. state.updated \in 0..MaxTime /\ state'.updated \in 0..MaxTime /\ now[q] \in 0..MaxTime
    BY <2>1 DEF DurableTypes, LocalTypes, States
  <2>. QED BY <2>2, TimeAssumption DEF OnlyOwn
<1>5. Durable(q)'
  BY <1>1, <1>3, <1>4 DEF Durable, Active, Saying, Saved
<1>. QED BY <1>2, <1>5

(* A step that records nothing keeps what the records say. *)
LEMMA Quiet ==
    ASSUME IInv, TypeOK', NEW p \in Procs, OnlyOwn(p), OwnsItsRun(p)', Durable(p)',
           UNCHANGED <<claims, handoffs, state, progress, performed, summaries, now>>,
           pc[p] # "idle", pc'[p] # "idle"
    PROVE  IInv'
<1>1. \A q \in Procs : pc'[q] = "idle" <=> pc[q] = "idle"
  BY DEF OnlyOwn
<1>2. ASSUME NEW i \in RunIds PROVE NotBegun(i)'
  BY <1>1 DEF IInv, NotBegun, Begun, RunIds
<1>3. ASSUME NEW s \in Slots PROVE ClaimantRuns(s)'
  <2>1. claims[s] \in Procs \cup {Nobody}
    BY DEF IInv, TypeOK
  <2>. QED BY <1>1, <2>1 DEF IInv, ClaimantRuns
<1>4. (PerformedOnce /\ HandoffContinuity /\ CommittedBeforeNotified /\ NewestRunWins)'
  BY DEF IInv, PerformedOnce, HandoffContinuity, CommittedBeforeNotified, NewestRunWins,
         Owner
<1>. QED BY <1>2, <1>3, <1>4, Others DEF IInv

(* A process that has ended, or looks for the next slot, owes nothing. *)
LEMMA OwesNothing ==
    ASSUME NEW p \in Procs, pc'[p] \notin Active
    PROVE  OwnsItsRun(p)' /\ Durable(p)'
BY DEF OwnsItsRun, Durable, Active, Saying, Saved

(* The time of the state is a number. *)
LEMMA Reflexive ==
    ASSUME IInv PROVE state.updated >= state.updated
<1>1. state \in States
  BY DEF IInv, TypeOK
<1>. QED BY <1>1 DEF States

(* Starting moves the time of a process no run belongs to yet. *)
LEMMA StartStep ==
    ASSUME IInv, TypeOK', NEW p \in Procs, Start(p) PROVE IInv'
<1>. USE DEF At, Goto
<1>0. /\ pc[p] = "idle" /\ pc'[p] \in {"claim", "work"}
      /\ LocalTypes /\ DurableTypes
      /\ UNCHANGED <<claims, handoffs, state, progress, performed, summaries>>
  BY Halves DEF IInv, Start, durable, outside, LocalTypes
<1>1. OnlyOwn(p)
  BY <1>0, Reflexive DEF Start, OnlyOwn, LocalTypes
<1>2. \A i \in RunIds : Owner(i) = p => performed[i] = 0 /\ progress[i].status = Absent
  BY <1>0, NameAssumption DEF IInv, Owner, NotBegun, Begun, ClaimantRuns, RunIds
<1>3. OwnsItsRun(p)' /\ Durable(p)'
  <2>1. CASE pc'[p] = "claim"
    BY <2>1, OwesNothing DEF Active, Saying, Saved
  <2>2. CASE pc'[p] = "work"
    <3>1. cur'[p] = p /\ p \in RunIds /\ p \notin Slots
      BY <1>0, <2>2, NameAssumption DEF Start, LocalTypes, RunIds
    <3>. QED BY <1>0, <1>2, <2>2, <3>1 DEF OwnsItsRun, Durable, Owner, Saying, Saved
  <2>. QED BY <1>0, <2>1, <2>2
<1>4. ASSUME NEW i \in RunIds PROVE NotBegun(i)'
  BY <1>0, <1>1 DEF IInv, NotBegun, Begun, OnlyOwn, RunIds
<1>5. ASSUME NEW s \in Slots PROVE ClaimantRuns(s)'
  BY <1>0, <1>1 DEF IInv, ClaimantRuns, OnlyOwn, DurableTypes
<1>6. NewestRunWins'
  <2>1. ASSUME NEW i \in RunIds, progress[i].status # Absent
        PROVE  Owner(i) \in Procs /\ Owner(i) # p
    BY <1>2, <2>1, <1>0 DEF IInv, NotBegun, Begun, Owner, DurableTypes, RunIds
  <2>. QED BY <1>0, <1>1, <2>1 DEF IInv, NewestRunWins, OnlyOwn, Owner
<1>7. (PerformedOnce /\ HandoffContinuity /\ CommittedBeforeNotified)'
  BY <1>0 DEF IInv, PerformedOnce, HandoffContinuity, CommittedBeforeNotified
<1>. QED BY <1>1, <1>3, <1>4, <1>5, <1>6, <1>7, Others DEF IInv

(* A claim takes a slot nobody had, so nothing is recorded for its run. *)
LEMMA ClaimStep ==
    ASSUME IInv, TypeOK', NEW p \in Procs, Claim(p) PROVE IInv'
<1>. USE DEF At, Goto
<1>0. /\ pc[p] = "claim" /\ LocalTypes /\ DurableTypes
      /\ UNCHANGED <<handoffs, state, progress, performed, summaries, now, status>>
  BY Halves DEF IInv, Claim, outside
<1>1. PICK s \in todo[p] :
         \/ /\ claims[s] = Nobody /\ claims' = [claims EXCEPT ![s] = p]
            /\ cur' = [cur EXCEPT ![p] = s] /\ pc' = [pc EXCEPT ![p] = "work"]
         \/ UNCHANGED <<claims, pc, cur>>
  BY DEF Claim, Claimable
<1>2. s \in Slots /\ s \in RunIds /\ OnlyOwn(p)
  BY <1>0, <1>1, Reflexive DEF OnlyOwn, LocalTypes, DurableTypes, RunIds
<1>3. CASE UNCHANGED <<claims, pc, cur>>
  <2>1. OwnsItsRun(p)' /\ Durable(p)'
    BY <1>0, <1>3, OwesNothing DEF Active, Saying, Saved
  <2>. QED BY <1>0, <1>2, <1>3, <2>1, Quiet
<1>4. CASE /\ claims[s] = Nobody /\ claims' = [claims EXCEPT ![s] = p]
           /\ cur' = [cur EXCEPT ![p] = s] /\ pc' = [pc EXCEPT ![p] = "work"]
  <2>1. /\ cur'[p] = s /\ pc'[p] = "work" /\ claims'[s] = p /\ p # Nobody
        /\ \A x \in Slots \ {s} : claims'[x] = claims[x]
        /\ \A q \in Procs : pc'[q] = "idle" <=> pc[q] = "idle"
    BY <1>0, <1>2, <1>4, NameAssumption DEF LocalTypes, DurableTypes, RunIds
  <2>2. performed[s] = 0 /\ progress[s].status = Absent
    BY <1>2, <1>4 DEF IInv, NotBegun, Begun
  <2>3. OwnsItsRun(p)' /\ Durable(p)'
    BY <1>0, <1>2, <2>1, <2>2 DEF OwnsItsRun, Durable, Owner, Saying, Saved
  <2>4. ASSUME NEW i \in RunIds PROVE NotBegun(i)'
    <3>1. Begun(i)' <=> (Begun(i) \/ i = s)
      BY <1>2, <2>1 DEF Begun, RunIds
    <3>. QED BY <1>0, <3>1 DEF IInv, NotBegun
  <2>5. ASSUME NEW x \in Slots PROVE ClaimantRuns(x)'
    BY <1>0, <2>1 DEF IInv, ClaimantRuns, DurableTypes
  <2>6. NewestRunWins'
    BY <1>0, <2>1, <2>2 DEF IInv, NewestRunWins, Owner
  <2>7. (PerformedOnce /\ HandoffContinuity /\ CommittedBeforeNotified)'
    BY <1>0 DEF IInv, PerformedOnce, HandoffContinuity, CommittedBeforeNotified
  <2>. QED BY <1>2, <2>3, <2>4, <2>5, <2>6, <2>7, Others DEF IInv
<1>. QED BY <1>1, <1>3, <1>4

(* The work of a run is begun by its owner, who had not begun it. *)
LEMMA WorkStep ==
    ASSUME IInv, TypeOK', NEW p \in Procs, Work(p) PROVE IInv'
<1>. USE DEF At, Goto
<1>0. /\ pc[p] = "work" /\ pc'[p] \in Saying /\ status'[p] \in Outcomes
      /\ LocalTypes /\ DurableTypes
      /\ UNCHANGED <<claims, handoffs, state, progress, summaries, now, cur>>
  BY Halves DEF IInv, Work, durable, LocalTypes, Saying, Outcomes
<1>1. /\ cur[p] \in RunIds /\ Owner(cur[p]) = p /\ performed[cur[p]] = 0
      /\ performed' = [performed EXCEPT ![cur[p]] = 1] /\ p # Nobody
  <2>1. cur[p] \in RunIds /\ Owner(cur[p]) = p /\ performed[cur[p]] = 0
    BY <1>0 DEF IInv, OwnsItsRun, Durable, Active
  <2>. QED BY <1>0, <2>1, NameAssumption DEF Work, DurableTypes, RunIds
<1>2. OnlyOwn(p)
  BY <1>0, <1>1, Reflexive DEF Work, OnlyOwn, LocalTypes, DurableTypes
<1>3. OwnsItsRun(p)' /\ Durable(p)'
  BY <1>0, <1>1 DEF OwnsItsRun, Durable, Owner, Active, Saying, Saved
<1>4. \A q \in Procs : pc'[q] = "idle" <=> pc[q] = "idle"
  BY <1>0, <1>2 DEF OnlyOwn, Saying
<1>5. ASSUME NEW i \in RunIds PROVE NotBegun(i)'
  <2>1. Begun(cur[p])'
    BY <1>0, <1>1, <1>4 DEF Begun, Owner, RunIds
  <2>. QED BY <1>0, <1>1, <1>4, <2>1 DEF IInv, NotBegun, Begun, RunIds, DurableTypes
<1>6. ASSUME NEW s \in Slots PROVE ClaimantRuns(s)'
  BY <1>0, <1>4 DEF IInv, ClaimantRuns, DurableTypes
<1>7. PerformedOnce'
  BY <1>1 DEF IInv, PerformedOnce, DurableTypes
<1>8. (HandoffContinuity /\ CommittedBeforeNotified /\ NewestRunWins)'
  BY <1>0 DEF IInv, HandoffContinuity, CommittedBeforeNotified, NewestRunWins, Owner
<1>. QED BY <1>2, <1>3, <1>5, <1>6, <1>7, <1>8, Others DEF IInv

(* Checks, ends, alarms and aborts. *)
LEMMA QuietSteps ==
    ASSUME IInv, TypeOK', NEW p \in Procs,
           CheckMissed(p) \/ Finish(p) \/ Alarm(p) \/ Abort(p)
    PROVE  IInv'
<1>. USE DEF At, Goto, durable, outside
<1>0. LocalTypes /\ DurableTypes
  BY Halves DEF IInv
<1>1. CASE CheckMissed(p)
  <2>1. /\ pc[p] \in Saying /\ pc'[p] \in Saying /\ status'[p] \in Outcomes
        /\ UNCHANGED <<claims, handoffs, state, progress, performed, summaries, now, cur>>
    BY <1>0, <1>1 DEF CheckMissed, Check, IInv, Durable, LocalTypes, Saying, Outcomes
  <2>2. OnlyOwn(p)
    BY <1>0, <1>1, Reflexive DEF CheckMissed, Check, OnlyOwn, LocalTypes
  <2>3. OwnsItsRun(p)' /\ Durable(p)'
    BY <2>1 DEF IInv, OwnsItsRun, Durable, Owner, Active, Saying, Saved
  <2>4. pc[p] # "idle" /\ pc'[p] # "idle"
    BY <2>1 DEF Saying
  <2>. QED BY <2>1, <2>2, <2>3, <2>4, Quiet
<1>2. CASE Finish(p) \/ Alarm(p)
  <2>1. /\ pc[p] # "idle" /\ pc'[p] \in Ended /\ OnlyOwn(p)
        /\ UNCHANGED <<claims, handoffs, state, progress, performed, summaries, now>>
    BY <1>0, <1>2, Reflexive DEF Finish, Alarm, OnlyOwn, LocalTypes, Ended
  <2>2. OwnsItsRun(p)' /\ Durable(p)'
    BY <2>1, OwesNothing DEF Active, Saying, Saved, Ended
  <2>. QED BY <2>1, <2>2, Quiet DEF Ended
<1>3. CASE Abort(p)
  <2>1. /\ pc[p] # "idle" /\ pc'[p] \in {"raised", "dead"} /\ OnlyOwn(p)
        /\ UNCHANGED <<claims, handoffs, state, progress, performed, summaries, now>>
    BY <1>0, <1>3, Reflexive DEF Abort, Unwind, Crash, Leave, OnlyOwn, LocalTypes
  <2>2. OwnsItsRun(p)' /\ Durable(p)'
    BY <2>1, OwesNothing DEF Active, Saying, Saved
  <2>. QED BY <2>1, <2>2, Quiet
<1>. QED BY <1>1, <1>2, <1>3

(* The steps that publish a run: none begins one or moves a claim. *)
LEMMA Publishing ==
    ASSUME IInv, TypeOK', NEW p \in Procs, OnlyOwn(p), OwnsItsRun(p)', Durable(p)',
           UNCHANGED <<claims, performed, now>>, pc[p] # "idle", pc'[p] # "idle",
           \A i \in RunIds : ~Begun(i) => progress'[i] = progress[i],
           (HandoffContinuity /\ CommittedBeforeNotified /\ NewestRunWins)'
    PROVE  IInv'
<1>1. \A q \in Procs : pc'[q] = "idle" <=> pc[q] = "idle"
  BY DEF OnlyOwn
<1>2. ASSUME NEW i \in RunIds PROVE NotBegun(i)'
  <2>1. Begun(i)' <=> Begun(i)
    BY <1>1 DEF Begun, RunIds
  <2>. QED BY <2>1 DEF IInv, NotBegun
<1>3. ASSUME NEW s \in Slots PROVE ClaimantRuns(s)'
  <2>1. claims[s] \in Procs \cup {Nobody}
    BY DEF IInv, TypeOK
  <2>. QED BY <1>1, <2>1 DEF IInv, ClaimantRuns
<1>4. PerformedOnce'
  BY DEF IInv, PerformedOnce
<1>. QED BY <1>2, <1>3, <1>4, Others DEF IInv

(* The run a process works on is its own, and begun. *)
LEMMA OwnRun ==
    ASSUME IInv, NEW p \in Procs, pc[p] \in Active
    PROVE  /\ cur[p] \in RunIds /\ Owner(cur[p]) = p /\ p # Nobody /\ Begun(cur[p])
           /\ pc[p] # "idle"
<1>1. cur[p] \in RunIds /\ Owner(cur[p]) = p /\ p # Nobody
  BY NameAssumption DEF IInv, OwnsItsRun, RunIds
<1>. QED BY <1>1 DEF Owner, Begun, Active, Saying, Saved

(* A handoff is written where there is none and stays what it is. *)
LEMMA HandoffStep ==
    ASSUME IInv, TypeOK', NEW p \in Procs, WriteHandoff(p) PROVE IInv'
<1>. USE DEF At, Goto, outside
<1>0. /\ pc[p] = "handoff" /\ LocalTypes /\ DurableTypes
      /\ UNCHANGED <<claims, state, progress, performed, summaries, now>>
  BY Halves DEF IInv, WriteHandoff
<1>1. /\ cur[p] \in RunIds /\ Owner(cur[p]) = p /\ p # Nobody
      /\ status[p] \in Outcomes
  BY <1>0, OwnRun DEF IInv, Durable, Active, Saying
<1>2. CASE /\ handoffs[cur[p]] = Absent
           /\ handoffs' = [handoffs EXCEPT ![cur[p]] = status[p]]
           /\ Continue(p, "merge")
  <2>1. OnlyOwn(p)
    BY <1>0, <1>1, <1>2, Reflexive DEF OnlyOwn, Continue, LocalTypes, DurableTypes
  <2>2. OwnsItsRun(p)' /\ Durable(p)'
    BY <1>0, <1>1, <1>2 DEF Continue, OwnsItsRun, Durable, Owner, Saying, Saved,
                            LocalTypes, DurableTypes
  <2>3. \A i \in RunIds : handoffs[i] # Absent => handoffs'[i] = handoffs[i]
    BY <1>2 DEF IInv, TypeOK
  <2>4. HandoffContinuity'
    <3>1. state.run \in RunIds \cup {Nobody}
      BY <1>0 DEF DurableTypes, States
    <3>. QED BY <1>0, <2>3, <3>1 DEF IInv, HandoffContinuity
  <2>5. CommittedBeforeNotified'
    BY <1>0, <2>3 DEF IInv, CommittedBeforeNotified, DurableTypes, Outcomes, Absent
  <2>6. NewestRunWins'
    BY <1>0 DEF IInv, NewestRunWins, Owner
  <2>7. pc'[p] = "merge"
    BY <1>0, <1>2 DEF Continue, LocalTypes
  <2>. QED BY <1>0, <2>1, <2>2, <2>4, <2>5, <2>6, <2>7, Publishing
<1>3. CASE Unwind(p) /\ UNCHANGED handoffs
  <2>1. OnlyOwn(p) /\ pc'[p] = "raised"
    BY <1>0, <1>3, Reflexive DEF OnlyOwn, Unwind, Leave, LocalTypes
  <2>2. OwnsItsRun(p)' /\ Durable(p)'
    BY <2>1, OwesNothing DEF Active, Saying, Saved
  <2>. QED BY <1>0, <1>3, <2>1, <2>2, Quiet
<1>. QED BY <1>2, <1>3 DEF WriteHandoff

(* The current state only ever moves to a run started no earlier. *)
LEMMA MergeStep ==
    ASSUME IInv, TypeOK', NEW p \in Procs, MergeState(p) PROVE IInv'
<1>. USE DEF At, Goto, outside
<1>0. /\ pc[p] = "merge" /\ LocalTypes /\ DurableTypes
      /\ UNCHANGED <<claims, handoffs, progress, performed, summaries, now>>
  BY Halves DEF IInv, MergeState
<1>1. /\ cur[p] \in RunIds /\ Owner(cur[p]) = p /\ cur[p] # Nobody
      /\ status[p] \in Outcomes /\ handoffs[cur[p]] = status[p]
  BY <1>0, OwnRun, NameAssumption DEF IInv, Durable, Active, Saved
<1>2. CASE ~Newer(p) /\ Continue(p, "progress")
           /\ state' = [run |-> cur[p], updated |-> now[p], status |-> status[p]]
  <2>1. /\ state'.run = cur[p] /\ state'.updated = now[p] /\ state'.status = status[p]
        /\ pc'[p] = "progress" /\ UNCHANGED <<cur, status>>
    BY <1>0, <1>2 DEF Continue, LocalTypes
  <2>2. /\ state.updated \in 0..MaxTime /\ now[p] \in 0..MaxTime
        /\ state'.updated >= state.updated
    BY <1>0, <1>2, <2>1, TimeAssumption DEF Newer, DurableTypes, LocalTypes, States
  <2>3. OnlyOwn(p)
    BY <1>0, <1>2, <2>2 DEF OnlyOwn, Continue, LocalTypes
  <2>4. OwnsItsRun(p)' /\ Durable(p)'
    BY <1>0, <1>1, <2>1, <2>2, TimeAssumption DEF OwnsItsRun, Durable, Owner, Saying, Saved
  <2>5. HandoffContinuity'
    BY <1>0, <1>1, <2>1 DEF HandoffContinuity, Outcomes, Absent
  <2>6. NewestRunWins'
    <3>1. ASSUME NEW i \in RunIds, progress[i].status # Absent
          PROVE  state'.updated >= now[Owner(i)]
      <4>1. Owner(i) \in Procs
        BY <1>0, <3>1 DEF IInv, NotBegun, Begun, Owner, DurableTypes, RunIds
      <4>2. state.updated >= now[Owner(i)] /\ now[Owner(i)] \in 0..MaxTime
        BY <1>0, <3>1, <4>1 DEF IInv, NewestRunWins, LocalTypes
      <4>. QED BY <2>1, <2>2, <4>2, TimeAssumption
    <3>. QED BY <1>0, <3>1 DEF NewestRunWins, Owner
  <2>7. CommittedBeforeNotified'
    BY <1>0 DEF IInv, CommittedBeforeNotified
  <2>. QED BY <1>0, <2>1, <2>3, <2>4, <2>5, <2>6, <2>7, Publishing
<1>3. CASE Unwind(p) /\ UNCHANGED state
  <2>1. OnlyOwn(p) /\ pc'[p] = "raised"
    BY <1>0, <1>3, Reflexive DEF OnlyOwn, Unwind, Leave, LocalTypes
  <2>2. OwnsItsRun(p)' /\ Durable(p)'
    BY <2>1, OwesNothing DEF Active, Saying, Saved
  <2>. QED BY <1>0, <1>3, <2>1, <2>2, Quiet
<1>. QED BY <1>2, <1>3 DEF MergeState

(* The progress record tells the outcome the handoff told. *)
LEMMA ProgressStep ==
    ASSUME IInv, TypeOK', NEW p \in Procs, WriteProgress(p) PROVE IInv'
<1>. USE DEF At, Goto, outside, Continue
<1>0. /\ pc[p] = "progress" /\ LocalTypes /\ DurableTypes
      /\ UNCHANGED <<claims, handoffs, state, performed, summaries, now, cur, status>>
      /\ pc' = [pc EXCEPT ![p] = "notify"]
      /\ progress' = [progress EXCEPT ![cur[p]] =
                         [status |-> status[p], missed |-> missed[p]]]
  BY Halves DEF IInv, WriteProgress
<1>1. /\ cur[p] \in RunIds /\ Owner(cur[p]) = p /\ p # Nobody /\ Begun(cur[p])
      /\ status[p] \in Outcomes /\ handoffs[cur[p]] = status[p]
      /\ state.updated >= now[p]
  BY <1>0, OwnRun DEF IInv, Durable, Active, Saved
<1>2. /\ progress'[cur[p]].status = status[p]
      /\ \A i \in RunIds \ {cur[p]} : progress'[i] = progress[i]
      /\ pc'[p] = "notify"
  BY <1>0, <1>1 DEF LocalTypes, DurableTypes
<1>3. OnlyOwn(p)
  BY <1>0, <1>1, <1>2, Reflexive DEF OnlyOwn, LocalTypes
<1>4. OwnsItsRun(p)' /\ Durable(p)'
  BY <1>0, <1>1, <1>2 DEF OwnsItsRun, Durable, Owner, Saying, Saved
<1>5. HandoffContinuity'
  BY <1>0 DEF IInv, HandoffContinuity
<1>6. CommittedBeforeNotified'
  BY <1>0, <1>1, <1>2 DEF IInv, CommittedBeforeNotified, DurableTypes
<1>7. NewestRunWins'
  BY <1>0, <1>1, <1>2 DEF IInv, NewestRunWins, Owner
<1>. QED BY <1>0, <1>1, <1>2, <1>3, <1>4, <1>5, <1>6, <1>7, Publishing

(* By then handoff and progress record of the run are there and agree. *)
LEMMA NotifyStep ==
    ASSUME IInv, TypeOK', NEW p \in Procs, Notify(p) PROVE IInv'
<1>. USE DEF At, Goto
<1>0. /\ pc[p] = "notify" /\ pc'[p] = "claim" /\ LocalTypes /\ DurableTypes
      /\ UNCHANGED <<claims, handoffs, state, progress, performed, now>>
      /\ summaries' = summaries \cup {cur[p]}
  BY Halves DEF IInv, Notify, durable, LocalTypes
<1>1. /\ progress[cur[p]].status = status[p] /\ status[p] \in Outcomes
      /\ handoffs[cur[p]] = status[p]
  BY <1>0 DEF IInv, Durable, Saved
<1>2. OnlyOwn(p)
  BY <1>0, Reflexive DEF Notify, OnlyOwn, LocalTypes
<1>3. OwnsItsRun(p)' /\ Durable(p)'
  BY <1>0, OwesNothing DEF Active, Saying, Saved
<1>4. CommittedBeforeNotified'
  BY <1>0, <1>1 DEF IInv, CommittedBeforeNotified
<1>5. (HandoffContinuity /\ NewestRunWins)'
  BY <1>0 DEF IInv, HandoffContinuity, NewestRunWins, Owner
<1>. QED BY <1>0, <1>2, <1>3, <1>4, <1>5, Publishing

(* The clock is nobody's. *)
LEMMA ClockStep ==
    ASSUME IInv, TypeOK',
           UNCHANGED <<claims, handoffs, state, progress, summaries, performed,
                       pc, now, cur, status>>
    PROVE  IInv'
BY DEF IInv, OwnsItsRun, Durable, NotBegun, Begun, ClaimantRuns, Owner,
       PerformedOnce, HandoffContinuity, CommittedBeforeNotified, NewestRunWins

(* Every step of a process and of the clock keeps the invariant. *)
LEMMA NextIInv == IInv /\ [Next]_vars => IInv'
<1> SUFFICES ASSUME IInv, [Next]_vars PROVE IInv'
  OBVIOUS
<1>1. TypeOK'
  <2>1. TypeOK' <=> DurableTypes' /\ LocalTypes'
    BY Halves, PTL
  <2>. QED BY <2>1, DurableStep, LocalStep
<1>2. ASSUME NEW p \in Procs, Start(p) \/ Step(p) \/ Abort(p) PROVE IInv'
  BY <1>1, <1>2, StartStep, ClaimStep, WorkStep, QuietSteps, HandoffStep, MergeStep,
     ProgressStep, NotifyStep
  DEF Step
<1>3. CASE Tick \/ UNCHANGED vars
  BY <1>1, <1>3, ClockStep DEF Tick, vars, durable, outside, local
<1>. QED BY <1>2, <1>3 DEF Next

(* What the store, the notifications and the processes hold always has its *)
(* type (runner.py 47-277).                                                *)
THEOREM TypeCorrect == Spec => []TypeOK
<1>1. IInv => TypeOK
  BY DEF IInv
<1>. QED BY <1>1, InitIInv, NextIInv, PTL DEF Spec

(* No run is performed twice (runner.py 47-72, lock.py 6-13). *)
THEOREM NoReplay == Spec => []PerformedOnce
<1>1. IInv => PerformedOnce
  BY DEF IInv
<1>. QED BY <1>1, InitIInv, NextIInv, PTL DEF Spec

(* The current state always names a handoff that exists and tells the same *)
(* outcome (runner.py 231-248).                                            *)
THEOREM Continuity == Spec => []HandoffContinuity
<1>1. IInv => HandoffContinuity
  BY DEF IInv
<1>. QED BY <1>1, InitIInv, NextIInv, PTL DEF Spec

(* A run with a progress record is never newer than the current state      *)
(* (runner.py 235-261).                                                    *)
THEOREM NoStaleState == Spec => []NewestRunWins
<1>1. IInv => NewestRunWins
  BY DEF IInv
<1>. QED BY <1>1, InitIInv, NextIInv, PTL DEF Spec

(* Nobody is told of a run whose records are not durable (runner.py        *)
(* 259-272).                                                               *)
THEOREM CommitFirst == Spec => []CommittedBeforeNotified
<1>1. IInv => CommittedBeforeNotified
  BY DEF IInv
<1>. QED BY <1>1, InitIInv, NextIInv, PTL DEF Spec

-----------------------------------------------------------------------------
(* What the report has looked for so far, and does not find or has noted:  *)
(* claims are never taken back, so a look is never too favourable later.   *)
Looked(p) == IF pc[p] = "check_reconcile" THEN {"FORCE_FLAT"}
             ELSE IF pc[p] \in {"handoff", "merge", "progress"} THEN Required
             ELSE {}
NotesMissed(p) ==
    cur[p] = Report /\ status[p] = "COMPLETE" =>
       \A s \in Looked(p) : claims[s] = Nobody => s \in missed[p]
LooksInv == UnnamedMeansClaimed /\ \A p \in Procs : NotesMissed(p)

(* A step of process p that leaves the report's record alone. *)
LEMMA LooksOthers ==
    ASSUME IInv, LooksInv, NEW p \in Procs, NotesMissed(p)',
           \A q \in Procs \ {p} : /\ pc'[q] = pc[q] /\ cur'[q] = cur[q]
                                  /\ status'[q] = status[q] /\ missed'[q] = missed[q],
           \A s \in Slots : claims[s] # Nobody => claims'[s] = claims[s],
           progress'[Report] = progress[Report]
    PROVE  LooksInv'
<1>1. \A s \in Required : claims'[s] = Nobody => claims[s] = Nobody
  BY SlotAssumption
<1>2. UnnamedMeansClaimed'
  BY <1>1 DEF LooksInv, UnnamedMeansClaimed
<1>3. ASSUME NEW q \in Procs, q # p PROVE NotesMissed(q)'
  <2>1. \A s \in Looked(q) : s \in Required
    BY DEF Looked, Required
  <2>2. NotesMissed(q) /\ Looked(q)' = Looked(q)
    BY <1>3 DEF LooksInv, Looked
  <2>. QED BY <1>1, <1>3, <2>1, <2>2 DEF NotesMissed
<1>. QED BY <1>2, <1>3 DEF LooksInv

LEMMA LooksStep == IInv /\ LooksInv /\ [Next]_vars => LooksInv'
<1> SUFFICES ASSUME IInv, LooksInv, [Next]_vars PROVE LooksInv'
  OBVIOUS
<1>. USE DEF At, Goto, durable, outside, local
<1>0. LocalTypes /\ DurableTypes /\ \A p \in Procs : NotesMissed(p)
  BY Halves DEF IInv, LooksInv
<1>1. ASSUME NEW p \in Procs,
             Start(p) \/ Claim(p) \/ Finish(p) \/ Notify(p) \/ Alarm(p) \/ Abort(p)
      PROVE  LooksInv'
  <2>1. /\ pc'[p] \in {"claim", "work", "done", "raised", "dead"}
        /\ \A q \in Procs \ {p} : /\ pc'[q] = pc[q] /\ cur'[q] = cur[q]
                                  /\ status'[q] = status[q] /\ missed'[q] = missed[q]
        /\ progress' = progress
    BY <1>0, <1>1 DEF Start, Claim, Finish, Notify, Alarm, Abort, Unwind, Crash, Leave,
                      LocalTypes
  <2>2. \A s \in Slots : claims[s] # Nobody => claims'[s] = claims[s]
    BY <1>0, <1>1 DEF Start, Claim, Claimable, Finish, Notify, Alarm, Abort, DurableTypes
  <2>3. NotesMissed(p)'
    BY <2>1 DEF NotesMissed, Looked
  <2>. QED BY <2>1, <2>2, <2>3, LooksOthers
<1>2. ASSUME NEW p \in Procs, Work(p) PROVE LooksInv'
  <2>1. /\ \A q \in Procs \ {p} : pc'[q] = pc[q] /\ status'[q] = status[q]
        /\ status'[p] = "COMPLETE" /\ cur[p] = Report => pc'[p] = "check_flat"
        /\ UNCHANGED <<claims, progress, cur, missed>>
    BY <1>0, <1>2 DEF Work, LocalTypes
  <2>2. NotesMissed(p)'
    BY <2>1 DEF NotesMissed, Looked
  <2>. QED BY <2>1, <2>2, LooksOthers
<1>3. ASSUME NEW p \in Procs, Check(p, "FORCE_FLAT", "check_flat", "check_reconcile")
      PROVE  LooksInv'
  <2>1. /\ \A q \in Procs \ {p} : /\ pc'[q] = pc[q] /\ cur'[q] = cur[q]
                                  /\ status'[q] = status[q] /\ missed'[q] = missed[q]
        /\ UNCHANGED <<claims, progress, cur>>
    BY <1>0, <1>3 DEF Check, LocalTypes
  <2>2. \/ /\ pc'[p] = "check_reconcile"
           /\ claims["FORCE_FLAT"] = Nobody => "FORCE_FLAT" \in missed'[p]
        \/ status'[p] = "FAILED"
    BY <1>0, <1>3 DEF Check, LocalTypes
  <2>3. NotesMissed(p)'
    BY <2>1, <2>2 DEF NotesMissed, Looked
  <2>. QED BY <2>1, <2>3, LooksOthers
<1>4. ASSUME NEW p \in Procs, Check(p, "RECONCILE", "check_reconcile", "handoff")
      PROVE  LooksInv'
  <2>1. /\ \A q \in Procs \ {p} : /\ pc'[q] = pc[q] /\ cur'[q] = cur[q]
                                  /\ status'[q] = status[q] /\ missed'[q] = missed[q]
        /\ UNCHANGED <<claims, progress, cur>> /\ pc'[p] = "handoff"
    BY <1>0, <1>4 DEF Check, LocalTypes
  <2>2. \/ /\ status'[p] = status[p] /\ missed[p] \subseteq missed'[p]
           /\ claims["RECONCILE"] = Nobody => "RECONCILE" \in missed'[p]
        \/ status'[p] = "FAILED"
    BY <1>0, <1>4 DEF Check, LocalTypes
  <2>3. pc[p] = "check_reconcile" /\ NotesMissed(p)
    BY <1>0, <1>4 DEF Check
  <2>4. NotesMissed(p)'
    BY <2>1, <2>2, <2>3 DEF NotesMissed, Looked, Required
  <2>. QED BY <2>1, <2>4, LooksOthers
<1>5. ASSUME NEW p \in Procs, WriteHandoff(p) \/ MergeState(p) PROVE LooksInv'
  <2>1. /\ \A q \in Procs \ {p} : /\ pc'[q] = pc[q] /\ cur'[q] = cur[q]
                                  /\ status'[q] = status[q] /\ missed'[q] = missed[q]
        /\ UNCHANGED <<claims, progress>> /\ pc[p] \in {"handoff", "merge"}
        /\ \/ pc'[p] = "raised"
           \/ pc'[p] \in {"merge", "progress"} /\ UNCHANGED <<cur, status, missed>>
    BY <1>0, <1>5 DEF WriteHandoff, MergeState, Unwind, Leave, Continue, LocalTypes
  <2>2. NotesMissed(p)
    BY <1>0
  <2>3. NotesMissed(p)'
    BY <2>1, <2>2 DEF NotesMissed, Looked
  <2>. QED BY <2>1, <2>3, LooksOthers
<1>6. ASSUME NEW p \in Procs, WriteProgress(p) PROVE LooksInv'
  <2>1. /\ \A q \in Procs \ {p} : pc'[q] = pc[q]
        /\ UNCHANGED <<claims, cur, status, missed>>
        /\ pc[p] = "progress" /\ pc'[p] = "notify" /\ NotesMissed(p)
    BY <1>0, <1>6 DEF WriteProgress, Continue, LocalTypes
  <2>2. ASSUME NEW q \in Procs PROVE NotesMissed(q)'
    BY <1>0, <2>1 DEF NotesMissed, Looked
  <2>3. Report \in RunIds /\ cur[p] \in RunIds
    BY <1>0, <2>1, SlotAssumption, OwnRun DEF RunIds, Active, Saved
  <2>4. UnnamedMeansClaimed'
    <3>1. CASE cur[p] = Report
      <4>1. progress'[Report] = [status |-> status[p], missed |-> missed[p]]
        BY <1>0, <1>6, <2>3, <3>1 DEF WriteProgress, DurableTypes
      <4>2. progress'[Report].status = status[p] /\ progress'[Report].missed = missed[p]
        BY <4>1
      <4>. QED BY <2>1, <3>1, <4>2 DEF UnnamedMeansClaimed, NotesMissed, Looked
    <3>2. CASE cur[p] # Report
      <4>1. progress'[Report] = progress[Report]
        BY <1>0, <1>6, <2>3, <3>2 DEF WriteProgress, DurableTypes
      <4>. QED BY <2>1, <4>1 DEF LooksInv, UnnamedMeansClaimed
    <3>. QED BY <3>1, <3>2
  <2>. QED BY <2>2, <2>4 DEF LooksInv
<1>7. CASE Tick \/ UNCHANGED vars
  BY <1>0, <1>7 DEF Tick, vars, LooksInv, UnnamedMeansClaimed, NotesMissed, Looked
<1>. QED BY <1>1, <1>2, <1>3, <1>4, <1>5, <1>6, <1>7 DEF Next, Step, CheckMissed

(* A report that completes without naming a required slot as missed means  *)
(* that somebody has claimed it (runner.py 190-199).                       *)
THEOREM NoFalseReport == Spec => []UnnamedMeansClaimed
<1>1. Init => LooksInv
  <2> SUFFICES ASSUME Init PROVE LooksInv
    OBVIOUS
  <2>1. UnnamedMeansClaimed
    BY SlotAssumption DEF Init, NoProgress, UnnamedMeansClaimed, RunIds, Absent
  <2>. QED BY <2>1 DEF Init, LooksInv, NotesMissed, Absent
<1>2. LooksInv => UnnamedMeansClaimed
  BY DEF LooksInv
<1>. QED BY <1>1, <1>2, InitIInv, NextIInv, LooksStep, PTL DEF Spec
=============================================================================
