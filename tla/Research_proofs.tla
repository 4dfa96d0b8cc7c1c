-------------------------- MODULE Research_proofs ---------------------------
(***************************************************************************)
(* The two models of the research programs.                                *)
(*                                                                         *)
(* ManualJobs: for any protocols, policies, number of jobs, edits, faults  *)
(* and tries, one evaluation per protocol and place, results that can be   *)
(* traced, and a readiness that rests on its report and is never           *)
(* overtaken.                                                              *)
(*                                                                         *)
(* DevelopmentDay: for any calendar, archive, halts and times on the grid, *)
(* no hole counts as data, and a trade ends in time.                       *)
(***************************************************************************)
EXTENDS ManualJobs, DevelopmentDay, TLAPS, FiniteSetTheorems, FunctionTheorems,
        WellFoundedInduction

(***************************************************************************)
(* Manual jobs.                                                            *)
(***************************************************************************)

Steps == {"idle", "report", "merge", "write", "check", "select", "compare",
          "seal", "claim", "open", "compare again", "final", "local"}
Sights == SUBSET {"market", "isolation"}
Laws == [protocol : Protocols, document : Documents, policy : Policies]
Readinesses == [ready : BOOLEAN, enabled : BOOLEAN, at : Nat, seen : Sights]
Jobs == [step : Steps, at : Nat, seen : Sights, law : Laws \cup {None},
         winner : BOOLEAN, read : Readinesses \cup {None}, tries : Nat]

OwnerTypes ==
    /\ authority \in [armed : BOOLEAN, protocol : Protocols, document : Documents,
                      policy : Policies]
    /\ readiness \in Readinesses
JobTypes == job \in [Procs -> Jobs] /\ clock \in Nat
RecordTypes ==
    /\ inForce \subseteq Parts
    /\ selections \subseteq [at : Nat, law : Laws, winner : BOOLEAN, inForce : SUBSET Parts]
    /\ claims \subseteq [protocol : Protocols, at : Nat]
    /\ opened \subseteq [at : Nat, by : Procs, protocol : Protocols]

\* What a research job in the cloud has made durable at each of its steps.
Selected == \E s \in selections : s.at = job[Cloud].at /\ s.law = job[Cloud].law
Chosen == \E s \in selections :
            s.at = job[Cloud].at /\ s.law = job[Cloud].law /\ s.winner
ResearchStep ==
    /\ Researching => job[Cloud].law \in Laws
    /\ job[Cloud].step \in {"claim", "open"} => Chosen
    /\ job[Cloud].step \in {"compare again", "final"} => Selected
    /\ job[Cloud].step = "open" =>
         [protocol |-> job[Cloud].law.protocol, at |-> job[Cloud].at] \in claims

\* What has been in force of its law since its last evaluation: what is in force
\* now, and once it has compared, what it compared.
InForceStep ==
    /\ job[Cloud].step \in {"compare", "compare again"} => InForce(Law) \subseteq inForce
    /\ job[Cloud].step = "seal" => Parts \subseteq inForce
    /\ job[Cloud].step = "final" => {"protocol", "policy"} \subseteq inForce
OneClaim == \A c, d \in claims : c.protocol = d.protocol => c = d

\* What a diagnostic has.
Reported(p) == job[p].step \in {"merge", "write"}
                 => Report(job[p].at, job[p].seen) \in reports
Compared(p) == job[p].step = "write"
                 => /\ job[p].read \in Readinesses
                    /\ ~job[p].read.ready /\ job[p].read.at <= job[p].at

\* What a local evaluation has.
LocalStep ==
    job[Operator].step = "local" =>
      /\ job[Operator].law.protocol \in localClaims
      /\ \A o \in opened : o.by = Operator => o.protocol # job[Operator].law.protocol
LocalOpened ==
    /\ \A o \in opened : o.by = Operator => o.protocol \in localClaims
    /\ \A o, q \in {x \in opened : x.by = Operator} : o.protocol = q.protocol => o = q
LocalLaw == job[Operator].step = "local" => job[Operator].law \in Laws

DiagnosticInv == ReadinessHasEvidence /\ \A p \in Procs : Reported(p) /\ Compared(p)
ResearchInv == ResearchStep /\ InForceStep /\ OneClaim /\ ResultsAreTraceable
LocalInv == LocalStep /\ LocalOpened /\ LocalLaw
ManualInv == OwnerTypes /\ JobTypes /\ RecordTypes /\ DiagnosticInv /\ ResearchInv /\ LocalInv

-----------------------------------------------------------------------------
(* What a step does to the record of its process. *)

LEMMA NewRecord ==
  ASSUME JobTypes, NEW p \in Procs, NEW j \in Jobs, job' = [job EXCEPT ![p] = j]
  PROVE  /\ job' \in [Procs -> Jobs] /\ job'[p] = j
         /\ \A q \in Procs : q # p => job'[q] = job[q]
  BY DEF JobTypes

LEMMA Moved ==
  ASSUME JobTypes, NEW p \in Procs, NEW s \in Steps, To(p, s)
  PROVE  /\ job' \in [Procs -> Jobs] /\ job'[p].step = s
         /\ job'[p].at = job[p].at /\ job'[p].seen = job[p].seen
         /\ job'[p].law = job[p].law /\ job'[p].read = job[p].read
         /\ job'[p].winner = job[p].winner
         /\ \A q \in Procs : q # p => job'[q] = job[q]
<1>1. [job[p] EXCEPT !.step = s] \in Jobs BY DEF JobTypes, Jobs
<1>2. job' = [job EXCEPT ![p] = [job[p] EXCEPT !.step = s]] BY DEF JobTypes, To
<1>3. job'[p] = [job[p] EXCEPT !.step = s] BY <1>1, <1>2, NewRecord
<1>4. job[p] \in Jobs BY DEF JobTypes
<1>5. /\ job'[p].step = s /\ job'[p].at = job[p].at /\ job'[p].seen = job[p].seen
      /\ job'[p].law = job[p].law /\ job'[p].read = job[p].read
      /\ job'[p].winner = job[p].winner
  BY <1>3, <1>4 DEF Jobs
<1>. QED BY <1>1, <1>2, <1>5, NewRecord

LEMMA IdleJob == Idle \in Jobs
  BY DEF Idle, Jobs, Steps, Sights

LEMMA Ended ==
  ASSUME JobTypes, NEW p \in Procs, End(p)
  PROVE  /\ job' \in [Procs -> Jobs] /\ job'[p].step = "idle"
         /\ \A q \in Procs : q # p => job'[q] = job[q]
<1>1. job' = [job EXCEPT ![p] = Idle] BY DEF End
<1>2. job'[p] = Idle BY <1>1, IdleJob, NewRecord
<1>. QED BY <1>1, <1>2, IdleJob, NewRecord DEF Idle

\* A process that starts has the step, sights and law of what it starts.
LEMMA Started ==
  ASSUME JobTypes, NEW p \in Procs, NEW j \in Jobs, Start(p, j)
  PROVE  /\ JobTypes' /\ job'[p].step = j.step /\ job'[p].law = j.law
         /\ \A q \in Procs : q # p => job'[q] = job[q]
<1>1. [j EXCEPT !.at = clock + 1] \in Jobs BY DEF JobTypes, Jobs
<1>2. job' = [job EXCEPT ![p] = [j EXCEPT !.at = clock + 1]] BY DEF Start
<1>3. job'[p] = [j EXCEPT !.at = clock + 1] BY <1>1, <1>2, NewRecord
<1>4. job'[p].step = j.step /\ job'[p].law = j.law BY <1>3 DEF Jobs
<1>. QED BY <1>1, <1>2, <1>4, NewRecord DEF JobTypes, Start

-----------------------------------------------------------------------------
(* Steps that leave the diagnostics, or the research, as they are. *)

LEMMA DiagnosticKept ==
  ASSUME DiagnosticInv, NEW p \in Procs,
         \A q \in Procs : q # p => job'[q] = job[q],
         job'[p].step \notin {"merge", "write"} \/ job'[p] = job[p],
         reports \subseteq reports',
         readiness'.at = readiness.at, readiness'.seen = readiness.seen
  PROVE  DiagnosticInv'
<1>1. ReadinessHasEvidence' BY DEF DiagnosticInv, ReadinessHasEvidence, Report
<1>2. ASSUME NEW q \in Procs PROVE Reported(q)' /\ Compared(q)'
  <2>1. CASE job'[q] = job[q]
    BY <2>1 DEF DiagnosticInv, Reported, Compared, Report
  <2>2. CASE q = p /\ job'[p].step \notin {"merge", "write"}
    BY <2>2 DEF Reported, Compared
  <2>. QED BY <2>1, <2>2
<1>. QED BY <1>1, <1>2 DEF DiagnosticInv

OtherSteps == {"idle", "report", "merge", "write", "check", "local"}

LEMMA ResearchKept ==
  ASSUME ResearchInv,
         \/ job'[Cloud] = job[Cloud] /\ authority' = authority /\ inForce' = inForce
         \/ job'[Cloud].step \in OtherSteps
         \/ job'[Cloud].step = "select" /\ job'[Cloud].law \in Laws,
         selections' = selections, claims' = claims, results' = results,
         \A o \in opened' : o.by = Cloud => o \in opened
  PROVE  ResearchInv'
<1>1. ResearchStep' /\ InForceStep'
  <2>1. CASE job'[Cloud] = job[Cloud] /\ authority' = authority /\ inForce' = inForce
    <3>1. ResearchStep'
      BY <2>1 DEF ResearchInv, ResearchStep, Researching, Chosen, Selected, Laws
    <3>2. Law' = Law BY <2>1 DEF Law
    <3>3. InForce(Law)' = InForce(Law) BY <2>1, <3>2 DEF InForce
    <3>4. InForceStep' BY <2>1, <3>3 DEF ResearchInv, InForceStep
    <3>. QED BY <3>1, <3>4
  <2>2. CASE job'[Cloud].step \in OtherSteps
    BY <2>2 DEF ResearchStep, Researching, InForceStep, OtherSteps
  <2>3. CASE job'[Cloud].step = "select" /\ job'[Cloud].law \in Laws
    BY <2>3 DEF ResearchStep, Researching, InForceStep, Laws
  <2>. QED BY <2>1, <2>2, <2>3
<1>2. OneClaim' BY DEF ResearchInv, OneClaim
<1>3. ResultsAreTraceable' BY DEF ResearchInv, ResultsAreTraceable
<1>. QED BY <1>1, <1>2, <1>3 DEF ResearchInv

LEMMA LocalKept ==
  ASSUME LocalInv, localClaims' = localClaims,
         \/ job'[Operator] = job[Operator]
         \/ job'[Operator].step # "local",
         \A o \in opened' : o.by = Operator => o \in opened
  PROVE  LocalInv'
<1>1. LocalStep' BY DEF LocalInv, LocalStep
<1>2. LocalOpened' BY DEF LocalInv, LocalOpened
<1>3. LocalLaw' BY DEF LocalInv, LocalLaw, Laws
<1>. QED BY <1>1, <1>2, <1>3 DEF LocalInv

-----------------------------------------------------------------------------
(* The invariant holds at first and every step keeps it. *)

LEMMA ManualInitInv == Init => ManualInv
<1>. SUFFICES ASSUME Init PROVE ManualInv OBVIOUS
<1>1. OwnerTypes BY DEF Init, OwnerTypes, Readinesses, Sights
<1>2. JobTypes BY IdleJob DEF Init, JobTypes
<1>3. RecordTypes BY DEF Init, RecordTypes
<1>4. \A p \in Procs : job[p].step = "idle" BY DEF Init, Idle
<1>5. DiagnosticInv
  BY <1>4 DEF Init, DiagnosticInv, ReadinessHasEvidence, Reported, Compared
<1>6. ResearchInv
  BY <1>4 DEF Init, ResearchInv, ResearchStep, Researching, InForceStep, OneClaim,
              ResultsAreTraceable, Procs
<1>7. LocalInv
  BY <1>4 DEF Init, LocalInv, LocalStep, LocalOpened, LocalLaw, Procs
<1>. QED BY <1>1, <1>2, <1>3, <1>5, <1>6, <1>7 DEF ManualInv

LEMMA DiagnoseKeeps ==
  ASSUME ManualInv, NEW p \in Procs, Diagnose(p)
  PROVE  ManualInv'
<1>1. PICK s \in Sights : Start(p, [Idle EXCEPT !.step = "report", !.seen = s])
  <2>1. PICK held, foreign, market \in BOOLEAN, alerts \in SUBSET {"ACCOUNT_NOT_BOUND", "OTHER"} :
          Start(p, [Idle EXCEPT !.step = "report", !.seen =
             (IF market THEN {"market"} ELSE {}) \cup
             (IF Isolated(held, foreign, alerts) THEN {"isolation"} ELSE {})])
    BY DEF Diagnose
  <2>. DEFINE seen == (IF market THEN {"market"} ELSE {}) \cup
                      (IF Isolated(held, foreign, alerts) THEN {"isolation"} ELSE {})
  <2>2. seen \in Sights BY DEF Sights
  <2>. QED BY <2>1, <2>2
<1>2. [Idle EXCEPT !.step = "report", !.seen = s] \in Jobs
  BY DEF Idle, Jobs, Steps, Sights
<1>3. /\ JobTypes' /\ job'[p].step = "report"
      /\ \A q \in Procs : q # p => job'[q] = job[q]
  BY <1>1, <1>2, Started DEF ManualInv, Idle
<1>4. UNCHANGED <<authority, readiness, reports, selections, claims, results, opened, inForce, localClaims>>
  BY DEF Diagnose, store, local
<1>5. OwnerTypes' /\ RecordTypes' BY <1>4 DEF ManualInv, OwnerTypes, RecordTypes
<1>6. DiagnosticInv' BY <1>3, <1>4, DiagnosticKept DEF ManualInv
<1>7. ResearchInv' BY <1>3, <1>4, ResearchKept DEF OtherSteps, ManualInv, Procs
<1>8. LocalInv' BY <1>3, <1>4, LocalKept DEF ManualInv, Procs
<1>. QED BY <1>3, <1>5, <1>6, <1>7, <1>8 DEF ManualInv

\* The end of a job, and its moves that write nothing.
LEMMA IdleKeeps ==
  ASSUME ManualInv, NEW p \in Procs, End(p),
         UNCHANGED <<authority, readiness, reports, selections, claims, results, clock, opened, inForce,
                     localClaims>>
  PROVE  ManualInv'
<1>1. /\ JobTypes' /\ job'[p].step = "idle"
      /\ \A q \in Procs : q # p => job'[q] = job[q]
  BY Ended DEF ManualInv, JobTypes
<1>2. OwnerTypes' /\ RecordTypes' BY DEF ManualInv, OwnerTypes, RecordTypes
<1>3. DiagnosticInv' BY <1>1, DiagnosticKept DEF ManualInv
<1>4. ResearchInv' BY <1>1, ResearchKept DEF OtherSteps, ManualInv, Procs
<1>5. LocalInv' BY <1>1, LocalKept DEF ManualInv, Procs
<1>. QED BY <1>1, <1>2, <1>3, <1>4, <1>5 DEF ManualInv

LEMMA AbortKeeps ==
  ASSUME ManualInv, NEW p \in Procs, NEW guard, Abort(p, guard)
  PROVE  ManualInv'
<1>1. End(p) /\ UNCHANGED <<authority, readiness, reports, selections, claims, results, clock, opened, inForce,
                       localClaims>>
  BY DEF Abort, store, local, history
<1>. QED BY <1>1, IdleKeeps

LEMMA RecordKeeps ==
  ASSUME ManualInv, NEW p \in Procs, Record(p)
  PROVE  ManualInv'
<1>1. CASE Abort(p, Safe) BY <1>1, AbortKeeps
<1>2. CASE /\ reports' = reports \cup {Report(job[p].at, job[p].seen)}
           /\ To(p, "merge")
           /\ UNCHANGED <<authority, readiness, selections, claims, results, local, history>>
  <2>1. /\ JobTypes' /\ job'[p].step = "merge"
        /\ job'[p].at = job[p].at /\ job'[p].seen = job[p].seen
        /\ \A q \in Procs : q # p => job'[q] = job[q]
    BY <1>2, Moved DEF ManualInv, JobTypes, Steps, history
  <2>2. OwnerTypes' /\ RecordTypes' BY <1>2 DEF ManualInv, OwnerTypes, RecordTypes, history
  <2>3. DiagnosticInv'
    <3>1. ReadinessHasEvidence' BY <1>2 DEF ManualInv, DiagnosticInv, ReadinessHasEvidence, Report
    <3>2. Reported(p)' /\ Compared(p)' BY <1>2, <2>1 DEF Reported, Compared, Report
    <3>3. \A q \in Procs : q # p => Reported(q)' /\ Compared(q)'
      BY <1>2, <2>1 DEF ManualInv, DiagnosticInv, Reported, Compared, Report
    <3>. QED BY <3>1, <3>2, <3>3 DEF DiagnosticInv
  <2>4. ResearchInv' BY <1>2, <2>1, ResearchKept DEF OtherSteps, ManualInv, Procs, history
  <2>5. LocalInv' BY <1>2, <2>1, LocalKept DEF ManualInv, Procs, history, local
  <2>. QED BY <2>1, <2>2, <2>3, <2>4, <2>5 DEF ManualInv
<1>. QED BY <1>1, <1>2 DEF Record

LEMMA MergeReadKeeps ==
  ASSUME ManualInv, NEW p \in Procs, MergeRead(p)
  PROVE  ManualInv'
<1>1. CASE Abort(p, Safe /\ ~Newer(p) /\ job[p].tries < Attempts)
  BY <1>1, AbortKeeps
<1>2. CASE /\ Safe /\ ~Newer(p)
           /\ job' = [job EXCEPT ![p].step = "write", ![p].read = readiness]
           /\ UNCHANGED <<authority, store, local, history, bounds>>
  <2>. DEFINE j == [job[p] EXCEPT !.step = "write", !.read = readiness]
  <2>0. job[p] \in Jobs BY DEF ManualInv, JobTypes
  <2>1. j \in Jobs BY <2>0 DEF ManualInv, OwnerTypes, Jobs, Steps
  <2>2. job' = [job EXCEPT ![p] = j] BY <1>2 DEF ManualInv, JobTypes
  <2>3. /\ job' \in [Procs -> Jobs] /\ job'[p] = j
        /\ \A q \in Procs : q # p => job'[q] = job[q]
    BY <2>1, <2>2, NewRecord DEF ManualInv
  <2>4. /\ job'[p].step = "write" /\ job'[p].read = readiness
        /\ job'[p].at = job[p].at /\ job'[p].seen = job[p].seen
    BY <2>0, <2>3 DEF Jobs
  <2>5. UNCHANGED <<authority, readiness, reports, selections, claims, results, clock, opened, inForce,
                  localClaims>>
    BY <1>2 DEF store, history, local
  <2>6. OwnerTypes' /\ RecordTypes' /\ JobTypes'
    BY <2>3, <2>5 DEF ManualInv, OwnerTypes, RecordTypes, JobTypes
  <2>7. DiagnosticInv'
    <3>1. ReadinessHasEvidence' BY <2>5 DEF ManualInv, DiagnosticInv, ReadinessHasEvidence, Report
    <3>2. Reported(p)'
      BY <2>4, <2>5 DEF ManualInv, DiagnosticInv, Reported, Report, MergeRead, At
    <3>3. Compared(p)'
      <4>1. ~readiness.ready BY <1>2 DEF Safe
      <4>2. readiness.at \in Nat /\ job[p].at \in Nat
        BY <2>0 DEF ManualInv, OwnerTypes, Readinesses, Jobs
      <4>3. readiness.at <= job[p].at BY <1>2, <4>2 DEF Newer
      <4>4. readiness \in Readinesses BY DEF ManualInv, OwnerTypes
      <4>. QED BY <2>4, <4>1, <4>3, <4>4 DEF Compared, Readinesses, Sights
    <3>4. \A q \in Procs : q # p => Reported(q)' /\ Compared(q)'
      BY <2>3, <2>5 DEF ManualInv, DiagnosticInv, Reported, Compared, Report
    <3>. QED BY <3>1, <3>2, <3>3, <3>4 DEF DiagnosticInv
  <2>8. ResearchInv' BY <2>3, <2>4, <2>5, ResearchKept DEF OtherSteps, ManualInv, Procs
  <2>9. LocalInv' BY <2>3, <2>4, <2>5, LocalKept DEF ManualInv, Procs
  <2>. QED BY <2>6, <2>7, <2>8, <2>9 DEF ManualInv
<1>. QED BY <1>1, <1>2 DEF MergeRead

\* A write that succeeds: readiness shows the report of its job.
LEMMA WriteKeeps ==
  ASSUME ManualInv, NEW p \in Procs, At(p, "write"), readiness' = Merged(p),
         To(p, "check") \/ End(p),
         UNCHANGED <<authority, reports, selections, claims, results, localClaims, history>>
  PROVE  ManualInv'
<1>1. /\ job' \in [Procs -> Jobs] /\ job'[p].step \in {"check", "idle"}
      /\ \A q \in Procs : q # p => job'[q] = job[q]
  BY Moved, Ended DEF ManualInv, Steps
<1>2. job[p].at \in Nat /\ job[p].seen \in Sights BY DEF ManualInv, JobTypes, Jobs
<1>3. readiness \in Readinesses BY DEF ManualInv, OwnerTypes
<1>4. /\ readiness' \in Readinesses
      /\ readiness'.at = job[p].at /\ readiness'.seen = job[p].seen
  BY <1>2, <1>3 DEF Merged, Readinesses
<1>5. OwnerTypes' /\ JobTypes' /\ RecordTypes'
  BY <1>1, <1>4 DEF ManualInv, OwnerTypes, JobTypes, RecordTypes, history
<1>6. DiagnosticInv'
  <2>1. Report(job[p].at, job[p].seen) \in reports
    BY DEF ManualInv, DiagnosticInv, Reported, At
  <2>2. ReadinessHasEvidence' BY <1>4, <2>1 DEF ReadinessHasEvidence, Report
  <2>3. Reported(p)' /\ Compared(p)' BY <1>1 DEF Reported, Compared
  <2>4. \A q \in Procs : q # p => Reported(q)' /\ Compared(q)'
    BY <1>1 DEF ManualInv, DiagnosticInv, Reported, Compared, Report
  <2>. QED BY <2>2, <2>3, <2>4 DEF DiagnosticInv
<1>7. ResearchInv' BY <1>1, ResearchKept DEF OtherSteps, ManualInv, Procs, history
<1>8. LocalInv' BY <1>1, LocalKept DEF ManualInv, Procs, history
<1>. QED BY <1>5, <1>6, <1>7, <1>8 DEF ManualInv

\* A write that is refused or not answered: the job goes back.
LEMMA RefusedKeeps ==
  ASSUME ManualInv, NEW p \in Procs, At(p, "write"),
         job' = [job EXCEPT ![p].step = "merge", ![p].read = None, ![p].tries = @ + 1],
         UNCHANGED <<authority, readiness, reports, selections, claims, results, localClaims,
                     history>>
  PROVE  ManualInv'
<1>. DEFINE j == [job[p] EXCEPT !.step = "merge", !.read = None, !.tries = @ + 1]
<1>1. job[p] \in Jobs BY DEF ManualInv, JobTypes
<1>2. j \in Jobs
  <2>1. job[p].tries \in Nat BY <1>1 DEF Jobs
  <2>2. job[p].tries + 1 \in Nat BY <2>1
  <2>3. j = [job[p] EXCEPT !.step = "merge", !.read = None, !.tries = job[p].tries + 1]
    OBVIOUS
  <2>. HIDE DEF j
  <2>. QED BY <1>1, <2>2, <2>3, Zenon DEF Jobs, Steps
<1>3. job' = [job EXCEPT ![p] = j] BY DEF ManualInv, JobTypes
<1>4. /\ job' \in [Procs -> Jobs] /\ job'[p] = j
      /\ \A q \in Procs : q # p => job'[q] = job[q]
  BY <1>2, <1>3, NewRecord DEF ManualInv
<1>5. job'[p].step = "merge" /\ job'[p].at = job[p].at /\ job'[p].seen = job[p].seen
  BY <1>1, <1>4 DEF Jobs
<1>6. OwnerTypes' /\ JobTypes' /\ RecordTypes'
  BY <1>4 DEF ManualInv, OwnerTypes, JobTypes, RecordTypes, history
<1>7. DiagnosticInv'
  <2>1. ReadinessHasEvidence' BY DEF ManualInv, DiagnosticInv, ReadinessHasEvidence, Report
  <2>2. Report(job[p].at, job[p].seen) \in reports
    BY DEF ManualInv, DiagnosticInv, Reported, At
  <2>3. Reported(p)'
    <3>1. reports' = reports OBVIOUS
    <3>2. Report(job'[p].at, job'[p].seen) = Report(job[p].at, job[p].seen)
      BY <1>5 DEF Report
    <3>. QED BY <2>2, <3>1, <3>2, Zenon DEF Reported, Report
  <2>4. Compared(p)' BY <1>5 DEF Compared
  <2>5. \A q \in Procs : q # p => Reported(q)' /\ Compared(q)'
    BY <1>4 DEF ManualInv, DiagnosticInv, Reported, Compared, Report
  <2>. QED BY <2>1, <2>3, <2>4, <2>5 DEF DiagnosticInv
<1>8. ResearchInv' BY <1>4, <1>5, ResearchKept DEF OtherSteps, ManualInv, Procs, history
<1>9. LocalInv' BY <1>4, <1>5, LocalKept DEF ManualInv, Procs, history
<1>. QED BY <1>6, <1>7, <1>8, <1>9 DEF ManualInv

LEMMA MergeWriteKeeps ==
  ASSUME ManualInv, NEW p \in Procs, MergeWrite(p)
  PROVE  ManualInv'
<1>1. UNCHANGED <<authority, reports, selections, claims, results, localClaims, history>>
  BY DEF MergeWrite, local
<1>2. CASE readiness' = Merged(p) /\ (To(p, "check") \/ End(p))
  BY <1>1, <1>2, WriteKeeps DEF MergeWrite
<1>3. CASE /\ job' = [job EXCEPT ![p].step = "merge", ![p].read = None, ![p].tries = @ + 1]
           /\ UNCHANGED readiness
  BY <1>1, <1>3, RefusedKeeps DEF MergeWrite
<1>. QED BY <1>2, <1>3 DEF MergeWrite

LEMMA LawTyped == OwnerTypes => Law \in Laws /\ Law.protocol = authority.protocol
<1>. SUFFICES ASSUME OwnerTypes PROVE Law \in Laws /\ Law.protocol = authority.protocol
  OBVIOUS
<1>1. Law = [protocol |-> authority.protocol, document |-> authority.document,
             policy |-> authority.policy]
  BY DEF Law, Parts
<1>. QED BY <1>1 DEF OwnerTypes, Laws

LEMMA ResearchKeeps ==
  ASSUME ManualInv, Research
  PROVE  ManualInv'
<1>. DEFINE j == [Idle EXCEPT !.step = "select", !.law = Law]
<1>1. Start(Cloud, j) BY DEF Research
<1>2. Law \in Laws BY LawTyped DEF ManualInv
<1>3. j \in Jobs /\ j.step = "select" /\ j.law = Law
  BY <1>2 DEF Idle, Jobs, Steps, Sights
<1>. HIDE DEF j
<1>4. /\ JobTypes' /\ job'[Cloud].step = "select" /\ job'[Cloud].law = Law
      /\ \A q \in Procs : q # Cloud => job'[q] = job[q]
  BY <1>1, <1>3, Started DEF ManualInv, Procs
<1>5. UNCHANGED <<authority, readiness, reports, selections, claims, results, opened, inForce,
                 localClaims>>
  BY DEF Research, store, local
<1>6. OwnerTypes' /\ RecordTypes' BY <1>5 DEF ManualInv, OwnerTypes, RecordTypes
<1>7. DiagnosticInv' BY <1>4, <1>5, DiagnosticKept DEF ManualInv, Procs
<1>8. ResearchInv' BY <1>2, <1>4, <1>5, ResearchKept DEF ManualInv
<1>9. LocalInv' BY <1>4, <1>5, LocalKept, ManualAssumption DEF ManualInv, Procs
<1>. QED BY <1>4, <1>6, <1>7, <1>8, <1>9 DEF ManualInv

\* What a move of the research job to another step leaves as it is.
LEMMA ResearchMoved ==
  ASSUME ManualInv, NEW s \in Steps \ {"merge", "write"}, To(Cloud, s),
         UNCHANGED <<authority, readiness, reports, localClaims, clock>>,
         \A o \in opened' : o.by = Operator => o \in opened
  PROVE  /\ OwnerTypes' /\ JobTypes' /\ DiagnosticInv' /\ LocalInv'
         /\ job'[Cloud].step = s /\ job'[Cloud].at = job[Cloud].at
         /\ job'[Cloud].law = job[Cloud].law /\ job'[Cloud].winner = job[Cloud].winner
<1>1. /\ job' \in [Procs -> Jobs] /\ job'[Cloud].step = s
      /\ job'[Cloud].at = job[Cloud].at /\ job'[Cloud].law = job[Cloud].law
      /\ job'[Cloud].winner = job[Cloud].winner
      /\ \A q \in Procs : q # Cloud => job'[q] = job[q]
  BY Moved DEF ManualInv, Procs
<1>2. OwnerTypes' /\ JobTypes' BY <1>1 DEF ManualInv, OwnerTypes, JobTypes
<1>3. DiagnosticInv' BY <1>1, DiagnosticKept DEF ManualInv, Procs
<1>4. LocalInv' BY <1>1, LocalKept, ManualAssumption DEF ManualInv, Procs
<1>. QED BY <1>1, <1>2, <1>3, <1>4

\* The candidates are judged: what is in force now is what counts from here on.
LEMMA SelectKeeps ==
  ASSUME ManualInv, Select
  PROVE  ManualInv'
<1>1. CASE Abort(Cloud, ResearchSafe) BY <1>1, AbortKeeps DEF Procs
<1>2. CASE ~Abort(Cloud, ResearchSafe)
  <2>1. PICK w \in BOOLEAN :
          job' = [job EXCEPT ![Cloud].step = "compare", ![Cloud].winner = w]
    BY <1>2 DEF Select
  <2>. DEFINE j == [job[Cloud] EXCEPT !.step = "compare", !.winner = w]
  <2>2. /\ inForce' = InForce(Law)
        /\ UNCHANGED <<authority, readiness, reports, selections, claims, results, localClaims,
                       clock, opened>>
    BY <1>2 DEF Select, store, local
  <2>3. job[Cloud] \in Jobs BY DEF ManualInv, JobTypes, Procs
  <2>4. j \in Jobs BY <2>3 DEF Jobs, Steps
  <2>5. job' = [job EXCEPT ![Cloud] = j] BY <2>1, <2>3 DEF ManualInv, JobTypes, Procs
  <2>6. /\ job' \in [Procs -> Jobs] /\ job'[Cloud] = j
        /\ \A q \in Procs : q # Cloud => job'[q] = job[q]
    BY <2>4, <2>5, NewRecord DEF ManualInv, Procs
  <2>7. job'[Cloud].step = "compare" /\ job'[Cloud].law = job[Cloud].law
    BY <2>3, <2>6 DEF Jobs
  <2>8. OwnerTypes' /\ JobTypes' /\ RecordTypes'
    BY <2>2, <2>6 DEF ManualInv, OwnerTypes, JobTypes, RecordTypes, InForce
  <2>9. DiagnosticInv' BY <2>2, <2>6, <2>7, DiagnosticKept DEF ManualInv, Procs
  <2>10. LocalInv' BY <2>2, <2>6, LocalKept, ManualAssumption DEF ManualInv, Procs
  <2>11. ResearchStep'
    BY <2>7 DEF ManualInv, ResearchInv, ResearchStep, Researching, Select, At
  <2>12. InForceStep'
    <3>1. Law' = Law BY <2>2 DEF Law
    <3>2. InForce(Law)' = InForce(Law) BY <2>7, <3>1 DEF InForce
    <3>. QED BY <2>2, <2>7, <3>2 DEF InForceStep
  <2>13. OneClaim' /\ ResultsAreTraceable'
    BY <2>2 DEF ManualInv, ResearchInv, OneClaim, ResultsAreTraceable
  <2>. QED BY <2>8, <2>9, <2>10, <2>11, <2>12, <2>13 DEF ManualInv, ResearchInv
<1>. QED BY <1>1, <1>2

\* What is compared is in force.
LEMMA SameInForce ==
  ASSUME NEW parts \in SUBSET Parts, SameLaw(parts), InForce(Law) \subseteq inForce
  PROVE  parts \subseteq inForce
  BY DEF SameLaw, InForce

\* The comparison before the selection.
LEMMA CompareKeeps ==
  ASSUME ManualInv, Compare
  PROVE  ManualInv'
<1>1. /\ At(Cloud, "compare") /\ SameLaw(Parts) /\ To(Cloud, "seal")
      /\ UNCHANGED <<authority, readiness, reports, selections, claims, results, localClaims,
                     clock, opened, inForce>>
  BY DEF Compare, store, local, history
<1>2. /\ OwnerTypes' /\ JobTypes' /\ DiagnosticInv' /\ LocalInv'
      /\ job'[Cloud].step = "seal" /\ job'[Cloud].law = job[Cloud].law
  BY <1>1, ResearchMoved DEF Steps
<1>3. RecordTypes' BY <1>1 DEF ManualInv, RecordTypes
<1>4. InForceStep'
  <2>1. Parts \subseteq inForce
    BY <1>1, SameInForce DEF ManualInv, ResearchInv, InForceStep, At
  <2>. QED BY <1>1, <1>2, <2>1 DEF InForceStep
<1>5. ResearchStep'
  BY <1>1, <1>2 DEF ManualInv, ResearchInv, ResearchStep, Researching, At
<1>6. OneClaim' /\ ResultsAreTraceable'
  BY <1>1 DEF ManualInv, ResearchInv, OneClaim, ResultsAreTraceable
<1>. QED BY <1>2, <1>3, <1>4, <1>5, <1>6 DEF ManualInv, ResearchInv

\* The comparison before the result.
LEMMA CompareAgainKeeps ==
  ASSUME ManualInv, CompareAgain
  PROVE  ManualInv'
<1>. DEFINE parts == {"protocol", "policy"}
<1>1. /\ At(Cloud, "compare again") /\ SameLaw(parts) /\ To(Cloud, "final")
      /\ UNCHANGED <<authority, readiness, reports, selections, claims, results, localClaims,
                     clock, opened, inForce>>
  BY DEF CompareAgain, store, local, history
<1>2. /\ OwnerTypes' /\ JobTypes' /\ DiagnosticInv' /\ LocalInv'
      /\ job'[Cloud].step = "final" /\ job'[Cloud].at = job[Cloud].at
      /\ job'[Cloud].law = job[Cloud].law
  BY <1>1, ResearchMoved DEF Steps
<1>3. RecordTypes' BY <1>1 DEF ManualInv, RecordTypes
<1>4. InForceStep'
  <2>1. parts \in SUBSET Parts BY DEF Parts
  <2>2. InForce(Law) \subseteq inForce
    BY <1>1 DEF ManualInv, ResearchInv, InForceStep, At
  <2>3. parts \subseteq inForce BY <1>1, <2>1, <2>2, SameInForce
  <2>. QED BY <1>1, <1>2, <2>3 DEF InForceStep
<1>5. ResearchStep'
  <2>1. Selected /\ job[Cloud].law \in Laws
    BY <1>1 DEF ManualInv, ResearchInv, ResearchStep, Researching, At
  <2>2. Selected' BY <1>1, <1>2, <2>1 DEF Selected
  <2>. QED BY <1>2, <2>1, <2>2 DEF ResearchStep, Researching
<1>6. OneClaim' /\ ResultsAreTraceable'
  BY <1>1 DEF ManualInv, ResearchInv, OneClaim, ResultsAreTraceable
<1>. QED BY <1>2, <1>3, <1>4, <1>5, <1>6 DEF ManualInv, ResearchInv

LEMMA SealKeeps ==
  ASSUME ManualInv, Seal
  PROVE  ManualInv'
<1>1. CASE Abort(Cloud, ResearchSafe) BY <1>1, AbortKeeps DEF Procs
<1>2. CASE ~Abort(Cloud, ResearchSafe)
  <2>. DEFINE next == IF job[Cloud].winner THEN "claim" ELSE "compare again"
  <2>1. /\ selections' = selections \cup {Sealed} /\ To(Cloud, next)
        /\ UNCHANGED <<authority, readiness, reports, claims, results, localClaims, clock,
                       opened, inForce>>
    BY <1>2 DEF Seal, local, history
  <2>2. /\ next \in Steps \ {"merge", "write"} /\ next \in {"claim", "compare again"}
        /\ next = "claim" => job[Cloud].winner
    BY DEF Steps
  <2>3. /\ job[Cloud].step = "seal" /\ job[Cloud].law \in Laws /\ Parts \subseteq inForce
    BY DEF Seal, At, ManualInv, ResearchInv, ResearchStep, Researching, InForceStep
  <2>4. /\ Sealed \in [at : Nat, law : Laws, winner : BOOLEAN, inForce : SUBSET Parts]
        /\ Sealed.at = job[Cloud].at /\ Sealed.law = job[Cloud].law
        /\ Sealed.winner = job[Cloud].winner /\ Sealed.inForce = inForce
    <3>1. job[Cloud].at \in Nat /\ job[Cloud].winner \in BOOLEAN
      BY DEF ManualInv, JobTypes, Jobs, Procs
    <3>2. inForce \in SUBSET Parts BY DEF ManualInv, RecordTypes
    <3>. QED BY <2>3, <3>1, <3>2 DEF Sealed
  <2>. HIDE DEF next
  <2>5. /\ OwnerTypes' /\ JobTypes' /\ DiagnosticInv' /\ LocalInv'
        /\ job'[Cloud].step = next /\ job'[Cloud].at = job[Cloud].at
        /\ job'[Cloud].law = job[Cloud].law
    BY <2>1, <2>2, ResearchMoved
  <2>6. RecordTypes' BY <2>1, <2>4 DEF ManualInv, RecordTypes
  <2>7. Selected' BY <2>1, <2>4, <2>5 DEF Selected
  <2>8. next = "claim" => Chosen' BY <2>1, <2>2, <2>4, <2>5 DEF Chosen
  <2>9. ResearchStep'
    BY <2>2, <2>3, <2>5, <2>7, <2>8 DEF ResearchStep, Researching
  <2>10. InForceStep'
    <3>1. InForce(Law)' \subseteq Parts BY DEF InForce
    <3>. QED BY <2>1, <2>2, <2>3, <2>5, <3>1 DEF InForceStep
  <2>11. OneClaim' BY <2>1 DEF ManualInv, ResearchInv, OneClaim
  <2>12. ResultsAreTraceable'
    BY <2>1, <2>3, <2>4 DEF ManualInv, ResearchInv, ResultsAreTraceable
  <2>. QED BY <2>5, <2>6, <2>9, <2>10, <2>11, <2>12 DEF ManualInv, ResearchInv
<1>. QED BY <1>1, <1>2

\* The claim: none was there for its protocol.
LEMMA ClaimKeeps ==
  ASSUME ManualInv, Claim
  PROVE  ManualInv'
<1>. DEFINE protocol == job[Cloud].law.protocol
           c == [protocol |-> protocol, at |-> job[Cloud].at]
<1>1. CASE Abort(Cloud, ResearchSafe /\ ~Claimed(protocol)) BY <1>1, AbortKeeps DEF Procs
<1>2. CASE ~Abort(Cloud, ResearchSafe /\ ~Claimed(protocol))
  <2>1. /\ ~Claimed(protocol) /\ claims' = claims \cup {c}
        /\ To(Cloud, "open") \/ End(Cloud)
        /\ UNCHANGED <<authority, readiness, reports, selections, results, localClaims, clock, opened,
                       inForce>>
    BY <1>2 DEF Claim, local, history
  <2>2. /\ job[Cloud].step = "claim" /\ job[Cloud].law \in Laws /\ Chosen
        /\ job[Cloud].at \in Nat
    BY DEF Claim, At, ManualInv, ResearchInv, ResearchStep, Researching, JobTypes, Jobs, Procs
  <2>3. c \in [protocol : Protocols, at : Nat] BY <2>2 DEF Laws
  <2>4. RecordTypes' BY <2>1, <2>3 DEF ManualInv, RecordTypes
  <2>5. OneClaim' BY <2>1 DEF ManualInv, ResearchInv, OneClaim, Claimed
  <2>6. ResultsAreTraceable' BY <2>1 DEF ManualInv, ResearchInv, ResultsAreTraceable
  <2>7. CASE To(Cloud, "open")
    <3>1. /\ OwnerTypes' /\ JobTypes' /\ DiagnosticInv' /\ LocalInv'
          /\ job'[Cloud].step = "open" /\ job'[Cloud].at = job[Cloud].at
          /\ job'[Cloud].law = job[Cloud].law
      BY <2>1, <2>7, ResearchMoved DEF Steps
    <3>2. Chosen' BY <2>1, <2>2, <3>1 DEF Chosen
    <3>3. ResearchStep' BY <2>1, <2>2, <3>1, <3>2 DEF ResearchStep, Researching
    <3>4. InForceStep' BY <3>1 DEF InForceStep
    <3>. QED BY <3>4, <2>4, <2>5, <2>6, <3>1, <3>3 DEF ManualInv, ResearchInv
  <2>8. CASE End(Cloud)
    <3>1. /\ job' \in [Procs -> Jobs] /\ job'[Cloud].step = "idle"
          /\ \A q \in Procs : q # Cloud => job'[q] = job[q]
      BY <2>8, Ended DEF ManualInv, Procs
    <3>2. OwnerTypes' /\ JobTypes' BY <2>1, <3>1 DEF ManualInv, OwnerTypes, JobTypes
    <3>3. DiagnosticInv' BY <2>1, <3>1, DiagnosticKept DEF ManualInv, Procs
    <3>4. LocalInv' BY <2>1, <3>1, LocalKept, ManualAssumption DEF ManualInv, Procs
    <3>5. ResearchStep' /\ InForceStep' BY <3>1 DEF ResearchStep, Researching, InForceStep
    <3>. QED BY <2>4, <2>5, <2>6, <3>2, <3>3, <3>4, <3>5 DEF ManualInv, ResearchInv
  <2>. QED BY <2>1, <2>7, <2>8
<1>. QED BY <1>1, <1>2

LEMMA OpenKeeps ==
  ASSUME ManualInv, Open
  PROVE  ManualInv'
<1>. DEFINE o == [at |-> job[Cloud].at, by |-> Cloud, protocol |-> job[Cloud].law.protocol]
<1>1. CASE Abort(Cloud, ResearchSafe) BY <1>1, AbortKeeps DEF Procs
<1>2. CASE ~Abort(Cloud, ResearchSafe)
  <2>0. inForce' = InForce(Law) BY <1>2 DEF Open
  <2>1. /\ opened' = opened \cup {o} /\ To(Cloud, "compare again")
        /\ UNCHANGED <<authority, readiness, reports, selections, claims, results, localClaims,
                       clock>>
    BY <1>2 DEF Open, store, local
  <2>2. /\ job[Cloud].step = "open" /\ job[Cloud].law \in Laws /\ Chosen
        /\ [protocol |-> job[Cloud].law.protocol, at |-> job[Cloud].at] \in claims
        /\ job[Cloud].at \in Nat
    BY DEF Open, At, ManualInv, ResearchInv, ResearchStep, Researching, JobTypes, Jobs, Procs
  <2>3. \A q \in opened' : q.by = Operator => q \in opened
    <3>1. o.by # Operator BY ManualAssumption
    <3>2. opened' = opened \cup {o} BY <2>1
    <3>. HIDE DEF o
    <3>. QED BY <3>1, <3>2
  <2>4. /\ OwnerTypes' /\ JobTypes' /\ DiagnosticInv' /\ LocalInv'
        /\ job'[Cloud].step = "compare again" /\ job'[Cloud].at = job[Cloud].at
        /\ job'[Cloud].law = job[Cloud].law
    BY <2>1, <2>3, ResearchMoved DEF Steps
  <2>5. RecordTypes'
    <3>1. inForce' \subseteq Parts BY <2>0 DEF InForce
    <3>2. o \in [at : Nat, by : Procs, protocol : Protocols] BY <2>2 DEF Laws, Procs
    <3>. HIDE DEF o
    <3>. QED BY <2>1, <3>1, <3>2 DEF ManualInv, RecordTypes
  <2>6. OneClaim' BY <2>1 DEF ManualInv, ResearchInv, OneClaim
  <2>7. ResearchStep'
    <3>1. Selected' BY <2>1, <2>2, <2>4 DEF Chosen, Selected
    <3>. QED BY <2>2, <2>4, <3>1 DEF ResearchStep, Researching
  <2>8. InForceStep'
    <3>1. Law' = Law BY <2>1 DEF Law
    <3>2. InForce(Law)' = InForce(Law) BY <2>4, <3>1 DEF InForce
    <3>. QED BY <2>0, <2>4, <3>2 DEF InForceStep
  <2>9. ResultsAreTraceable'
    <3>1. \E s \in selections : s.at = o.at /\ s.winner /\ s.law.protocol = o.protocol
      BY <2>2 DEF Chosen
    <3>2. [protocol |-> o.protocol, at |-> o.at] \in claims BY <2>2
    <3>. HIDE DEF o
    <3>. QED BY <2>1, <3>1, <3>2 DEF ManualInv, ResearchInv, ResultsAreTraceable
  <2>. QED BY <2>4, <2>5, <2>6, <2>7, <2>8, <2>9 DEF ManualInv, ResearchInv
<1>. QED BY <1>1, <1>2

LEMMA FinalKeeps ==
  ASSUME ManualInv, Final
  PROVE  ManualInv'
<1>1. CASE Abort(Cloud, ResearchSafe) BY <1>1, AbortKeeps DEF Procs
<1>2. CASE ~Abort(Cloud, ResearchSafe)
  <2>. DEFINE r == [at |-> job[Cloud].at, protocol |-> job[Cloud].law.protocol,
                    inForce |-> inForce]
  <2>1. /\ results' = results \cup {r}
        /\ End(Cloud)
        /\ UNCHANGED <<authority, readiness, reports, selections, claims, localClaims, clock, opened,
                       inForce>>
    BY <1>2 DEF Final, local, history
  <2>2. Selected /\ {"protocol", "policy"} \subseteq inForce
    BY DEF Final, At, ManualInv, ResearchInv, ResearchStep, InForceStep
  <2>3. /\ job' \in [Procs -> Jobs] /\ job'[Cloud].step = "idle"
        /\ \A q \in Procs : q # Cloud => job'[q] = job[q]
    BY <2>1, Ended DEF ManualInv, Procs
  <2>4. OwnerTypes' /\ JobTypes' /\ RecordTypes'
    BY <2>1, <2>3 DEF ManualInv, OwnerTypes, JobTypes, RecordTypes
  <2>5. DiagnosticInv' BY <2>1, <2>3, DiagnosticKept DEF ManualInv, Procs
  <2>6. LocalInv' BY <2>1, <2>3, LocalKept, ManualAssumption DEF ManualInv, Procs
  <2>7. ResearchStep' /\ InForceStep' /\ OneClaim'
    BY <2>1, <2>3 DEF ManualInv, ResearchInv, ResearchStep, Researching, InForceStep, OneClaim
  <2>8. ResultsAreTraceable'
    <3>1. /\ {"protocol", "policy"} \subseteq r.inForce
          /\ \E s \in selections : s.at = r.at /\ s.law.protocol = r.protocol
      BY <2>2 DEF Selected
    <3>. HIDE DEF r
    <3>. QED BY <2>1, <3>1 DEF ManualInv, ResearchInv, ResultsAreTraceable
  <2>. QED BY <2>4, <2>5, <2>6, <2>7, <2>8 DEF ManualInv, ResearchInv
<1>. QED BY <1>1, <1>2

\* Where nothing of the invariant moves but the clock.
LEMMA StutterKeeps ==
  ASSUME ManualInv, clock' \in Nat,
         UNCHANGED <<authority, readiness, reports, selections, claims, results, opened, inForce,
                     localClaims, job>>
  PROVE  ManualInv'
<1>1. OwnerTypes' /\ JobTypes' /\ RecordTypes'
  BY DEF ManualInv, OwnerTypes, JobTypes, RecordTypes
<1>2. DiagnosticInv'
  BY DEF ManualInv, DiagnosticInv, ReadinessHasEvidence, Reported, Compared, Report
<1>3. ResearchInv' BY ResearchKept DEF OtherSteps, ManualInv
<1>4. LocalInv' BY LocalKept DEF ManualInv
<1>. QED BY <1>1, <1>2, <1>3, <1>4 DEF ManualInv

LEMMA LocalClaimKeeps ==
  ASSUME ManualInv, LocalClaim
  PROVE  ManualInv'
<1>. DEFINE j == [Idle EXCEPT !.step = "local", !.law = Law]
<1>1. /\ Start(Operator, j) /\ authority.protocol \notin localClaims
      /\ localClaims' = localClaims \cup {authority.protocol}
      /\ UNCHANGED <<authority, readiness, reports, selections, claims, results, opened, inForce>>
  BY DEF LocalClaim, store
<1>2. Law \in Laws /\ Law.protocol = authority.protocol BY LawTyped DEF ManualInv
<1>3. j \in Jobs /\ j.step = "local" /\ j.law = Law
  BY <1>2 DEF Idle, Jobs, Steps, Sights
<1>. HIDE DEF j
<1>4. /\ JobTypes' /\ job'[Operator].step = "local" /\ job'[Operator].law = Law
      /\ \A q \in Procs : q # Operator => job'[q] = job[q]
  BY <1>1, <1>3, Started DEF ManualInv, Procs
<1>5. OwnerTypes' /\ RecordTypes' BY <1>1 DEF ManualInv, OwnerTypes, RecordTypes
<1>6. DiagnosticInv' BY <1>1, <1>4, DiagnosticKept DEF ManualInv, Procs
<1>7. ResearchInv' BY <1>1, <1>4, ResearchKept, ManualAssumption DEF OtherSteps, ManualInv, Procs
<1>8. LocalInv'
  <2>1. LocalStep' BY <1>1, <1>2, <1>4 DEF ManualInv, LocalInv, LocalOpened, LocalStep
  <2>2. LocalOpened' BY <1>1 DEF ManualInv, LocalInv, LocalOpened
  <2>3. LocalLaw' BY <1>2, <1>4 DEF LocalLaw, Laws
  <2>. QED BY <2>1, <2>2, <2>3 DEF LocalInv
<1>. QED BY <1>4, <1>5, <1>6, <1>7, <1>8 DEF ManualInv

LEMMA LocalOpenKeeps ==
  ASSUME ManualInv, LocalOpen
  PROVE  ManualInv'
<1>. DEFINE o == [at |-> job[Operator].at, by |-> Operator,
                  protocol |-> job[Operator].law.protocol]
<1>1. /\ opened' = opened \cup {o} /\ End(Operator)
      /\ UNCHANGED <<authority, readiness, reports, selections, claims, results, localClaims,
                     clock, inForce>>
  BY DEF LocalOpen, store, local
<1>2. /\ job[Operator].step = "local" /\ job[Operator].law \in Laws
      /\ job[Operator].at \in Nat
  BY DEF LocalOpen, At, ManualInv, LocalInv, LocalLaw, JobTypes, Jobs, Procs
<1>3. /\ o.protocol \in localClaims
      /\ \A q \in opened : q.by = Operator => q.protocol # o.protocol
  BY <1>2 DEF ManualInv, LocalInv, LocalStep
<1>4. o \in [at : Nat, by : Procs, protocol : Protocols] /\ o.by = Operator
  BY <1>2 DEF Laws, Procs
<1>. HIDE DEF o
<1>5. /\ job' \in [Procs -> Jobs] /\ job'[Operator].step = "idle"
      /\ \A q \in Procs : q # Operator => job'[q] = job[q]
  BY <1>1, Ended DEF ManualInv, Procs
<1>6. OwnerTypes' /\ JobTypes' /\ RecordTypes'
  BY <1>1, <1>4, <1>5 DEF ManualInv, OwnerTypes, JobTypes, RecordTypes
<1>7. DiagnosticInv' BY <1>1, <1>5, DiagnosticKept DEF ManualInv, Procs
<1>8. ResearchInv'
  <2>1. \A q \in opened' : q.by = Cloud => q \in opened BY <1>1, <1>4, ManualAssumption
  <2>2. job'[Cloud] = job[Cloud] BY <1>5, ManualAssumption DEF Procs
  <2>. QED BY <1>1, <2>1, <2>2, ResearchKept DEF OtherSteps, ManualInv
<1>9. LocalInv'
  <2>1. LocalStep' /\ LocalLaw' BY <1>5 DEF LocalStep, LocalLaw
  <2>2. LocalOpened' BY <1>1, <1>3, <1>4 DEF ManualInv, LocalInv, LocalOpened
  <2>. QED BY <2>1, <2>2 DEF LocalInv
<1>. QED BY <1>6, <1>7, <1>8, <1>9 DEF ManualInv

LEMMA EditKeeps ==
  ASSUME ManualInv, Edit
  PROVE  ManualInv'
<1>1. UNCHANGED <<reports, selections, claims, results, opened, localClaims, job, clock>>
  BY DEF Edit, local
<1>2. OwnerTypes' /\ readiness'.at = readiness.at /\ readiness'.seen = readiness.seen
  <2>1. CASE UNCHANGED readiness BY <2>1 DEF Edit, ManualInv, OwnerTypes
  <2>2. CASE /\ \/ readiness' = [readiness EXCEPT !.ready = ~@]
                \/ readiness' = [readiness EXCEPT !.enabled = ~@]
             /\ UNCHANGED authority
    BY <2>2 DEF ManualInv, OwnerTypes, Readinesses
  <2>. QED BY <2>1, <2>2 DEF Edit
<1>3. /\ inForce \subseteq inForce' /\ inForce' \subseteq Parts
      /\ (Researching /\ InForce(Law) \subseteq inForce) => InForce(Law)' \subseteq inForce'
  <2>0. inForce \subseteq Parts BY DEF ManualInv, RecordTypes
  <2>1. CASE inForce' = IF Researching THEN inForce \cup InForce(authority') ELSE inForce
    <3>1. InForce(authority') \subseteq Parts BY DEF InForce
    <3>2. InForce(Law)' = InForce(authority') BY <1>1 DEF InForce, Law
    <3>. QED BY <2>0, <2>1, <3>1, <3>2
  <2>2. CASE UNCHANGED <<authority, inForce>>
    <3>1. InForce(Law)' = InForce(Law) BY <1>1, <2>2 DEF InForce, Law
    <3>. QED BY <2>0, <2>2, <3>1
  <2>. QED BY <2>1, <2>2 DEF Edit
<1>4. JobTypes' /\ RecordTypes' BY <1>1, <1>3 DEF ManualInv, JobTypes, RecordTypes
<1>5. DiagnosticInv'
  BY <1>1, <1>2 DEF ManualInv, DiagnosticInv, ReadinessHasEvidence, Reported, Compared, Report
<1>6. ResearchInv'
  <2>1. ResearchStep'
    BY <1>1 DEF ManualInv, ResearchInv, ResearchStep, Researching, Chosen, Selected, Laws
  <2>2. InForceStep'
    BY <1>1, <1>3 DEF ManualInv, ResearchInv, InForceStep, Researching
  <2>3. OneClaim' /\ ResultsAreTraceable'
    BY <1>1 DEF ManualInv, ResearchInv, OneClaim, ResultsAreTraceable
  <2>. QED BY <2>1, <2>2, <2>3 DEF ResearchInv
<1>7. LocalInv' BY <1>1, LocalKept DEF ManualInv
<1>. QED BY <1>2, <1>4, <1>5, <1>6, <1>7 DEF ManualInv

LEMMA ManualNextKeeps == ManualInv /\ [Next]_vars => ManualInv'
<1>. SUFFICES ASSUME ManualInv, [Next]_vars PROVE ManualInv' OBVIOUS
<1>1. ASSUME NEW p \in Procs, Diagnose(p) PROVE ManualInv' BY <1>1, DiagnoseKeeps
<1>2. ASSUME NEW p \in Procs, Record(p) PROVE ManualInv' BY <1>2, RecordKeeps
<1>3. ASSUME NEW p \in Procs, MergeRead(p) PROVE ManualInv' BY <1>3, MergeReadKeeps
<1>4. ASSUME NEW p \in Procs, MergeWrite(p) PROVE ManualInv' BY <1>4, MergeWriteKeeps
<1>5. ASSUME NEW p \in Procs, Check(p) \/ Kill(p) PROVE ManualInv'
  BY <1>5, IdleKeeps DEF Check, Kill, store, local, history
<1>6. CASE Research BY <1>6, ResearchKeeps
<1>7. CASE Seal BY <1>7, SealKeeps
<1>8. CASE Claim BY <1>8, ClaimKeeps
<1>9. CASE Open BY <1>9, OpenKeeps
<1>10. CASE Final BY <1>10, FinalKeeps
<1>11. CASE LocalSelect
  <2>1. clock' \in Nat BY <1>11 DEF LocalSelect, ManualInv, JobTypes
  <2>. QED BY <1>11, <2>1, StutterKeeps DEF LocalSelect, store
<1>12. CASE LocalClaim BY <1>12, LocalClaimKeeps
<1>13. CASE LocalOpen BY <1>13, LocalOpenKeeps
<1>14. CASE Edit BY <1>14, EditKeeps
<1>16. CASE Select BY <1>16, SelectKeeps
<1>17. CASE Compare BY <1>17, CompareKeeps
<1>19. CASE CompareAgain BY <1>19, CompareAgainKeeps
<1>18. CASE LawChanged BY <1>18, AbortKeeps DEF LawChanged, Procs
<1>15. CASE UNCHANGED vars
  BY <1>15, StutterKeeps DEF vars, store, local, history, ManualInv, JobTypes
<1>. QED
  BY <1>1, <1>2, <1>3, <1>4, <1>5, <1>6, <1>7, <1>8, <1>9, <1>10, <1>11, <1>12, <1>13,
     <1>14, <1>15, <1>16, <1>17, <1>18, <1>19 DEF Next

LEMMA ManualInvariance == Spec => []ManualInv
  BY ManualInitInv, ManualNextKeeps, PTL DEF Spec

Counted == edits \in Nat

LEMMA EditsCounted == Spec => []Counted
<1>1. Init => Counted BY DEF Init, Counted
<1>2. Counted /\ [Next]_vars => Counted'
  <2>. SUFFICES ASSUME edits \in Nat, [Next]_vars PROVE edits' \in Nat BY DEF Counted
  <2>1. CASE Edit BY <2>1 DEF Edit
  <2>2. CASE UNCHANGED vars BY <2>2 DEF vars, bounds
  <2>3. CASE Next /\ ~Edit
    BY <2>3 DEF Next, Diagnose, Record, MergeRead, MergeWrite, Check, Kill, Research, Select,
                Compare, CompareAgain, LawChanged, Seal, Claim, Open, Final, LocalSelect, LocalClaim, LocalOpen, Abort, bounds
  <2>. QED BY <2>1, <2>2, <2>3
<1>. QED BY <1>1, <1>2, PTL DEF Spec

-----------------------------------------------------------------------------
(* The theorems. *)

\* Whatever dies, is edited or is not answered, the cloud evaluates the sealed
\* period of a protocol at most once, and so does the operator (run_oos,
\* claim_local_oos): every evaluation of the cloud has a claim of its own job, and a
\* protocol has one claim; the local claim is consumed before the evaluation.
THEOREM OneEvaluation == Spec => []EachPlaceOpensOnce
<1>1. ManualInv => EachPlaceOpensOnce
  <2>. SUFFICES ASSUME ManualInv, NEW o \in opened, NEW q \in opened,
                       o.protocol = q.protocol, o.by = q.by
                PROVE  o = q
    BY DEF EachPlaceOpensOnce
  <2>1. /\ o \in [at : Nat, by : Procs, protocol : Protocols]
        /\ q \in [at : Nat, by : Procs, protocol : Protocols]
    BY DEF ManualInv, RecordTypes
  <2>2. CASE o.by = Cloud
    <3>1. /\ [protocol |-> o.protocol, at |-> o.at] \in claims
          /\ [protocol |-> q.protocol, at |-> q.at] \in claims
      BY <2>2 DEF ManualInv, ResearchInv, ResultsAreTraceable
    <3>2. [protocol |-> o.protocol, at |-> o.at] = [protocol |-> q.protocol, at |-> q.at]
      BY <3>1 DEF ManualInv, ResearchInv, OneClaim
    <3>3. o.at = q.at BY <3>2
    <3>. QED BY <2>1, <3>3
  <2>3. CASE o.by = Operator BY <2>3 DEF ManualInv, LocalInv, LocalOpened
  <2>. QED BY <2>1, <2>2, <2>3 DEF Procs
<1>. QED BY <1>1, ManualInvariance, PTL

\* The readiness the owner sees always shows a report that is in the repository
\* (run_diagnostics, merge_projection).
THEOREM Evidence == Spec => []ReadinessHasEvidence
<1>1. ManualInv => ReadinessHasEvidence BY DEF ManualInv, DiagnosticInv
<1>. QED BY <1>1, ManualInvariance, PTL

\* Every result has its selection, under the protocol it names, every evaluation in
\* the cloud its selection and its claim, and what a selection or a result stands on
\* was in force after the last evaluation, whatever the owner edits (run_cloud).
THEOREM Traceable == Spec => []ResultsAreTraceable
<1>1. ManualInv => ResultsAreTraceable BY DEF ManualInv, ResearchInv
<1>. QED BY <1>1, ManualInvariance, PTL

\* However long its probes took, no diagnostic replaces a later readiness, or one the
\* owner has set (merge_projection writes only over what it compared).
THEOREM NeverBack == Spec => ReadinessNeverGoesBack
<1>. DEFINE A == readiness' # readiness /\ edits' = edits =>
                   readiness.at <= readiness'.at /\ ~readiness.ready
<1>1. ManualInv /\ Counted /\ [Next]_vars => [A]_vars
  <2>. SUFFICES ASSUME ManualInv, Counted, Next, readiness' # readiness, edits' = edits
                PROVE  readiness.at <= readiness'.at /\ ~readiness.ready
    OBVIOUS
  <2>1. PICK p \in Procs : MergeWrite(p)
    <3>1. ~Edit
      <4>1. edits' = edits /\ edits \in Nat BY DEF Counted
      <4>. QED BY <4>1 DEF Edit
    <3>. QED BY <3>1 DEF Next, Diagnose, Record, MergeRead, Check, Kill, Research, Select,
                         Compare, CompareAgain, LawChanged, Seal, Claim, Open, Final, LocalSelect, LocalClaim, LocalOpen, Abort, store
  <2>2. /\ At(p, "write") /\ readiness = job[p].read /\ readiness' = Merged(p)
    BY <2>1 DEF MergeWrite
  <2>3. ~readiness.ready /\ readiness.at <= job[p].at
    BY <2>2 DEF ManualInv, DiagnosticInv, Compared, At
  <2>4. readiness'.at = job[p].at BY <2>2 DEF Merged, ManualInv, OwnerTypes, Readinesses
  <2>. QED BY <2>3, <2>4
<1>. QED BY <1>1, ManualInvariance, EditsCounted, PTL DEF Spec, ReadinessNeverGoesBack

-----------------------------------------------------------------------------
(***************************************************************************)
(* The development day.                                                    *)
(***************************************************************************)

(* Multiples of a step. *)

LEMMA Quotient ==
  ASSUME NEW n \in Nat \ {0}, NEW a \in Int, a % n = 0
  PROVE  \E q \in Int : a = q * n
<1>1. a = (n * (a \div n)) + (a % n) /\ a \div n \in Int OBVIOUS
<1>2. a = (a \div n) * n BY <1>1
<1>. QED BY <1>1, <1>2

LEMMA Multiple ==
  ASSUME NEW n \in Nat \ {0}, NEW a \in Int, NEW q \in Int, a = q * n
  PROVE  a % n = 0
<1>. DEFINE d == a \div n  r == a % n  e == q - d
<1>1. a = (n * d) + r /\ d \in Int /\ r \in Int /\ 0 <= r /\ r < n OBVIOUS
<1>. HIDE DEF d, r
<1>2. e \in Int /\ e * n = r BY <1>1
<1>. HIDE DEF e
<1>3. e < 1
  <2>1. ASSUME e >= 1 PROVE e * n >= n BY <1>2, <2>1
  <2>. QED BY <1>1, <1>2, <2>1
<1>4. e > -1
  <2>1. ASSUME e <= -1 PROVE e * n <= -n BY <1>2, <2>1
  <2>. QED BY <1>1, <1>2, <2>1
<1>5. e = 0 BY <1>2, <1>3, <1>4
<1>6. r = 0 BY <1>2, <1>5
<1>. QED BY <1>6 DEF r

LEMMA SumOfMultiples ==
  ASSUME NEW n \in Nat \ {0}, NEW a \in Int, NEW b \in Int, a % n = 0, b % n = 0
  PROVE  (a + b) % n = 0 /\ (a - b) % n = 0
<1>1. PICK p \in Int : a = p * n BY Quotient
<1>2. PICK q \in Int : b = q * n BY Quotient
<1>3. a + b = (p + q) * n /\ a - b = (p - q) * n BY <1>1, <1>2
<1>4. a + b \in Int /\ a - b \in Int /\ p + q \in Int /\ p - q \in Int OBVIOUS
<1>5. (a + b) % n = 0 
   <2>. DEFINE c == a + b  r == p + q
   <2>1. c \in Int /\ r \in Int /\ c = r * n BY <1>3
   <2>. HIDE DEF c, r
   <2>2. c % n = 0 BY <2>1, Multiple
   <2>. QED BY <2>2 DEF c
<1>6. (a - b) % n = 0 
   <2>. DEFINE c == a - b  r == p - q
   <2>1. c \in Int /\ r \in Int /\ c = r * n BY <1>3
   <2>. HIDE DEF c, r
   <2>2. c % n = 0 BY <2>1, Multiple
   <2>. QED BY <2>2 DEF c
<1>. QED BY <1>5, <1>6

LEMMA NextMultiple ==
  ASSUME NEW n \in Nat \ {0}, NEW a \in Int, NEW b \in Int, a % n = 0, b % n = 0, a < b
  PROVE  a + n <= b
<1>1. PICK p \in Int : a = p * n BY Quotient
<1>2. PICK q \in Int : b = q * n BY Quotient
<1>. DEFINE e == q - p
<1>3. e \in Int /\ b - a = e * n BY <1>1, <1>2
<1>. HIDE DEF e
<1>4. e > 0
  <2>1. ASSUME e <= 0 PROVE e * n <= 0 BY <1>3, <2>1
  <2>. QED BY <1>3, <2>1
<1>5. e * n >= n BY <1>3, <1>4
<1>. QED BY <1>3, <1>5

LEMMA StepMultiple ==
  ASSUME NEW n \in Nat \ {0}
  PROVE  n % n = 0 /\ 0 % n = 0
<1>1. n = 1 * n /\ 0 = 0 * n OBVIOUS
<1>. QED BY <1>1, Multiple
LEMMA Smallest ==
  ASSUME NEW S \in SUBSET Nat, S # {}
  PROVE  \E x \in S : \A y \in S : x <= y
<1>. DEFINE R == {ss \in Nat \X Nat : ss[1] < ss[2]}
<1>1. IsWellFoundedOn(R, Nat) BY NatLessThanWellFounded DEF OpToRel
<1>2. ASSUME NEW x \in Nat, NEW y \in Nat, <<y, x>> \notin R PROVE x <= y BY <1>2
<1>. HIDE DEF R
<1>3. PICK x \in S : \A y \in S : <<y, x>> \notin R BY <1>1, WFMin
<1>. QED BY <1>2, <1>3

LEMMA Largest ==
  ASSUME NEW n \in Nat, NEW S \in SUBSET (0 .. n), S # {}
  PROVE  \E x \in S : \A y \in S : y <= x
<1>. DEFINE T == {n - x : x \in S}
<1>0. \A x \in S : n - x \in Nat OBVIOUS
<1>1. T \in SUBSET Nat /\ T # {} BY <1>0
<1>2. PICK z \in T : \A y \in T : z <= y BY <1>1, Smallest
<1>3. PICK x \in S : z = n - x OBVIOUS
<1>4. \A y \in S : n - y \in T OBVIOUS
<1>5. ASSUME NEW y \in S PROVE y <= x
  <2>1. z <= n - y BY <1>2, <1>4
  <2>. QED BY <1>3, <2>1
<1>. QED BY <1>5

\* The first and the last of some pairs of numbers.
LEMMA FirstPair ==
  ASSUME NEW S \in SUBSET (Nat \X Nat), S # {}
  PROVE  \E p \in S : \A q \in S : NotAfter(p, q)
<1>. DEFINE D == {p[1] : p \in S}
<1>1. D \in SUBSET Nat /\ D # {} OBVIOUS
<1>2. PICK d \in D : \A e \in D : d <= e BY <1>1, Smallest
<1>. DEFINE T == {p[2] : p \in {q \in S : q[1] = d}}
<1>3. T \in SUBSET Nat /\ T # {} BY <1>2
<1>4. PICK t \in T : \A u \in T : t <= u BY <1>3, Smallest
<1>5. PICK p \in S : p[1] = d /\ p[2] = t OBVIOUS
<1>6. ASSUME NEW q \in S PROVE NotAfter(p, q)
  <2>1. d <= q[1] /\ d \in Nat /\ q[1] \in Nat BY <1>1, <1>2
  <2>2. q[1] = d => t <= q[2] BY <1>4
  <2>. QED BY <1>5, <2>1, <2>2 DEF NotAfter
<1>. QED BY <1>6

LEMMA LastPair ==
  ASSUME NEW n \in Nat, NEW c \in [1 .. n -> Nat], NEW S, S # {},
         \A p \in S : p \in (1 .. n) \X Nat /\ p[2] <= c[p[1]]
  PROVE  \E p \in S : \A q \in S : NotAfter(q, p)
<1>. DEFINE D == {p[1] : p \in S}
<1>1. D \in SUBSET (0 .. n) /\ D # {} OBVIOUS
<1>2. PICK d \in D : \A e \in D : e <= d BY <1>1, Largest
<1>. DEFINE T == {p[2] : p \in {q \in S : q[1] = d}}
<1>3. d \in 1 .. n /\ c[d] \in Nat OBVIOUS
<1>4. T \in SUBSET (0 .. c[d]) /\ T # {} BY <1>2, <1>3
<1>5. PICK t \in T : \A u \in T : u <= t BY <1>3, <1>4, Largest
<1>6. PICK p \in S : p[1] = d /\ p[2] = t OBVIOUS
<1>7. ASSUME NEW q \in S PROVE NotAfter(q, p)
  <2>1. q[1] <= d /\ d \in Nat /\ q[1] \in Nat BY <1>1, <1>2
  <2>2. q[1] = d => q[2] <= t BY <1>5
  <2>. QED BY <1>6, <2>1, <2>2 DEF NotAfter
<1>. QED BY <1>7

-----------------------------------------------------------------------------
(* The schedule and its gaps. *)

LEMMA CloseIs ==
  /\ Len(Close) \in Nat /\ DOMAIN Close = 1 .. Len(Close)
  /\ \A d \in DOMAIN Close : Close[d] \in Nat /\ Close[d] % Step = 0
  /\ Close \in [1 .. Len(Close) -> Nat]
<1>. DEFINE M == {n \in Nat : n % Step = 0}
<1>1. Close \in Seq(M) BY DayAssumption
<1>2. Len(Close) \in Nat /\ Close \in [1 .. Len(Close) -> M] BY <1>1
<1>. QED BY <1>2

LEMMA SlotIs ==
  ASSUME NEW t
  PROVE  t \in Slots <=> \E d \in DOMAIN Close : \E at \in Nat :
                           t = <<d, at>> /\ at % Step = 0 /\ at < Close[d]
<1>1. ASSUME NEW d \in DOMAIN Close
      PROVE  \A k \in Int : k \in 0 .. Close[d] - 1 <=> k \in Nat /\ k < Close[d]
  BY CloseIs
<1>. QED BY <1>1 DEF Slots

LEMMA SlotPair ==
  ASSUME NEW t \in Slots
  PROVE  /\ t = <<t[1], t[2]>> /\ t[1] \in DOMAIN Close /\ t[2] \in Nat
         /\ t[2] % Step = 0 /\ t[2] < Close[t[1]] /\ t[1] \in Nat
<1>1. PICK d \in DOMAIN Close : \E at \in Nat :
               t = <<d, at>> /\ at % Step = 0 /\ at < Close[d]
  BY SlotIs
<1>2. PICK at \in Nat : t = <<d, at>> /\ at % Step = 0 /\ at < Close[d] BY <1>1
<1>. QED BY <1>2, CloseIs

\* The order of the schedule.
LEMMA Order ==
  ASSUME NEW t \in Slots, NEW u \in Slots, NEW v \in Slots
  PROVE  /\ NotAfter(t, t)
         /\ NotAfter(t, u) \/ NotAfter(u, t)
         /\ NotAfter(t, u) /\ NotAfter(u, t) => t = u
         /\ NotAfter(t, u) /\ NotAfter(u, v) => NotAfter(t, v)
<1>1. /\ t = <<t[1], t[2]>> /\ t[1] \in Nat /\ t[2] \in Nat
      /\ u = <<u[1], u[2]>> /\ u[1] \in Nat /\ u[2] \in Nat
      /\ v = <<v[1], v[2]>> /\ v[1] \in Nat /\ v[2] \in Nat
  BY SlotPair
<1>. QED BY <1>1 DEF NotAfter

\* Every hole is in a gap, and a gap has nothing but holes: what gap_inventory
\* expands is what was missing.
LEMMA GapsAreHoles ==
  ASSUME NEW s \in Symbols, missing[s] \in SUBSET Slots
  PROVE  Expanded(Gaps(s)) = missing[s]
<1>. DEFINE M == missing[s]
<1>1. ASSUME NEW t \in M PROVE \E g \in Gaps(s) : t \in Between(g[1], g[2])
  <2>1. t \in Slots OBVIOUS
  <2>2. Between(t, t) \subseteq M /\ NotAfter(t, t) BY <2>1, Order DEF Between
  <2>. DEFINE A == {v \in Slots : NotAfter(v, t) /\ Between(v, t) \subseteq M}
              B == {v \in Slots : NotAfter(t, v) /\ Between(t, v) \subseteq M}
  <2>3. t \in A /\ t \in B BY <2>1, <2>2
  <2>4. PICK a \in A : \A v \in A : NotAfter(a, v)
    <3>1. A \in SUBSET (Nat \X Nat) /\ A # {} BY <2>3, SlotPair
    <3>. QED BY <3>1, FirstPair
  <2>5. PICK b \in B : \A v \in B : NotAfter(v, b)
    <3>1. B # {} BY <2>3
    <3>2. \A p \in B : p \in (1 .. Len(Close)) \X Nat /\ p[2] <= Close[p[1]]
      BY SlotPair, CloseIs
    <3>. HIDE DEF B
    <3>. QED BY <3>1, <3>2, CloseIs, LastPair
  <2>6. a \in M /\ b \in M BY <2>1, Order DEF Between
  <2>7. NotAfter(a, b) /\ t \in Between(a, b) BY <2>1, Order DEF Between
  <2>8. Between(a, b) \subseteq M BY <2>1, Order DEF Between
  <2>9. ASSUME NEW v \in Slots, Adjacent(v, a), v \in M PROVE FALSE
    <3>1. v # a /\ Between(v, a) = {v, a} BY <2>9 DEF Adjacent
    <3>2. NotAfter(v, a) BY <3>1 DEF Between
    <3>3. NotAfter(v, t) BY <2>1, <3>2, Order
    <3>4. Between(v, t) \subseteq M
      <4>1. ASSUME NEW x \in Between(v, t) PROVE x \in M
        <5>1. x \in Slots /\ NotAfter(v, x) /\ NotAfter(x, t) BY <4>1 DEF Between
        <5>2. CASE NotAfter(x, a)
          <6>1. x \in Between(v, a) BY <5>1, <5>2 DEF Between
          <6>. QED BY <2>6, <2>9, <3>1, <6>1
        <5>3. CASE NotAfter(a, x)
          <6>1. x \in Between(a, t) BY <5>1, <5>3 DEF Between
          <6>. QED BY <6>1
        <5>. QED BY <5>1, <5>2, <5>3, Order
      <4>. QED BY <4>1
    <3>5. v \in A BY <3>3, <3>4
    <3>6. NotAfter(a, v) BY <2>4, <3>5
    <3>. QED BY <3>1, <3>2, <3>6, Order
  <2>10. ASSUME NEW v \in Slots, Adjacent(b, v), v \in M PROVE FALSE
    <3>1. v # b /\ Between(b, v) = {b, v} BY <2>10 DEF Adjacent
    <3>2. NotAfter(b, v) BY <3>1 DEF Between
    <3>3. NotAfter(t, v) BY <2>1, <3>2, Order
    <3>4. Between(t, v) \subseteq M
      <4>1. ASSUME NEW x \in Between(t, v) PROVE x \in M
        <5>1. x \in Slots /\ NotAfter(t, x) /\ NotAfter(x, v) BY <4>1 DEF Between
        <5>2. CASE NotAfter(b, x)
          <6>1. x \in Between(b, v) BY <5>1, <5>2 DEF Between
          <6>. QED BY <2>6, <2>10, <3>1, <6>1
        <5>3. CASE NotAfter(x, b)
          <6>1. x \in Between(t, b) BY <5>1, <5>3 DEF Between
          <6>. QED BY <6>1
        <5>. QED BY <5>1, <5>2, <5>3, Order
      <4>. QED BY <4>1
    <3>5. v \in B BY <3>3, <3>4
    <3>6. NotAfter(v, b) BY <2>5, <3>5
    <3>. QED BY <3>1, <3>2, <3>6, Order
  <2>11. <<a, b>> \in Gaps(s) BY <2>6, <2>7, <2>8, <2>9, <2>10 DEF Gaps
  <2>. QED BY <2>7, <2>11
<1>2. ASSUME NEW g \in Gaps(s) PROVE Between(g[1], g[2]) \subseteq M BY DEF Gaps
<1>. QED BY <1>1, <1>2 DEF Expanded

-----------------------------------------------------------------------------
(* The clock of a day. *)

HaltTicks(d, from, to) == {k \in from .. to - 1 : Halted(d, k)}

LEMMA OfTwo ==
  ASSUME NEW a \in Int, NEW b \in Int
  PROVE  /\ Max({a, b}) = IF a >= b THEN a ELSE b
         /\ Min({a, b}) = IF a <= b THEN a ELSE b
<1>1. \A x \in {a, b} : x >= a /\ x >= b => x = IF a >= b THEN a ELSE b OBVIOUS
<1>2. \A x \in {a, b} : x <= a /\ x <= b => x = IF a <= b THEN a ELSE b OBVIOUS
<1>3. \E x \in {a, b} : \A y \in {a, b} : x >= y OBVIOUS
<1>4. \E x \in {a, b} : \A y \in {a, b} : x <= y OBVIOUS
<1>5. Max({a, b}) \in {a, b} /\ \A y \in {a, b} : Max({a, b}) >= y BY <1>3 DEF Max
<1>6. Min({a, b}) \in {a, b} /\ \A y \in {a, b} : Min({a, b}) <= y BY <1>4 DEF Min
<1>. QED BY <1>1, <1>2, <1>5, <1>6

LEMMA HaltIs ==
  ASSUME halts \subseteq Events, NEW d, NEW h \in HaltsOf(d)
  PROVE  h = <<h[1], h[2]>> /\ h[1] \in Nat /\ h[2] \in Nat /\ h[1] < h[2]
<1>1. PICK x \in halts : x[1] = d /\ h = <<x[2], x[3]>> BY DEF HaltsOf
<1>2. x \in (DOMAIN Close) \X Nat \X Nat /\ x[2] < x[3] BY DayAssumption
<1>. QED BY <1>1, <1>2

\* A piece is what an interval has of a halt.
LEMMA PieceIs ==
  ASSUME halts \subseteq Events, NEW d, NEW from \in Nat, NEW to \in Nat,
         NEW p \in Pieces(d, from, to)
  PROVE  /\ p = <<p[1], p[2]>> /\ p[1] \in Nat /\ p[2] \in Nat
         /\ \A k \in Int : p[1] <= k /\ k < p[2] => k \in from .. to - 1 /\ Halted(d, k)
<1>1. PICK h \in HaltsOf(d) : /\ h[1] < to /\ h[2] > from
                              /\ p = <<Max({from, h[1]}), Min({to, h[2]})>>
  BY DEF Pieces
<1>2. h[1] \in Nat /\ h[2] \in Nat BY HaltIs
<1>3. /\ p[1] = IF from >= h[1] THEN from ELSE h[1]
      /\ p[2] = IF to <= h[2] THEN to ELSE h[2]
      /\ p = <<p[1], p[2]>>
  <2>1. from \in Int /\ to \in Int /\ h[1] \in Int /\ h[2] \in Int BY <1>2
  <2>2. Max({from, h[1]}) = IF from >= h[1] THEN from ELSE h[1] BY <2>1, OfTwo
  <2>3. Min({to, h[2]}) = IF to <= h[2] THEN to ELSE h[2] BY <2>1, OfTwo
  <2>. QED BY <1>1, <2>2, <2>3
<1>4. p[1] \in Nat /\ p[2] \in Nat BY <1>2, <1>3
<1>5. ASSUME NEW k \in Int, p[1] <= k, k < p[2]
      PROVE  k \in from .. to - 1 /\ Halted(d, k)
  <2>1. from <= k /\ k < to /\ h[1] <= k /\ k < h[2] BY <1>2, <1>3, <1>4, <1>5
  <2>. QED BY <2>1 DEF Halted
<1>. QED BY <1>3, <1>4, <1>5

LEMMA TickInPiece ==
  ASSUME halts \subseteq Events, NEW d, NEW from \in Nat, NEW to \in Nat,
         NEW k \in HaltTicks(d, from, to)
  PROVE  \E p \in Pieces(d, from, to) : p[1] <= k /\ k < p[2]
<1>1. k \in from .. to - 1 /\ k \in Nat /\ from <= k /\ k < to BY DEF HaltTicks
<1>2. PICK h \in HaltsOf(d) : h[1] <= k /\ k < h[2] BY DEF HaltTicks, Halted
<1>3. h[1] \in Nat /\ h[2] \in Nat BY HaltIs
<1>. DEFINE p == <<Max({from, h[1]}), Min({to, h[2]})>>
<1>4. h[1] < to /\ h[2] > from BY <1>1, <1>2, <1>3
<1>5. p \in Pieces(d, from, to) BY <1>4 DEF Pieces
<1>6. p[1] <= k /\ k < p[2]
  <2>1. from \in Int /\ to \in Int /\ h[1] \in Int /\ h[2] \in Int BY <1>3
  <2>2. Max({from, h[1]}) = IF from >= h[1] THEN from ELSE h[1] BY <2>1, OfTwo
  <2>3. Min({to, h[2]}) = IF to <= h[2] THEN to ELSE h[2] BY <2>1, OfTwo
  <2>. QED BY <1>1, <1>2, <1>3, <2>2, <2>3
<1>. QED BY <1>5, <1>6

\* overlap_seconds counts every halted tick once, however the halts overlap: a
\* tick belongs to the first piece that reaches it, and to no later one.
LEMMA OverlapCounts ==
  ASSUME halts \subseteq Events, NEW d, NEW from \in Nat, NEW to \in Nat
  PROVE  /\ IsFiniteSet(HaltTicks(d, from, to))
         /\ Overlap(d, from, to) = Cardinality(HaltTicks(d, from, to))
<1>. DEFINE P == Pieces(d, from, to)
            C == {x \in P \X (from .. to - 1) :
                    /\ x[1][1] <= x[2] /\ x[2] < x[1][2]
                    /\ \A q \in P : Earlier(q, x[1]) => q[2] <= x[2]}
            H == HaltTicks(d, from, to)
            f == [x \in C |-> x[2]]
<1>1. Overlap(d, from, to) = Cardinality(C) BY DEF Overlap
<1>2. \A p \in P : p = <<p[1], p[2]>> /\ p[1] \in Nat /\ p[2] \in Nat BY PieceIs
<1>3. f \in [C -> H]
  <2>1. ASSUME NEW x \in C PROVE x[2] \in H
    <3>1. x[1] \in P /\ x[2] \in from .. to - 1 /\ x[2] \in Int OBVIOUS
    <3>2. x[1][1] <= x[2] /\ x[2] < x[1][2] OBVIOUS
    <3>3. Halted(d, x[2]) BY <3>1, <3>2, PieceIs
    <3>. QED BY <3>1, <3>3 DEF HaltTicks
  <2>. QED BY <2>1
<1>4. ASSUME NEW x \in C, NEW y \in C, f[x] = f[y] PROVE x = y
  <2>1. x = <<x[1], x[2]>> /\ y = <<y[1], y[2]>> /\ x[2] = y[2] BY <1>4
  <2>2. x[1] \in P /\ y[1] \in P /\ x[2] \in Int OBVIOUS
  <2>3. x[2] < x[1][2] /\ y[2] < y[1][2] OBVIOUS
  <2>4. ~Earlier(y[1], x[1]) /\ ~Earlier(x[1], y[1])
    <3>1. ASSUME Earlier(y[1], x[1]) PROVE FALSE
      <4>1. y[1][2] <= x[2] BY <2>2, <3>1
      <4>. QED BY <1>2, <2>1, <2>2, <2>3, <4>1
    <3>2. ASSUME Earlier(x[1], y[1]) PROVE FALSE
      <4>1. x[1][2] <= y[2] BY <2>2, <3>2
      <4>. QED BY <1>2, <2>1, <2>2, <2>3, <4>1
    <3>. QED BY <3>1, <3>2
  <2>. HIDE DEF C, P
  <2>5. x[1] = y[1] BY <1>2, <2>2, <2>4 DEF Earlier
  <2>. QED BY <2>1, <2>5
<1>5. ASSUME NEW k \in H PROVE \E x \in C : f[x] = k
  <2>. DEFINE Q == {p \in P : p[1] <= k /\ k < p[2]}
  <2>1. k \in from .. to - 1 /\ k \in Nat BY DEF HaltTicks
  <2>2. Q # {} BY TickInPiece
  <2>3. PICK p \in Q : \A q \in Q : NotAfter(p, q)
    <3>1. Q \in SUBSET (Nat \X Nat) BY <1>2
    <3>. QED BY <2>2, <3>1, FirstPair
  <2>4. ASSUME NEW q \in P, Earlier(q, p) PROVE q[2] <= k
    <3>1. SUFFICES ASSUME k < q[2] PROVE FALSE BY <1>2, <2>1
    <3>2. q[1] <= k BY <1>2, <2>1, <2>4 DEF Earlier
    <3>3. NotAfter(p, q) BY <2>3, <3>1, <3>2
    <3>. QED BY <1>2, <2>4, <3>3 DEF Earlier, NotAfter
  <2>5. <<p, k>> \in C BY <2>1, <2>4
  <2>. QED BY <2>5
<1>6. IsFiniteSet(H)
  <2>1. from \in Int /\ to - 1 \in Int OBVIOUS
  <2>2. IsFiniteSet(from .. to - 1) BY <2>1, FS_Interval
  <2>3. H \in SUBSET (from .. to - 1) BY DEF HaltTicks
  <2>. HIDE DEF H
  <2>. QED BY <2>2, <2>3, FS_Subset
<1>7. ExistsBijection(C, H)
  <2>. HIDE DEF C, H, f
  <2>1. f \in Injection(C, H) BY <1>3, <1>4 DEF Injection, IsInjective
  <2>2. f \in Surjection(C, H) BY <1>3, <1>5 DEF Surjection
  <2>. QED BY <2>1, <2>2 DEF ExistsBijection, Bijection
<1>. HIDE DEF C, H
<1>8. ExistsBijection(H, C) BY <1>7, Fun_ExistsBijSymmetric
<1>9. Cardinality(C) = Cardinality(H) BY <1>6, <1>8, FS_Bijection
<1>. QED BY <1>1, <1>6, <1>9 DEF H

OpenTicks(d, from, to) ==
    {k \in from .. to - 1 : ~\E h \in HaltsOf(d) : h[1] <= k /\ k < h[2]}

LEMMA OpenFinite ==
  ASSUME NEW d, NEW from \in Nat, NEW to \in Nat, from <= to
  PROVE  /\ IsFiniteSet(OpenTicks(d, from, to))
         /\ OpenTime(d, from, to) = Cardinality(OpenTicks(d, from, to))
         /\ OpenTime(d, from, to) \in Nat /\ OpenTime(d, from, to) <= to - from
<1>. DEFINE I == from .. to - 1
<1>1. IsFiniteSet(I) /\ Cardinality(I) = to - from
  <2>1. from \in Int /\ to - 1 \in Int OBVIOUS
  <2>2. IsFiniteSet(I) /\ Cardinality(I) = IF from > to - 1 THEN 0 ELSE (to - 1) - from + 1
    BY <2>1, FS_Interval
  <2>. QED BY <2>2
<1>2. OpenTicks(d, from, to) \in SUBSET I BY DEF OpenTicks
<1>. HIDE DEF I
<1>3. /\ IsFiniteSet(OpenTicks(d, from, to))
      /\ Cardinality(OpenTicks(d, from, to)) <= to - from
      /\ Cardinality(OpenTicks(d, from, to)) \in Nat
  BY <1>1, <1>2, FS_Subset, FS_CardinalityType
<1>. QED BY <1>3 DEF OpenTime, OpenTicks

\* tradable_minutes is the time outside every halt.
LEMMA OpenIsTradable ==
  ASSUME halts \subseteq Events, NEW d, NEW from \in Nat, NEW to \in Nat, from <= to
  PROVE  OpenTime(d, from, to) = Tradable(d, from, to)
<1>. DEFINE I == from .. to - 1
            O == OpenTicks(d, from, to)
            H == HaltTicks(d, from, to)
<1>1. Cardinality(I) = to - from
  <2>1. from \in Int /\ to - 1 \in Int OBVIOUS
  <2>2. Cardinality(I) = IF from > to - 1 THEN 0 ELSE (to - 1) - from + 1
    BY <2>1, FS_Interval
  <2>. QED BY <2>2
<1>2. O \cup H = I /\ O \cap H = {} BY DEF OpenTicks, HaltTicks, Halted
<1>3. IsFiniteSet(O) /\ Cardinality(O) = OpenTime(d, from, to) BY OpenFinite
<1>4. IsFiniteSet(H) /\ Cardinality(H) = Overlap(d, from, to) BY OverlapCounts
<1>. HIDE DEF I, O, H
<1>5. Cardinality(I) = Cardinality(O) + Cardinality(H) - Cardinality({})
  BY <1>2, <1>3, <1>4, FS_Union
<1>6. Cardinality({}) = 0 BY FS_EmptySet
<1>7. Cardinality(O) \in Nat /\ Cardinality(H) \in Nat BY <1>3, <1>4, FS_CardinalityType
<1>8. to - from = OpenTime(d, from, to) + Overlap(d, from, to) - 0 BY <1>1, <1>3, <1>4, <1>5, <1>6
<1>. QED BY <1>3, <1>4, <1>7, <1>8 DEF Tradable

LEMMA OpenGrows ==
  ASSUME halts \subseteq Events, NEW d, NEW from \in Nat, NEW mid \in Nat, NEW to \in Nat,
         from <= mid, mid <= to
  PROVE  OpenTime(d, from, to) = OpenTime(d, from, mid) + OpenTime(d, mid, to)
<1>. DEFINE A == OpenTicks(d, from, mid)
            B == OpenTicks(d, mid, to)
            C == OpenTicks(d, from, to)
<1>1. A \cup B = C /\ A \cap B = {} BY DEF OpenTicks
<1>2. /\ IsFiniteSet(A) /\ Cardinality(A) = OpenTime(d, from, mid)
      /\ IsFiniteSet(B) /\ Cardinality(B) = OpenTime(d, mid, to)
      /\ Cardinality(C) = OpenTime(d, from, to)
  <2>1. from <= to OBVIOUS
  <2>. QED BY <2>1, OpenFinite
<1>. HIDE DEF A, B, C
<1>3. Cardinality(C) = Cardinality(A) + Cardinality(B) - Cardinality({})
  BY <1>1, <1>2, FS_Union
<1>4. Cardinality({}) = 0 BY FS_EmptySet
<1>5. Cardinality(A) \in Nat /\ Cardinality(B) \in Nat BY <1>2, FS_CardinalityType
<1>. QED BY <1>2, <1>3, <1>4, <1>5

\* fully_halted: every tick of the interval is halted.
LEMMA FullyMeans ==
  ASSUME halts \subseteq Events, NEW d, NEW from \in Nat, NEW to \in Nat, from <= to
  PROVE  FullyHalted(d, from, to) <=> \A k \in from .. to - 1 : Halted(d, k)
<1>. DEFINE I == from .. to - 1
            H == HaltTicks(d, from, to)
<1>1. IsFiniteSet(I) /\ Cardinality(I) = to - from
  <2>1. from \in Int /\ to - 1 \in Int OBVIOUS
  <2>2. IsFiniteSet(I) /\ Cardinality(I) = IF from > to - 1 THEN 0 ELSE (to - 1) - from + 1
    BY <2>1, FS_Interval
  <2>. QED BY <2>2
<1>2. H \in SUBSET I /\ (H = I <=> \A k \in I : Halted(d, k)) BY DEF HaltTicks
<1>3. Cardinality(H) = Overlap(d, from, to) BY OverlapCounts
<1>. HIDE DEF I, H
<1>4. Cardinality(I) = Cardinality(H) => I = H BY <1>1, <1>2, FS_Subset
<1>5. FullyHalted(d, from, to) <=> H = I BY <1>1, <1>3, <1>4 DEF FullyHalted
<1>. QED BY <1>2, <1>5 DEF I

LEMMA TimesAre ==
  /\ Step \in Nat \ {0} /\ Step \in Nat /\ Step > 0
  /\ Holding \in Nat /\ Holding % Step = 0 /\ BeforeClose \in Nat /\ BeforeClose % Step = 0
  /\ Decision \in Nat /\ Decision % Step = 0
  /\ \A delay \in Delays : delay \in Nat /\ delay % Step = 0
<1>. DEFINE M == {n \in Nat : n % Step = 0}
<1>1. Step \in Nat \ {0} BY DayAssumption
<1>2. /\ Holding \in M /\ BeforeClose \in M /\ Decision \in M
      /\ \A delay \in Delays : delay \in M
  BY DayAssumption
<1>. QED BY <1>1, <1>2

LEMMA FlatIs ==
  ASSUME NEW d \in DOMAIN Close
  PROVE  Flat(d) \in Int /\ Flat(d) % Step = 0 /\ Flat(d) <= Close[d]
<1>1. /\ Step \in Nat \ {0} /\ BeforeClose \in Nat /\ BeforeClose % Step = 0
      /\ Close[d] \in Nat /\ Close[d] % Step = 0
  BY TimesAre, CloseIs
<1>2. (Close[d] - BeforeClose) % Step = 0 BY <1>1, SumOfMultiples
<1>. QED BY <1>1, <1>2 DEF Flat

\* exit_boundary: the first slot at which the position was open to the market for
\* the holding time, and the force-flat time only if halts have kept it.
LEMMA Boundary ==
  ASSUME halts \subseteq Events, NEW d \in DOMAIN Close, NEW entry \in Nat,
         entry % Step = 0, entry + Holding < Flat(d),
         NEW u, u = ExitBoundary(d, entry)
  PROVE  /\ u \in Nat /\ entry <= u /\ u <= Flat(d) /\ (u - entry) % Step = 0
         /\ \A at \in Nat : /\ entry <= at /\ at < u /\ (at - entry) % Step = 0
                            => OpenTime(d, entry, at) < Holding
         /\ u # Flat(d) => OpenTime(d, entry, u) >= Holding
         /\ u = Flat(d) => OpenTime(d, entry, u) < u - entry
         /\ OpenTime(d, entry, u) < Holding + Step
<1>. DEFINE flat == Flat(d)
            enough == {at \in entry .. flat - 1 :
                         (at - entry) % Step = 0 /\ Tradable(d, entry, at) >= Holding}
<1>1. /\ Step \in Nat \ {0} /\ Holding \in Nat /\ Holding % Step = 0 /\ Step > 0
      /\ flat \in Nat /\ flat % Step = 0
  <2>1. Step \in Nat \ {0} /\ Holding \in Nat /\ Holding % Step = 0 /\ Step > 0
    BY TimesAre
  <2>2. flat \in Int /\ flat % Step = 0 BY FlatIs
  <2>. QED BY <2>1, <2>2
<1>2. u = IF enough = {} THEN flat ELSE Min(enough) BY DEF ExitBoundary
<1>. HIDE DEF flat
<1>3. \A at \in enough : /\ at \in Nat /\ entry <= at /\ at < flat
                         /\ (at - entry) % Step = 0 /\ Tradable(d, entry, at) >= Holding
  BY <1>1
<1>4. enough # {} => u \in enough /\ \A at \in enough : u <= at
  <2>. SUFFICES ASSUME enough # {} PROVE u \in enough /\ \A at \in enough : u <= at OBVIOUS
  <2>1. enough \in SUBSET Nat BY <1>3
  <2>. HIDE DEF enough
  <2>2. \E x \in enough : \A y \in enough : x <= y BY <2>1, Smallest
  <2>3. Min(enough) \in enough /\ \A y \in enough : Min(enough) <= y BY <2>2 DEF Min
  <2>. QED BY <1>2, <2>3
<1>5. (flat - entry) % Step = 0 BY <1>1, SumOfMultiples
<1>6. /\ u \in Nat /\ entry <= u /\ u <= flat /\ (u - entry) % Step = 0
      /\ u = flat <=> enough = {}
  <2>. HIDE DEF enough
  <2>1. entry <= flat BY <1>1 DEF flat
  <2>. QED BY <1>1, <1>2, <1>3, <1>4, <1>5, <2>1
<1>7. ASSUME NEW at \in Nat, entry <= at, at < u, (at - entry) % Step = 0
      PROVE  OpenTime(d, entry, at) < Holding
  <2>1. at \in entry .. flat - 1 BY <1>1, <1>6, <1>7
  <2>2. at \notin enough
    <3>. HIDE DEF enough
    <3>. QED BY <1>3, <1>4, <1>6, <1>7
  <2>3. ~(Tradable(d, entry, at) >= Holding) BY <1>7, <2>1, <2>2
  <2>4. OpenTime(d, entry, at) = Tradable(d, entry, at) BY <1>7, OpenIsTradable
  <2>5. OpenTime(d, entry, at) \in Nat BY <1>7, OpenFinite
  <2>. QED BY <1>1, <2>3, <2>4, <2>5
<1>8. ASSUME u # flat PROVE OpenTime(d, entry, u) >= Holding
  <2>. HIDE DEF enough
  <2>1. u \in enough BY <1>4, <1>6, <1>8
  <2>2. Tradable(d, entry, u) >= Holding BY <1>3, <2>1
  <2>. QED BY <1>6, <2>2, OpenIsTradable
<1>9. ASSUME u = flat PROVE OpenTime(d, entry, u) < u - entry
  <2>. DEFINE due == entry + Holding
  <2>1. due \in Nat /\ entry <= due /\ due < u /\ due - entry = Holding
    BY <1>1, <1>9 DEF flat
  <2>2. OpenTime(d, entry, due) < Holding BY <1>1, <1>7, <2>1
  <2>3. OpenTime(d, entry, u) = OpenTime(d, entry, due) + OpenTime(d, due, u)
    BY <1>6, <2>1, OpenGrows
  <2>4. /\ OpenTime(d, due, u) \in Nat /\ OpenTime(d, due, u) <= u - due
        /\ OpenTime(d, entry, due) \in Nat
    BY <1>6, <2>1, OpenFinite
  <2>. QED BY <1>1, <1>6, <2>1, <2>2, <2>3, <2>4
<1>10. OpenTime(d, entry, u) < Holding + Step
  <2>1. CASE u = entry
    <3>1. OpenTime(d, entry, u) <= u - entry /\ OpenTime(d, entry, u) \in Nat BY <1>6, OpenFinite
    <3>. QED BY <1>1, <2>1, <3>1
  <2>2. CASE u # entry
    <3>. DEFINE b == u - Step
    <3>1. u % Step = 0
      <4>1. ((u - entry) + entry) % Step = 0 BY <1>1, <1>6, SumOfMultiples
      <4>2. (u - entry) + entry = u BY <1>6
      <4>. QED BY <4>1, <4>2
    <3>2. entry + Step <= u BY <1>1, <1>6, <2>2, <3>1, NextMultiple
    <3>3. b \in Nat /\ entry <= b /\ b < u /\ u - b = Step BY <1>1, <1>6, <3>2
    <3>4. (b - entry) % Step = 0
      <4>1. Step % Step = 0 BY <1>1, StepMultiple
      <4>2. ((u - entry) - Step) % Step = 0 BY <1>1, <1>6, <4>1, SumOfMultiples
      <4>3. (u - entry) - Step = b - entry BY <1>1, <1>6
      <4>. QED BY <4>2, <4>3
    <3>. HIDE DEF b
    <3>5. OpenTime(d, entry, b) < Holding BY <1>7, <3>3, <3>4
    <3>6. OpenTime(d, entry, u) = OpenTime(d, entry, b) + OpenTime(d, b, u) BY <1>6, <3>3, OpenGrows
    <3>7. /\ OpenTime(d, b, u) \in Nat /\ OpenTime(d, b, u) <= u - b
          /\ OpenTime(d, entry, b) \in Nat
      BY <1>6, <3>3, OpenFinite
    <3>. QED BY <1>1, <3>3, <3>5, <3>6, <3>7
  <2>. QED BY <2>1, <2>2
<1>. HIDE DEF enough
<1>. QED BY <1>6, <1>7, <1>8, <1>9, <1>10 DEF flat

-----------------------------------------------------------------------------
(* The invariant. *)

IsTrade(r) == r \in [day : {r.day}, symbol : {r.symbol}, entry : {r.entry}, at : {r.at},
                     until : {r.until}, status : {r.status}, reason : {r.reason},
                     upper : {r.upper}]

Archive == missing \in [Symbols -> SUBSET Slots] /\ halts \subseteq Events

\* What each program has handed on to the next.
Handed ==
    /\ phase \in {"archive", "reported", "masked", "universe", "audited", "session"}
    /\ phase # "archive" => coverage = [s \in Symbols |-> Gaps(s)]
    /\ phase \notin {"archive", "reported"} => mask = Mask

\* The position of a trade, of a symbol whose day is not excluded, and its clock.
Taken ==
    trade.status \in {"intent", "held"} =>
      /\ trade.day \in DOMAIN Close /\ trade.symbol \in Symbols
      /\ <<trade.symbol, trade.day>> \notin mask.sessions
      /\ trade.entry \in Nat /\ trade.entry % Step = 0
      /\ trade.entry + Holding < Flat(trade.day)
Clocked ==
    trade.status = "held" =>
      /\ trade.until = ExitBoundary(trade.day, trade.entry)
      /\ trade.at \in Nat /\ trade.entry <= trade.at
      /\ (trade.at - trade.entry) % Step = 0
TradeInv ==
    /\ IsTrade(trade)
    /\ trade.status # "none" => phase = "session"
    /\ Taken /\ Clocked /\ TradesEndInTime

DayInv == Archive /\ Handed /\ TradeInv

-----------------------------------------------------------------------------
(* The mask. *)

\* A hole that is no halt loses its symbol's session.
LEMMA HoleIsMasked ==
  ASSUME Archive, coverage = [s \in Symbols |-> Gaps(s)], mask = Mask,
         NEW s \in Symbols, NEW t \in missing[s], ~HaltedSlot(t)
  PROVE  <<s, t[1]>> \in mask.sessions
<1>1. missing[s] \in SUBSET Slots BY DEF Archive
<1>2. Expanded(coverage[s]) = missing[s] BY <1>1, GapsAreHoles
<1>3. t \in Lost(s) BY <1>2 DEF Lost
<1>4. t[1] \in LostDays(s) BY <1>3 DEF LostDays
<1>5. t[1] \in DOMAIN Close BY <1>1, SlotPair
<1>. QED BY <1>4, <1>5 DEF Mask

\* One halt over the whole slot halts all of its ticks.
LEMMA HaltedIsFully ==
  ASSUME halts \subseteq Events, NEW t \in Slots, HaltedSlot(t)
  PROVE  FullyHalted(t[1], t[2], t[2] + Step)
<1>1. PICK h \in halts : h[1] = t[1] /\ h[2] <= t[2] /\ t[2] + Step <= h[3]
  BY DEF HaltedSlot
<1>2. h \in (DOMAIN Close) \X Nat \X Nat BY DayAssumption
<1>3. h[2] \in Nat /\ h[3] \in Nat BY <1>2
<1>4. t[2] \in Nat /\ Step \in Nat /\ t[2] + Step \in Nat /\ t[2] <= t[2] + Step
  BY SlotPair, TimesAre
<1>5. <<h[2], h[3]>> \in HaltsOf(t[1]) BY <1>1 DEF HaltsOf
<1>6. ASSUME NEW k \in t[2] .. (t[2] + Step) - 1 PROVE Halted(t[1], k)
  <2>1. h[2] <= k /\ k < h[3] BY <1>1, <1>3, <1>4
  <2>. QED BY <1>5, <2>1 DEF Halted
<1>. QED BY <1>4, <1>6, FullyMeans

\* So the audit of the development run, with its other rule, explains every hole.
LEMMA HolesExplained ==
  ASSUME Archive, coverage = [s \in Symbols |-> Gaps(s)], mask = Mask,
         NEW s \in Symbols, NEW t \in missing[s], <<s, t[1]>> \notin mask.sessions
  PROVE  FullyHalted(t[1], t[2], t[2] + Step)
<1>1. HaltedSlot(t) BY HoleIsMasked
<1>2. t \in Slots BY DEF Archive
<1>. QED BY <1>1, <1>2, HaltedIsFully DEF Archive

LEMMA HandedCovers == Archive /\ Handed => MaskCoversGaps
<1>. SUFFICES ASSUME Archive, Handed PROVE MaskCoversGaps OBVIOUS
<1>1. phase # "unmasked" BY DEF Handed
<1>2. ASSUME phase = "masked", NEW s \in Symbols, NEW t \in missing[s]
      PROVE  Validity(s, t) # "VALID"
  <2>1. coverage = [x \in Symbols |-> Gaps(x)] /\ mask = Mask BY <1>2 DEF Handed
  <2>2. t \in Slots BY DEF Archive
  <2>3. HaltedSlot(t) \/ <<s, t[1]>> \in mask.sessions BY <2>1, HoleIsMasked
  <2>. QED BY <2>2, <2>3 DEF Validity
<1>. QED BY <1>1, <1>2 DEF MaskCoversGaps

-----------------------------------------------------------------------------
(* The steps. *)

\* What is derived from the archive changes only with it.
LEMMA DerivedKept ==
  ASSUME missing' = missing, halts' = halts, verified' = verified, coverage' = coverage
  PROVE  /\ Archive => Archive'
         /\ \A s : Gaps(s)' = Gaps(s)
         /\ Mask' = Mask
<1>1. Archive => Archive' BY DEF Archive
<1>2. \A s : Gaps(s)' = Gaps(s) BY DEF Gaps
<1>3. \A t : HaltedSlot(t)' = HaltedSlot(t) BY DEF HaltedSlot
<1>4. Mask' = Mask BY DEF Mask, Eligible, LostDays, Lost, HaltedSlot
<1>. QED BY <1>1, <1>2, <1>4

LEMMA HandedKept ==
  ASSUME Handed, UNCHANGED <<missing, halts, verified, coverage, mask>>,
         phase' = phase \/ (phase = "masked" /\ phase' \in {"universe", "audited"})
           \/ (phase = "audited" /\ phase' = "session")
  PROVE  Handed'
<1>1. [s \in Symbols |-> Gaps(s)]' = [s \in Symbols |-> Gaps(s)] BY DerivedKept
<1>2. Mask' = Mask BY DerivedKept
<1>. QED BY <1>1, <1>2 DEF Handed

\* So does the clock of a day.
LEMMA ClockKept ==
  ASSUME halts' = halts
  PROVE  /\ \A d, from, to : Overlap(d, from, to)' = Overlap(d, from, to)
         /\ \A d, from, to : OpenTime(d, from, to)' = OpenTime(d, from, to)
         /\ \A d, at : Halted(d, at)' = Halted(d, at)
         /\ \A d, entry : ExitBoundary(d, entry)' = ExitBoundary(d, entry)
<1>1. \A d, from, to : Overlap(d, from, to)' = Overlap(d, from, to)
  BY DEF Overlap, Pieces, HaltsOf
<1>2. \A d, from, to : OpenTime(d, from, to)' = OpenTime(d, from, to) BY DEF OpenTime, HaltsOf
<1>3. \A d, at : Halted(d, at)' = Halted(d, at) BY DEF Halted, HaltsOf
<1>4. \A d, entry : ExitBoundary(d, entry)' = ExitBoundary(d, entry)
  BY DEF ExitBoundary, Tradable, Overlap, Pieces, HaltsOf, Flat
<1>. QED BY <1>1, <1>2, <1>3, <1>4

LEMMA TradeKept ==
  ASSUME TradeInv, trade' = trade, halts' = halts,
         trade.status = "none" \/ UNCHANGED <<mask, phase>>
  PROVE  TradeInv'
<1>1. CASE trade.status = "none"
  BY <1>1 DEF TradeInv, IsTrade, Taken, Clocked, TradesEndInTime
<1>2. CASE UNCHANGED <<mask, phase>>
  <2>1. IsTrade(trade)' /\ (trade.status # "none" => phase = "session")'
    BY <1>2 DEF TradeInv, IsTrade
  <2>2. Taken' BY <1>2 DEF TradeInv, Taken, Flat
  <2>3. Clocked'
    <3>1. PICK d : d = trade.day OBVIOUS
    <3>2. PICK e : e = trade.entry OBVIOUS
    <3>3. ExitBoundary(trade.day, trade.entry)' = ExitBoundary(d, e)
      <4>1. trade'.day = d /\ trade'.entry = e BY <3>1, <3>2
      <4>2. ExitBoundary(d, e)' = ExitBoundary(d, e) BY ClockKept
      <4>. QED BY <4>1, <4>2
    <3>. QED BY <3>1, <3>2, <3>3 DEF TradeInv, Clocked
  <2>4. TradesEndInTime' BY DEF TradeInv, TradesEndInTime, OpenTime, Halted, HaltsOf, Flat
  <2>. QED BY <2>1, <2>2, <2>3, <2>4 DEF TradeInv
<1>. QED BY <1>1, <1>2

LEMMA AtMostIn ==
  ASSUME NEW n, NEW S, NEW A \in AtMost(n, S)
  PROVE  A \subseteq S
<1>1. CASE A = {} BY <1>1
<1>2. CASE A # {}
  <2>1. PICK f \in [1 .. n -> S] : A = Range(f) BY <1>2 DEF AtMost
  <2>. QED BY <2>1 DEF Range
<1>. QED BY <1>1, <1>2

LEMMA DayInitInv == DayInit => DayInv
<1>. SUFFICES ASSUME DayInit PROVE DayInv OBVIOUS
<1>1. Archive
  <2>1. PICK holes \in AtMost(MaxMissing, Symbols \X Slots) :
          missing = [s \in Symbols |-> {x[2] : x \in {y \in holes : y[1] = s}}]
    BY DEF DayInit
  <2>2. holes \subseteq Symbols \X Slots BY AtMostIn
  <2>3. missing \in [Symbols -> SUBSET Slots] BY <2>1, <2>2
  <2>4. halts \subseteq Events BY AtMostIn DEF DayInit
  <2>. QED BY <2>3, <2>4 DEF Archive
<1>2. Handed BY DEF DayInit, Handed
<1>3. TradeInv
  BY DEF DayInit, NoTrade, TradeInv, IsTrade, Taken, Clocked, TradesEndInTime
<1>. QED BY <1>1, <1>2, <1>3 DEF DayInv

LEMMA ReportGapsKeeps == DayInv /\ ReportGaps => DayInv'
<1>. SUFFICES ASSUME DayInv, ReportGaps PROVE DayInv' OBVIOUS
<1>1. Archive' BY DEF DayInv, ReportGaps, Archive
<1>2. Handed'
  <2>1. [s \in Symbols |-> Gaps(s)]' = [s \in Symbols |-> Gaps(s)] BY DEF ReportGaps, Gaps
  <2>. QED BY <2>1 DEF ReportGaps, Handed
<1>3. trade.status = "none" BY DEF DayInv, TradeInv, ReportGaps
<1>4. TradeInv' BY <1>3, TradeKept DEF DayInv, ReportGaps
<1>. QED BY <1>1, <1>2, <1>4 DEF DayInv

LEMMA RemediateKeeps == DayInv /\ Remediate => DayInv'
<1>. SUFFICES ASSUME DayInv, Remediate PROVE DayInv' OBVIOUS
<1>1. Archive' BY DEF DayInv, Remediate, Archive
<1>2. Handed'
  <2>1. Mask' = Mask /\ [s \in Symbols |-> Gaps(s)]' = [s \in Symbols |-> Gaps(s)]
    BY DerivedKept DEF Remediate
  <2>. QED BY <2>1 DEF DayInv, Remediate, Handed
<1>3. trade.status = "none" BY DEF DayInv, TradeInv, Remediate
<1>4. TradeInv' BY <1>3, TradeKept DEF DayInv, Remediate
<1>. QED BY <1>1, <1>2, <1>4 DEF DayInv

LEMMA AuditKeeps == DayInv /\ Audit => DayInv'
<1>. SUFFICES ASSUME DayInv, Audit PROVE DayInv' OBVIOUS
<1>1. Archive' BY DEF DayInv, Audit, Archive
<1>2. coverage = [s \in Symbols |-> Gaps(s)] /\ mask = Mask BY DEF DayInv, Handed, Audit
<1>3. ~\E s \in Symbols : \E t \in missing[s] :
         /\ <<s, t[1]>> \notin mask.sessions
         /\ ~FullyHalted(t[1], t[2], t[2] + Step)
  BY <1>2, HolesExplained DEF DayInv
<1>4. phase' \in {"universe", "audited"} BY <1>3 DEF Audit
<1>5. Handed' BY <1>4, HandedKept DEF DayInv, Audit
<1>6. trade.status = "none" BY DEF DayInv, TradeInv, Audit
<1>7. TradeInv' BY <1>6, TradeKept DEF DayInv, Audit
<1>. QED BY <1>1, <1>5, <1>7 DEF DayInv

\* What a step of the trade leaves as it is.
LEMMA ArchiveStays ==
  ASSUME DayInv, UNCHANGED <<missing, halts, verified, coverage, mask, phase>>
  PROVE  Archive' /\ Handed'
<1>1. Archive' BY DEF DayInv, Archive
<1>2. Handed' BY HandedKept DEF DayInv
<1>. QED BY <1>1, <1>2

\* A bar that a position needs and the archive has not is one that halts explain.
LEMMA HoleIsHalted ==
  ASSUME DayInv, trade.status \in {"intent", "held"},
         NEW at \in Nat, ~Bar(trade.symbol, trade.day, at)
  PROVE  /\ FullyHalted(trade.day, at, at + Step)
         /\ Halted(trade.day, at)
<1>. DEFINE s == trade.symbol
            t == <<trade.day, at>>
<1>1. s \in Symbols /\ t \in missing[s] /\ <<s, t[1]>> \notin mask.sessions
  BY DEF DayInv, TradeInv, Taken, Bar
<1>2. coverage = [x \in Symbols |-> Gaps(x)] /\ mask = Mask
  <2>1. phase = "session" BY DEF DayInv, TradeInv
  <2>. QED BY <2>1 DEF DayInv, Handed
<1>. HIDE DEF s
<1>3. FullyHalted(trade.day, at, at + Step)
  <2>1. FullyHalted(t[1], t[2], t[2] + Step) BY <1>1, <1>2, HolesExplained DEF DayInv
  <2>. QED BY <2>1
<1>4. Step \in Nat /\ Step > 0 BY TimesAre
<1>5. at + Step \in Nat /\ at <= at + Step /\ at \in at .. (at + Step) - 1 BY <1>4
<1>6. Halted(trade.day, at) BY <1>3, <1>5, FullyMeans DEF DayInv, Archive
<1>. QED BY <1>3, <1>6

LEMMA SignalKeeps == DayInv /\ Signal => DayInv'
<1>. SUFFICES ASSUME DayInv, Signal PROVE DayInv' OBVIOUS
<1>1. Archive' BY DEF DayInv, Signal, Archive
<1>2. Handed' BY HandedKept DEF DayInv, Signal
<1>3. PICK d \in DOMAIN Close, s \in Symbols, delay \in Delays :
        \/ trade' = [NoTrade EXCEPT !.day = d, !.symbol = s, !.entry = Decision + delay,
                                    !.status = "intent"]
           /\ NoPanel(d) = "none" /\ ~TooLate(d, Decision + delay)
        \/ \E reason : trade' = [NoTrade EXCEPT !.day = d, !.status = "NO_SIGNAL",
                                                !.reason = reason]
  BY DEF Signal
<1>4. phase' = "session" /\ mask' = mask BY DEF Signal
<1>5. CASE \E reason : trade' = [NoTrade EXCEPT !.day = d, !.status = "NO_SIGNAL",
                                                !.reason = reason]
  <2>1. IsTrade(trade)' /\ trade'.status = "NO_SIGNAL" BY <1>5 DEF NoTrade, IsTrade
  <2>2. TradeInv' BY <1>4, <2>1 DEF TradeInv, Taken, Clocked, TradesEndInTime
  <2>. QED BY <1>1, <1>2, <2>2 DEF DayInv
<1>6. CASE /\ trade' = [NoTrade EXCEPT !.day = d, !.symbol = s, !.entry = Decision + delay,
                                       !.status = "intent"]
           /\ NoPanel(d) = "none" /\ ~TooLate(d, Decision + delay)
  <2>. DEFINE due == Decision + delay
  <2>1. /\ IsTrade(trade)' /\ trade'.status = "intent" /\ trade'.day = d
        /\ trade'.symbol = s /\ trade'.entry = due
    BY <1>6 DEF NoTrade, IsTrade
  <2>2. <<s, d>> \notin mask.sessions BY <1>6 DEF NoPanel
  <2>3. due \in Nat /\ due % Step = 0 BY TimesAre, SumOfMultiples
  <2>4. due + Holding < Flat(d)
    <3>1. ~(due + Holding >= Flat(d)) BY <1>6 DEF TooLate
    <3>. QED BY <2>3, <3>1, TimesAre, FlatIs
  <2>. HIDE DEF due
  <2>5. Taken' BY <1>4, <2>1, <2>2, <2>3, <2>4 DEF Taken, Flat
  <2>6. TradeInv' BY <1>4, <2>1, <2>5 DEF TradeInv, Clocked, TradesEndInTime
  <2>. QED BY <1>1, <1>2, <2>6 DEF DayInv
<1>. QED BY <1>3, <1>5, <1>6

\* An intent ends without a position, or with one at its entry.
LEMMA EnterKeeps == DayInv /\ Enter => DayInv'
<1>. SUFFICES ASSUME DayInv, Enter PROVE DayInv' OBVIOUS
<1>1. Archive' /\ Handed' BY ArchiveStays DEF Enter
<1>2. /\ trade.status = "intent" /\ IsTrade(trade) /\ Taken /\ phase = "session"
      /\ phase' = phase /\ mask' = mask /\ halts' = halts
  BY DEF Enter, DayInv, TradeInv
<1>3. ~(~Halted(trade.day, trade.entry) /\ ~Bar(trade.symbol, trade.day, trade.entry))
  BY <1>2, HoleIsHalted DEF Taken
<1>4. CASE \E reason : Rejected("NO_FILL", reason)
  <2>1. IsTrade(trade)' /\ trade'.status = "NO_FILL" BY <1>2, <1>4 DEF Rejected, IsTrade
  <2>2. TradeInv' BY <1>2, <2>1 DEF TradeInv, Taken, Clocked, TradesEndInTime
  <2>. QED BY <1>1, <2>2 DEF DayInv
<1>5. CASE trade' = [trade EXCEPT !.status = "held", !.at = trade.entry,
                                  !.until = ExitBoundary(trade.day, trade.entry)]
  <2>. DEFINE u == ExitBoundary(trade.day, trade.entry)
  <2>1. /\ IsTrade(trade)' /\ trade'.status = "held" /\ trade'.at = trade.entry
        /\ trade'.until = u /\ trade'.entry = trade.entry /\ trade'.day = trade.day
        /\ trade'.symbol = trade.symbol
    <3>. HIDE DEF u
    <3>. QED BY <1>2, <1>5 DEF IsTrade, u
  <2>2. Taken' BY <1>2, <2>1 DEF Taken, Flat
  <2>3. Clocked'
    <3>1. PICK d : d = trade.day OBVIOUS
    <3>2. PICK e : e = trade.entry OBVIOUS
    <3>3. ExitBoundary(trade.day, trade.entry)' = u
      <4>1. trade'.day = d /\ trade'.entry = e BY <2>1, <3>1, <3>2
      <4>2. ExitBoundary(d, e)' = ExitBoundary(d, e) BY <1>2, ClockKept
      <4>. QED BY <3>1, <3>2, <4>1, <4>2
    <3>4. e \in Nat /\ e <= e /\ (e - e) % Step = 0
      <4>1. e \in Nat BY <1>2, <3>2 DEF Taken
      <4>2. e - e = 0 BY <4>1
      <4>. QED BY <4>1, <4>2, TimesAre, StepMultiple
    <3>. HIDE DEF u
    <3>. QED BY <2>1, <3>2, <3>3, <3>4 DEF Clocked
  <2>4. TradeInv' BY <1>2, <2>1, <2>2, <2>3 DEF TradeInv, TradesEndInTime
  <2>. QED BY <1>1, <2>4 DEF DayInv
<1>. QED BY <1>3, <1>4, <1>5 DEF Enter

\* A result at the end of its interval, with the clock it was reached by.
LEMMA ScoreKeeps ==
  ASSUME DayInv, trade.status = "held",
         UNCHANGED <<missing, halts, verified, coverage, mask, phase>>,
         NEW reason, NEW upper \in Nat, Scored(reason, upper),
         upper <= Flat(trade.day),
         OpenTime(trade.day, trade.entry, upper) < Holding + Step,
         reason = "TIME_EXIT" => OpenTime(trade.day, trade.entry, upper) >= Holding,
         reason = "FORCE_FLAT" => OpenTime(trade.day, trade.entry, upper) < upper - trade.entry
  PROVE  DayInv'
<1>1. Archive' /\ Handed' BY ArchiveStays
<1>2. IsTrade(trade) /\ phase = "session" BY DEF DayInv, TradeInv
<1>3. /\ IsTrade(trade)' /\ trade'.status = "SCORED" /\ trade'.reason = reason
      /\ trade'.upper = upper /\ trade'.day = trade.day /\ trade'.entry = trade.entry
  BY <1>2 DEF Scored, IsTrade
<1>4. TradesEndInTime'
  <2>1. PICK d : d = trade.day OBVIOUS
  <2>2. PICK e : e = trade.entry OBVIOUS
  <2>3. OpenTime(d, e, upper)' = OpenTime(d, e, upper) BY ClockKept
  <2>4. OpenTime(trade.day, trade.entry, trade.upper)' = OpenTime(d, e, upper)
    <3>1. trade'.day = d /\ trade'.entry = e /\ trade'.upper = upper BY <1>3, <2>1, <2>2
    <3>. QED BY <2>3, <3>1
  <2>. QED BY <1>3, <2>1, <2>2, <2>4 DEF TradesEndInTime, Flat
<1>5. TradeInv' BY <1>2, <1>3, <1>4 DEF TradeInv, Taken, Clocked
<1>. QED BY <1>1, <1>5 DEF DayInv

\* A position in its clock.
LEMMA Position ==
  ASSUME DayInv, trade.status = "held"
  PROVE  /\ halts \subseteq Events /\ trade.day \in DOMAIN Close
         /\ trade.entry \in Nat /\ trade.entry % Step = 0
         /\ trade.entry + Holding < Flat(trade.day)
         /\ trade.until = ExitBoundary(trade.day, trade.entry)
         /\ trade.at \in Nat /\ trade.entry <= trade.at
         /\ (trade.at - trade.entry) % Step = 0
  BY DEF DayInv, Archive, TradeInv, Taken, Clocked

LEMMA HoldKeeps == DayInv /\ Hold => DayInv'
<1>. SUFFICES ASSUME DayInv, Hold PROVE DayInv' OBVIOUS
<1>. DEFINE d == trade.day
            e == trade.entry
            at == trade.at
            u == trade.until
<1>1. /\ trade.status = "held" /\ at < u /\ IsTrade(trade) /\ Taken /\ phase = "session"
      /\ UNCHANGED <<missing, halts, verified, coverage, mask, phase>>
  BY DEF Hold, DayInv, TradeInv
<1>2. /\ halts \subseteq Events /\ d \in DOMAIN Close /\ e \in Nat /\ e % Step = 0
      /\ e + Holding < Flat(d) /\ u = ExitBoundary(d, e)
      /\ at \in Nat /\ e <= at /\ (at - e) % Step = 0
  BY <1>1, Position
<1>3. Step \in Nat \ {0} /\ Step \in Nat /\ Holding \in Nat /\ Step % Step = 0
  BY TimesAre, StepMultiple
<1>4. ~(~FullyHalted(d, at, at + Step) /\ ~Bar(trade.symbol, d, at))
  BY <1>1, <1>2, HoleIsHalted
<1>5. CASE trade' = [trade EXCEPT !.at = at + Step]
  <2>1. Archive' /\ Handed' BY <1>1, ArchiveStays
  <2>2. /\ IsTrade(trade)' /\ trade'.status = "held" /\ trade'.at = at + Step
        /\ trade'.until = u /\ trade'.entry = e /\ trade'.day = d
        /\ trade'.symbol = trade.symbol
    BY <1>1, <1>5 DEF IsTrade
  <2>3. Taken' BY <1>1, <2>2 DEF Taken, Flat
  <2>4. Clocked'
    <3>1. PICK dd : dd = d OBVIOUS
    <3>2. PICK ee : ee = e OBVIOUS
    <3>3. ExitBoundary(trade.day, trade.entry)' = u
      <4>1. trade'.day = dd /\ trade'.entry = ee BY <2>2, <3>1, <3>2
      <4>2. ExitBoundary(dd, ee)' = ExitBoundary(dd, ee) BY <1>1, ClockKept
      <4>. QED BY <1>2, <3>1, <3>2, <4>1, <4>2
    <3>4. ((at + Step) - e) % Step = 0
      <4>1. ((at - e) + Step) % Step = 0 BY <1>2, <1>3, SumOfMultiples
      <4>2. (at - e) + Step = (at + Step) - e BY <1>2, <1>3
      <4>. QED BY <4>1, <4>2
    <3>5. at + Step \in Nat /\ e <= at + Step BY <1>2, <1>3
    <3>. QED BY <2>2, <3>3, <3>4, <3>5 DEF Clocked
  <2>5. TradeInv' BY <1>1, <2>2, <2>3, <2>4 DEF TradeInv, TradesEndInTime
  <2>. QED BY <2>1, <2>5 DEF DayInv
<1>6. ASSUME NEW reason \in {"STOP", "TARGET", "GAP_THROUGH_STOP"},
             Scored(reason, at + Step)
      PROVE  DayInv'
  <2>1. OpenTime(d, e, at) < Holding BY <1>1, <1>2, Boundary
  <2>2. u \in Nat /\ u <= Flat(d) /\ (u - e) % Step = 0 BY <1>2, Boundary
  <2>3. /\ at + Step \in Nat /\ at <= at + Step /\ e <= at + Step
        /\ (at + Step) - at = Step
    BY <1>2, <1>3
  <2>4. OpenTime(d, e, at + Step) = OpenTime(d, e, at) + OpenTime(d, at, at + Step)
    BY <1>2, <2>3, OpenGrows
  <2>5. /\ OpenTime(d, at, at + Step) \in Nat /\ OpenTime(d, at, at + Step) <= Step
        /\ OpenTime(d, e, at) \in Nat
    BY <1>2, <2>3, OpenFinite
  <2>6. OpenTime(d, e, at + Step) < Holding + Step BY <1>3, <2>1, <2>4, <2>5
  <2>7. at + Step <= Flat(d)
    <3>1. at % Step = 0 /\ u % Step = 0
      <4>1. ((at - e) + e) % Step = 0 /\ ((u - e) + e) % Step = 0
        BY <1>2, <1>3, <2>2, SumOfMultiples
      <4>2. (at - e) + e = at /\ (u - e) + e = u BY <1>2, <2>2
      <4>. QED BY <4>1, <4>2
    <3>2. at + Step <= u BY <1>1, <1>2, <1>3, <2>2, <3>1, NextMultiple
    <3>3. Flat(d) \in Int BY <1>2, FlatIs
    <3>. QED BY <1>2, <1>3, <2>2, <3>2, <3>3
  <2>. QED BY <1>1, <1>6, <2>3, <2>6, <2>7, ScoreKeeps
<1>7. \/ trade' = [trade EXCEPT !.at = at + Step]
      \/ \E reason \in {"STOP", "TARGET", "GAP_THROUGH_STOP"} : Scored(reason, at + Step)
  <2>1. Protective(at) \subseteq {"STOP", "TARGET", "GAP_THROUGH_STOP"} BY DEF Protective
  <2>. QED BY <1>4, <2>1 DEF Hold
<1>. QED BY <1>5, <1>6, <1>7

LEMMA ExitKeeps == DayInv /\ Exit => DayInv'
<1>. SUFFICES ASSUME DayInv, Exit PROVE DayInv' OBVIOUS
<1>. DEFINE d == trade.day
            e == trade.entry
            u == trade.until
<1>1. /\ trade.status = "held" /\ IsTrade(trade) /\ phase = "session"
      /\ UNCHANGED <<missing, halts, verified, coverage, mask, phase>>
  BY DEF Exit, DayInv, TradeInv
<1>2. /\ halts \subseteq Events /\ d \in DOMAIN Close /\ e \in Nat /\ e % Step = 0
      /\ e + Holding < Flat(d) /\ u = ExitBoundary(d, e)
  BY <1>1, Position
<1>3. /\ u \in Nat /\ u <= Flat(d)
      /\ u # Flat(d) => OpenTime(d, e, u) >= Holding
      /\ u = Flat(d) => OpenTime(d, e, u) < u - e
      /\ OpenTime(d, e, u) < Holding + Step
  BY <1>2, Boundary
<1>4. CASE ~Halted(d, u) /\ Bar(trade.symbol, d, u)
  <2>1. PICK reason : /\ Scored(reason, u)
                      /\ reason = IF u = Flat(d) THEN "FORCE_FLAT" ELSE "TIME_EXIT"
    BY <1>4 DEF Exit
  <2>2. /\ reason = "TIME_EXIT" => OpenTime(d, e, u) >= Holding
        /\ reason = "FORCE_FLAT" => OpenTime(d, e, u) < u - e
    BY <1>3, <2>1
  <2>. QED BY <1>1, <1>3, <2>1, <2>2, ScoreKeeps
<1>5. CASE ~(~Halted(d, u) /\ Bar(trade.symbol, d, u))
  <2>1. Halted(d, u) BY <1>1, <1>3, <1>5, HoleIsHalted
  <2>2. \/ Rejected("INDETERMINATE_FORCE_FLAT", "INDETERMINATE_FORCE_FLAT")
        \/ Rejected("INDETERMINATE", "INDETERMINATE_TIME_EXIT")
    BY <1>5 DEF Exit
  <2>3. /\ IsTrade(trade)' /\ trade'.until = u /\ trade'.day = d
        /\ trade'.status \in {"INDETERMINATE", "INDETERMINATE_FORCE_FLAT"}
        /\ trade'.reason \in {"INDETERMINATE_FORCE_FLAT", "INDETERMINATE_TIME_EXIT"}
    BY <1>1, <2>2 DEF Rejected, IsTrade
  <2>4. Halted(trade.day, trade.until)'
    <3>1. PICK dd : dd = d OBVIOUS
    <3>2. PICK uu : uu = u OBVIOUS
    <3>3. Halted(dd, uu)' = Halted(dd, uu) BY <1>1, ClockKept
    <3>4. trade'.day = dd /\ trade'.until = uu BY <2>3, <3>1, <3>2
    <3>. QED BY <2>1, <3>1, <3>2, <3>3, <3>4
  <2>5. TradeInv' BY <1>1, <2>3, <2>4 DEF TradeInv, Taken, Clocked, TradesEndInTime
  <2>6. Archive' /\ Handed' BY <1>1, ArchiveStays
  <2>. QED BY <2>5, <2>6 DEF DayInv
<1>. QED BY <1>4, <1>5

LEMMA DayNextKeeps == DayInv /\ [DayNext]_dayVars => DayInv'
<1>. SUFFICES ASSUME DayInv, [DayNext]_dayVars PROVE DayInv' OBVIOUS
<1>1. CASE UNCHANGED dayVars
  <2>1. UNCHANGED <<missing, halts, verified, coverage, mask, phase, trade>> BY <1>1 DEF dayVars
  <2>2. Archive' /\ Handed' BY <2>1, ArchiveStays
  <2>3. TradeInv' BY <2>1, TradeKept DEF DayInv
  <2>. QED BY <2>2, <2>3 DEF DayInv
<1>2. CASE DayNext
  BY <1>2, ReportGapsKeeps, RemediateKeeps, AuditKeeps, SignalKeeps, EnterKeeps, HoldKeeps,
     ExitKeeps DEF DayNext
<1>. QED BY <1>1, <1>2

LEMMA DayInvariance == DaySpec => []DayInv
  BY DayInitInv, DayNextKeeps, PTL DEF DaySpec

-----------------------------------------------------------------------------
(* The theorems. *)

\* No hole of any archive counts as valid data, and the audit of the development
\* run accepts what the remediation made of it (build_mask, validity,
\* structural_audit).
THEOREM HolesAreMasked == DaySpec => []MaskCoversGaps
<1>1. DayInv => MaskCoversGaps BY HandedCovers DEF DayInv
<1>. QED BY <1>1, DayInvariance, PTL

\* A trade has no result only when its exit is due inside a halt; otherwise it is
\* over by the force-flat time, was open to the market less than a slot longer
\* than the holding time, and is forced only because of halts (panel,
\* exit_boundary, simulate_intent).
THEOREM TradesEnd == DaySpec => []TradesEndInTime
<1>1. DayInv => TradesEndInTime BY DEF DayInv, TradeInv
<1>. QED BY <1>1, DayInvariance, PTL
=============================================================================
