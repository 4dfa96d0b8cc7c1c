----------------------------- MODULE ManualJobs ------------------------------
(* The two manual jobs that write evidence to the private repository: the     *)
(* account diagnostics (trading_runtime/diagnostics.py) and the version 1     *)
(* research with its sealed out-of-sample period (trading_research: cloud.py, *)
(* experiment.py, splits.py, reports.py, cli.py).  Each reads the owner's     *)
(* authority files again and again, because the owner edits them while a job  *)
(* runs.  Cloud runs one job at a time (the workflows' concurrency group);    *)
(* the operator runs the same diagnostics, and the local research commands,   *)
(* on a computer of their own.                                                *)
EXTENDS Integers, FiniteSets

CONSTANTS
    Cloud, Operator,
    \* contents of protocol-v1.json, of RESEARCH_PROTOCOL_V1.md, of POLICY.md
    Protocols, Documents, Policies,
    None,
    Attempts,              \* tries of merge_projection
    MaxJobs, MaxEdits, MaxFaults  \* bounds: jobs started, owner's edits, faults

Procs == {Cloud, Operator}

ASSUME ManualAssumption ==
    /\ Cloud # Operator
    /\ None \notin Protocols \cup Documents \cup Policies
    /\ Attempts \in Nat \ {0} /\ {MaxJobs, MaxEdits, MaxFaults} \subseteq Nat

VARIABLES
    authority,   \* armed (the strategy is tradable, or the kill switch is off), and
                 \* the law of research: protocol, document, policy
    readiness,   \* state/readiness.json: execution_ready, execution_enabled, origin
    reports,     \* data/evidence/connectivity_*: what each diagnostic observed
    selections,  \* research-v1/selection_*: which job selected under what
    claims,      \* research-v1/oos_<protocol>: immutable claims in the repository
    results,     \* research-v1/results_*
    localClaims, \* oos-claims in the operator's directory
    localSelections,  \* the operator's selection.json files: protocol and policy
    job,         \* what each process is doing
    clock,       \* a job's number is its starting time
    opened,      \* history: the evaluations of an out-of-sample period
    inForce,     \* history: the parts of the cloud job's law that have been in
                 \* force since its last evaluation
    edits, faults

store == <<readiness, reports, selections, claims, results>>
local == <<localClaims, localSelections>>
history == <<clock, opened, inForce>>
bounds == <<edits, faults>>
vars == <<authority, store, local, job, history, bounds>>

Parts == {"protocol", "document", "policy"}
Law == [f \in Parts |-> authority[f]]
Report(n, seen) == [at |-> n, seen |-> seen]
Idle == [step |-> "idle", at |-> 0, seen |-> {}, law |-> None,
         winner |-> FALSE, read |-> None, tries |-> 0]

Init ==
    /\ authority \in [armed : {FALSE}, protocol : Protocols, document : Documents,
                      policy : Policies]
    /\ readiness = [ready |-> FALSE, enabled |-> FALSE, at |-> 0, seen |-> {}]
    /\ reports = {} /\ selections = {} /\ claims = {} /\ results = {}
    /\ localClaims = {} /\ localSelections = {}
    /\ job = [p \in Procs |-> Idle]
    /\ clock = 0 /\ opened = {} /\ inForce = {}
    /\ edits = 0 /\ faults = 0

At(p, s) == job[p].step = s
To(p, s) == job' = [job EXCEPT ![p].step = s]
End(p) == job' = [job EXCEPT ![p] = Idle]

\* assert_validation_safety, and the stricter reports.safety.
Safe == ~authority.armed /\ ~readiness.ready
ResearchSafe == Safe /\ ~readiness.enabled

\* A job starts: its timestamp is its number.
Start(p, j) ==
    /\ At(p, "idle") /\ clock < MaxJobs
    /\ clock' = clock + 1
    /\ job' = [job EXCEPT ![p] = [j EXCEPT !.at = clock + 1]]

\* An exception: the job ends and leaves what it has written.
Abort(p, guard) ==
    /\ ~guard
    /\ End(p)
    /\ UNCHANGED <<authority, store, local, history, bounds>>

-----------------------------------------------------------------------------
(* Diagnostics.                                                               *)

\* isolation_assessment: a reconciliation with alerts, or one that failed, owns
\* nothing, so that whatever the account holds is foreign to it.
Isolated(held, foreign, alerts) ==
    LET unowned == IF alerts = {} THEN foreign ELSE held
        status == CASE unowned \/ alerts \ {"ACCOUNT_NOT_BOUND"} # {} -> "UNSAFE"
                    [] alerts # {} -> "SAFE_WITH_LIMITATIONS"
                    [] OTHER -> "SAFE"
    IN  status = "SAFE"

\* run_diagnostics: the paper address and the safety before; what its probes,
\* each of which may fail for itself, let readiness claim is decided here.
Diagnose(p) ==
    /\ Safe
    /\ \E held, foreign, market \in BOOLEAN,
          alerts \in SUBSET {"ACCOUNT_NOT_BOUND", "OTHER"} :
         /\ foreign => held
         /\ Start(p, [Idle EXCEPT !.step = "report", !.seen =
              (IF market THEN {"market"} ELSE {}) \cup
              (IF Isolated(held, foreign, alerts) THEN {"isolation"} ELSE {})])
    /\ UNCHANGED <<authority, store, local, opened, inForce, bounds>>

NeverNewer(p) == FALSE \* mutant: the comparison is missing
\* READINESS_NEWER_THAN_DIAGNOSTIC.
Newer(p) == readiness.at > job[p].at

Merged(p) == [readiness EXCEPT !.ready = FALSE, !.enabled = FALSE,
                               !.at = job[p].at, !.seen = job[p].seen]

\* mutant: the projection is written before its evidence
MergeFirst(p) ==
    /\ At(p, "report") /\ Safe /\ ~Newer(p)
    /\ readiness' = Merged(p)
    /\ job' = [job EXCEPT ![p].step = "check"]
    /\ UNCHANGED <<authority, reports, selections, claims, results, local,
                   history, bounds>>

\* The safety after the reads, and the append-only report.
Record(p) ==
    /\ At(p, "report")
    /\ \/ /\ Safe
          /\ reports' = reports \cup {Report(job[p].at, job[p].seen)}
          /\ To(p, "merge")
          /\ UNCHANGED <<authority, readiness, selections, claims, results,
                         local, history, bounds>>
       \/ Abort(p, Safe)

\* merge_projection reads the projection with its sha; update looks at it and at
\* the authority again.
MergeRead(p) ==
    /\ At(p, "merge")
    /\ \/ /\ Safe /\ ~Newer(p) /\ job[p].tries < Attempts
          /\ job' = [job EXCEPT ![p].step = "write", ![p].read = readiness]
          /\ UNCHANGED <<authority, store, local, history, bounds>>
       \/ Abort(p, Safe /\ ~Newer(p) /\ job[p].tries < Attempts)

\* The write is refused when the file has changed; refused too, or not answered,
\* when the service fails.
MergeWrite(p) ==
    /\ At(p, "write")
    /\ \/ /\ readiness = job[p].read
          /\ readiness' = Merged(p)
          /\ \/ To(p, "check") /\ UNCHANGED faults
             \/ faults < MaxFaults /\ faults' = faults + 1 /\ End(p)
       \/ /\ \/ readiness # job[p].read /\ UNCHANGED faults
             \/ faults < MaxFaults /\ faults' = faults + 1
          /\ job' = [job EXCEPT ![p].step = "merge", ![p].read = None,
                                ![p].tries = @ + 1]
          /\ UNCHANGED readiness
    /\ UNCHANGED <<authority, reports, selections, claims, results, local,
                   history, edits>>

\* The last assert_validation_safety changes nothing any more.
Check(p) ==
    /\ At(p, "check")
    /\ End(p)
    /\ UNCHANGED <<authority, store, local, history, bounds>>

-----------------------------------------------------------------------------
(* Research in the cloud: run_cloud.                                          *)

Claimed(protocol) == \E c \in claims : c.protocol = protocol

\* Refused once the protocol has its claim.  The law is read before anything else.
Research ==
    /\ ResearchSafe /\ ~Claimed(authority.protocol)
    /\ Start(Cloud, [Idle EXCEPT !.step = "select", !.law = Law])
    /\ UNCHANGED <<authority, store, local, opened, inForce, bounds>>

Researching == job[Cloud].step \in
    {"select", "compare", "seal", "claim", "open", "compare again", "final"}
InForce(law) == {f \in Parts : law[f] = job[Cloud].law[f]}

\* The sources are read, select names a candidate or none, and what it has seen
\* of development and validation is persisted.
Select ==
    /\ At(Cloud, "select")
    /\ \/ /\ ResearchSafe
          /\ \E winner \in BOOLEAN :
               job' = [job EXCEPT ![Cloud].step = "compare", ![Cloud].winner = winner]
          /\ inForce' = InForce(Law)
          /\ UNCHANGED <<authority, store, local, clock, opened, bounds>>
       \/ Abort(Cloud, ResearchSafe)

AnyLaw(parts) == TRUE  \* mutant: the authority is not compared again
\* RESEARCH_AUTHORITY_CHANGED otherwise.
SameLaw(parts) == \A f \in parts : Law[f] = job[Cloud].law[f]

\* The authority is compared with the law of the job, before the selection and,
\* without the document, before the result.  What is written next names the law of
\* the job, whatever the authority has become meanwhile.
Compare ==
    /\ At(Cloud, "compare") /\ SameLaw(Parts) /\ To(Cloud, "seal")
    /\ UNCHANGED <<authority, store, local, history, bounds>>

CompareAgain ==
    /\ At(Cloud, "compare again") /\ SameLaw({"protocol", "policy"}) /\ To(Cloud, "final")
    /\ UNCHANGED <<authority, store, local, history, bounds>>

LawChanged ==
    \/ At(Cloud, "compare") /\ Abort(Cloud, SameLaw(Parts))
    \/ At(Cloud, "compare again") /\ Abort(Cloud, SameLaw({"protocol", "policy"}))

Sealed == [at |-> job[Cloud].at, law |-> job[Cloud].law, winner |-> job[Cloud].winner,
           inForce |-> inForce]

\* The selection is persisted.
Seal ==
    /\ At(Cloud, "seal")
    /\ \/ /\ ResearchSafe
          /\ selections' = selections \cup {Sealed}
          /\ To(Cloud, IF job[Cloud].winner THEN "claim" ELSE "compare again")
          /\ UNCHANGED <<authority, readiness, reports, claims, results, local,
                         history, bounds>>
       \/ Abort(Cloud, ResearchSafe)

\* mutant: the claim is made when the evaluation is done
OpenUnclaimed ==
    /\ At(Cloud, "claim")
    /\ opened' = opened \cup {[at |-> job[Cloud].at, by |-> Cloud,
                               protocol |-> job[Cloud].law.protocol]}
    /\ UNCHANGED <<authority, store, local, job, clock, inForce, bounds>>

\* run_oos: the immutable claim, which one job only can create.
Claim ==
    /\ At(Cloud, "claim")
    /\ LET protocol == job[Cloud].law.protocol IN
         \/ /\ ResearchSafe /\ ~Claimed(protocol)
            /\ claims' = claims \cup {[protocol |-> protocol, at |-> job[Cloud].at]}
            /\ \/ To(Cloud, "open") /\ UNCHANGED faults
               \/ faults < MaxFaults /\ faults' = faults + 1 /\ End(Cloud)
            /\ UNCHANGED <<authority, readiness, reports, selections, results,
                           local, history, edits>>
         \/ Abort(Cloud, ResearchSafe /\ ~Claimed(protocol))

\* The safety after the claim, and the evaluation of the sealed period.
Open ==
    /\ At(Cloud, "open")
    /\ \/ /\ ResearchSafe
          /\ opened' = opened \cup {[at |-> job[Cloud].at, by |-> Cloud,
                                     protocol |-> job[Cloud].law.protocol]}
          /\ inForce' = InForce(Law)
          /\ To(Cloud, "compare again")
          /\ UNCHANGED <<authority, store, local, clock, bounds>>
       \/ Abort(Cloud, ResearchSafe)

\* The result is persisted, after a last look at the safety.  It names its protocol
\* and, as the number of its job, its selection.
Final ==
    /\ At(Cloud, "final")
    /\ \/ /\ ResearchSafe
          /\ results' = results \cup
               {[at |-> job[Cloud].at, protocol |-> job[Cloud].law.protocol,
                 inForce |-> inForce]}
          /\ End(Cloud)
          /\ UNCHANGED <<authority, readiness, reports, selections, claims, local,
                         history, bounds>>
       \/ Abort(Cloud, ResearchSafe)

-----------------------------------------------------------------------------
(* The operator's research commands, on the files of a clone.                 *)

\* What a selection made now is bound to; the document is not looked at.
Bound == [protocol |-> authority.protocol, policy |-> authority.policy]

\* run-all with a dataset: an existing local claim refuses it.  An existing
\* selection only refuses its own --output directory, and another may be named.
LocalSelect ==
    /\ At(Operator, "idle") /\ clock < MaxJobs
    /\ authority.protocol \notin localClaims
    /\ localSelections' = localSelections \cup {Bound}
    /\ clock' = clock + 1
    /\ UNCHANGED <<authority, store, localClaims, job, opened, inForce, bounds>>

\* oos: the protocol, the policy and the code are those of the selection; the
\* local claim is consumed first.  Nothing of the repository is looked at.
LocalClaim ==
    /\ Bound \in localSelections /\ authority.protocol \notin localClaims
    /\ Start(Operator, [Idle EXCEPT !.step = "local", !.law = Law])
    /\ localClaims' = localClaims \cup {authority.protocol}
    /\ UNCHANGED <<authority, store, localSelections, opened, inForce, bounds>>

LocalOpen ==
    /\ At(Operator, "local")
    /\ opened' = opened \cup {[at |-> job[Operator].at, by |-> Operator,
                               protocol |-> job[Operator].law.protocol]}
    /\ End(Operator)
    /\ UNCHANGED <<authority, store, local, clock, inForce, bounds>>

-----------------------------------------------------------------------------
(* The owner, and processes that die.                                         *)

\* An edit may put parts of a running job's law into force again.
Edit ==
    /\ edits < MaxEdits /\ edits' = edits + 1
    /\ \/ /\ authority' \in [armed : BOOLEAN, protocol : Protocols, document : Documents,
                             policy : Policies]
          /\ authority' # authority
          /\ inForce' = IF Researching THEN inForce \cup InForce(authority') ELSE inForce
          /\ UNCHANGED readiness
       \/ /\ \/ readiness' = [readiness EXCEPT !.ready = ~@]
             \/ readiness' = [readiness EXCEPT !.enabled = ~@]
          /\ UNCHANGED <<authority, inForce>>
    /\ UNCHANGED <<reports, selections, claims, results, local, job, clock, opened, faults>>

Kill(p) ==
    /\ ~At(p, "idle") /\ faults < MaxFaults /\ faults' = faults + 1
    /\ End(p)
    /\ UNCHANGED <<authority, store, local, history, edits>>

Next ==
    \/ \E p \in Procs :
         Diagnose(p) \/ Record(p) \/ MergeRead(p) \/ MergeWrite(p) \/ Check(p) \/ Kill(p)
    \/ Research \/ Select \/ Compare \/ CompareAgain \/ LawChanged
    \/ Seal \/ Claim \/ Open \/ Final
    \/ LocalSelect \/ LocalClaim \/ LocalOpen
    \/ Edit

Spec == Init /\ [][Next]_vars

-----------------------------------------------------------------------------
(* Properties.                                                                *)

\* Whatever dies, is edited or stays unanswered in between, the sealed period of a
\* protocol is evaluated at most once by the cloud and at most once by the
\* operator (run_cloud, run_oos, persist; claim_local_oos).
EachPlaceOpensOnce ==
    \A o, q \in opened : o.protocol = q.protocol /\ o.by = q.by => o = q

\* The readiness the owner sees rests on a report that is in the repository, and
\* shows what that report observed (run_diagnostics, merge_projection).
ReadinessHasEvidence ==
    readiness.at > 0 => Report(readiness.at, readiness.seen) \in reports

\* No diagnostic overwrites a readiness of a later one, nor one in which the
\* owner has set execution_ready meanwhile: the conditional write of
\* merge_projection joins the check to the write.
ReadinessNeverGoesBack ==
    [][readiness' # readiness /\ edits' = edits =>
         readiness.at <= readiness'.at /\ ~readiness.ready]_vars

\* A research result stands on a selection that its own job has persisted before,
\* under the same protocol, and any evaluation behind it was claimed by that job.  The
\* job works on the law it read at its start while the owner edits; but no
\* selection is recorded unless every part of that law was in force at some moment
\* after the candidates were judged, and no result unless protocol and policy were
\* after the last evaluation (run_cloud).
ResultsAreTraceable ==
    /\ \A r \in results :
         /\ {"protocol", "policy"} \subseteq r.inForce
         /\ \E s \in selections : s.at = r.at /\ s.law.protocol = r.protocol
    /\ \A s \in selections : Parts \subseteq s.inForce
    /\ \A o \in opened : o.by = Cloud =>
         /\ \E s \in selections : s.at = o.at /\ s.winner /\ s.law.protocol = o.protocol
         /\ [protocol |-> o.protocol, at |-> o.at] \in claims
=============================================================================
