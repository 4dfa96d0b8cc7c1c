----------------------------- MODULE BridgeQueue -----------------------------
(* The private evidence bridge: scripts/process_private_bridge_queue.py and   *)
(* the job of .github/workflows/private-evidence-bridge.yml that runs it.     *)
(* Requests are files of the private repository.  A job works on a clone and  *)
(* publishes everything it did with one push at its end, while the owner of   *)
(* the repository goes on editing.  One job runs at a time (the workflow's    *)
(* concurrency group).  How a source becomes evidence is module Acquisition;  *)
(* here each source is accepted or refused.                                   *)
EXTENDS Naturals, FiniteSets

CONSTANTS
    Files,       \* request files, numbers in the order of their names
    Urls, Sources,
    UrlOf,       \* canonical URL of a request
    SourceOf,    \* evidence directory of a URL: two URLs may share one
    Limit,       \* SECOND_BRAIN_MAX_REQUESTS_PER_RUN
    MaxRetry,    \* SECOND_BRAIN_MAX_RETRY_ATTEMPTS
    PushAttempts,
    MaxEdits,    \* bound: the owner's edits
    MaxFaults    \* bound: jobs killed, pushes refused or unanswered

ASSUME BridgeAssumption ==
    /\ Files \subseteq Nat /\ IsFiniteSet(Files)
    /\ UrlOf \in [Files -> Urls] /\ SourceOf \in [Urls -> Sources]
    /\ {Limit, MaxRetry, PushAttempts} \subseteq Nat \ {0}
    /\ {MaxEdits, MaxFaults} \subseteq Nat

VARIABLES
    time,      \* hours
    queue,     \* bridge_requests of the private main branch
    evidence,  \* bridge_evidence: the requests a source's record names
    job,       \* step of the running job
    tries,     \* its push attempts so far
    base,      \* the queue its commit is based on
    work,      \* its own copy of the queue
    found,     \* evidence records it has written
    taken,     \* the requests it has accepted, with the version it read
    failed,    \* the requests whose failed attempt it has marked
    edits, faults,
    latest,    \* history: the version of a request its owner last wanted, or 0
    failures,  \* history: published failures since it was last (re)submitted
    answered   \* history: requests that were in a published evidence record

owner == <<edits, latest>>
clone == <<tries, base, work, found, taken, failed>>
published == <<queue, evidence, failures, answered>>
vars == <<time, queue, evidence, job, tries, base, work, found, taken, failed,
          edits, faults, latest, failures, answered>>

NoRequest == [version |-> 0, attempts |-> 0, state |-> "absent", due |-> 0]
Fresh(v) == [version |-> v, attempts |-> 0, state |-> "new", due |-> 0]
Present(r) == r.version > 0
NothingFound == [s \in Sources |-> {}]

-----------------------------------------------------------------------------
(* load_requests, mark_retry and the loop of main.                            *)

\* Neither quarantined nor waiting for its retry_after.
Eligible(r, now) == Present(r) /\ r.state # "quarantined" /\ r.due <= now

\* mutant: skipped files count against the limit
FirstFiles(q, now) ==
    {f \in Files : /\ Eligible(q[f], now)
                   /\ Cardinality({g \in Files : g < f /\ Present(q[g])}) < Limit}

\* The first Limit eligible files in name order.
Batch(q, now) ==
    {f \in Files : /\ Eligible(q[f], now)
                   /\ Cardinality({g \in Files : g < f /\ Eligible(q[g], now)}) < Limit}

Backoff(n) == IF 2 ^ n < 24 THEN 2 ^ n ELSE 24

LateQuarantine(r, now) ==  \* mutant: one attempt too many
    LET n == r.attempts + 1 IN
      [r EXCEPT !.attempts = n,
                !.state = IF n > MaxRetry THEN "quarantined" ELSE "backoff",
                !.due = IF n > MaxRetry THEN 0 ELSE now + Backoff(n)]

MarkRetry(r, now) ==
    LET n == r.attempts + 1 IN
      [r EXCEPT !.attempts = n,
                !.state = IF n >= MaxRetry THEN "quarantined" ELSE "backoff",
                !.due = IF n >= MaxRetry THEN 0 ELSE now + Backoff(n)]

Group(batch, u) == {f \in batch : UrlOf[f] = u}
FirstOf(S) == CHOOSE f \in S : \A g \in S : f <= g

\* Groups are handled in the order of their first files; of two groups with
\* one evidence directory the later one overwrites the record.
Wins(batch, ok, u) ==
    \A w \in ok : SourceOf[w] = SourceOf[u]
                    => FirstOf(Group(batch, w)) <= FirstOf(Group(batch, u))

Records(batch, ok) ==
    [s \in Sources |->
        UNION {Group(batch, u) : u \in {w \in ok : SourceOf[w] = s /\ Wins(batch, ok, w)}}]

-----------------------------------------------------------------------------
Init ==
    /\ time = 0
    /\ queue = [f \in Files |-> Fresh(1)]
    /\ evidence = NothingFound
    /\ job = "idle" /\ tries = 0
    /\ base = queue /\ work = queue
    /\ found = NothingFound /\ taken = {} /\ failed = {}
    /\ edits = 0 /\ faults = 0
    /\ latest = [f \in Files |-> 1]
    /\ failures = [f \in Files |-> 0]
    /\ answered = {}

\* The end of a job, whatever its outcome: the clone is gone.
EndJob ==
    /\ job' = "idle" /\ tries' = 0
    /\ base' = queue' /\ work' = queue'
    /\ found' = NothingFound /\ taken' = {} /\ failed' = {}

\* Checkout, and the scan that decides whether the queue is processed at all.
Checkout ==
    /\ job = "idle"
    /\ \E f \in Files : Eligible(queue[f], time)
    /\ job' = "load"
    /\ base' = queue /\ work' = queue
    /\ UNCHANGED <<time, published, tries, found, taken, failed, owner, faults>>

\* main: load, group by URL, process every group; a group is accepted or not.
Process ==
    /\ job = "load"
    /\ LET batch == Batch(work, time) IN
         \E ok \in SUBSET {UrlOf[f] : f \in batch} :
            /\ work' = [f \in Files |-> IF f \notin batch THEN work[f]
                                        ELSE IF UrlOf[f] \in ok THEN NoRequest
                                        ELSE MarkRetry(work[f], time)]
            /\ found' = Records(batch, ok)
            /\ taken' = {<<f, work[f].version>> : f \in {g \in batch : UrlOf[g] \in ok}}
            /\ failed' = {f \in batch : UrlOf[f] \notin ok}
    /\ job' = "push"
    /\ UNCHANGED <<time, published, tries, base, owner, faults>>

-----------------------------------------------------------------------------
(* The last step of the workflow.                                             *)

Publish ==
    /\ queue' = work
    /\ evidence' = [s \in Sources |-> IF found[s] # {} THEN found[s] ELSE evidence[s]]
    /\ answered' = answered \union taken
    /\ failures' = [f \in Files |-> IF f \in failed THEN failures[f] + 1 ELSE failures[f]]

Push ==
    /\ job = "push" /\ queue = base
    /\ Publish /\ EndJob
    /\ UNCHANGED <<time, owner, faults>>

\* The server has taken the push, but git reports an error.  The commit is
\* then part of origin/main, and nothing is left to replay.
PushUnanswered ==
    /\ job = "push" /\ queue = base /\ faults < MaxFaults
    /\ faults' = faults + 1
    /\ Publish
    /\ job' = "rebase" /\ base' = work
    /\ found' = NothingFound /\ taken' = {} /\ failed' = {}
    /\ UNCHANGED <<time, tries, work, owner>>

\* main has advanced, in the queue or elsewhere.
PushRefused ==
    /\ job = "push"
    /\ \/ queue # base /\ UNCHANGED faults
       \/ faults < MaxFaults /\ faults' = faults + 1
    /\ job' = "rebase"
    /\ UNCHANGED <<time, published, clone, owner>>

Changed(f) == work[f] # base[f]

AlwaysMerges(f) == FALSE  \* mutant: the job's side wins every conflict

\* Both sides changed a file, and git cannot combine the changes: the job
\* deleted a file that was edited, or both changed its retry state.
Conflict(f) ==
    /\ Changed(f) /\ queue[f] # base[f]
    /\ Present(work[f]) \/ Present(queue[f])
    /\ ~ /\ Present(work[f]) /\ Present(queue[f])
         /\ queue[f].attempts = base[f].attempts

\* An edit elsewhere in the file may still combine with the new retry state.
Combined(f) ==
    IF ~Changed(f) THEN queue[f]
    ELSE IF Present(work[f]) /\ Present(queue[f])
         THEN [work[f] EXCEPT !.version = queue[f].version]
         ELSE work[f]

MayRefuse == \E f \in Files : Changed(f) /\ queue[f] # base[f] /\ Present(work[f])

Rebase ==
    /\ job = "rebase"
    /\ UNCHANGED <<time, published, owner, faults>>
    /\ \/ /\ \E f \in Files : Conflict(f)
          /\ EndJob
       \/ MayRefuse /\ EndJob
       \/ /\ \A f \in Files : ~Conflict(f)
          /\ IF tries + 1 < PushAttempts
             THEN /\ base' = queue
                  /\ work' = [f \in Files |-> Combined(f)]
                  /\ tries' = tries + 1 /\ job' = "push"
                  /\ UNCHANGED <<found, taken, failed>>
             ELSE EndJob

\* The job's time limit, a cancelled or lost runner: nothing is published.
JobLost ==
    /\ job # "idle" /\ faults < MaxFaults
    /\ faults' = faults + 1
    /\ UNCHANGED <<time, published, owner>>
    /\ EndJob

-----------------------------------------------------------------------------
(* The owner of the private repository.                                       *)

Edit(f, r) ==
    /\ edits < MaxEdits
    /\ edits' = edits + 1
    /\ queue' = [queue EXCEPT ![f] = r]
    /\ latest' = [latest EXCEPT ![f] = r.version]
    /\ UNCHANGED <<time, evidence, job, clone, faults, answered>>

\* A new request, or one that is put back into the queue as if it were new.
Submit(f) ==
    /\ Edit(f, Fresh(edits + 2))
    /\ failures' = [failures EXCEPT ![f] = 0]
\* A change of a request that leaves its retry state alone.
Amend(f) ==
    /\ Present(queue[f])
    /\ Edit(f, [queue[f] EXCEPT !.version = edits + 2])
    /\ UNCHANGED failures
Withdraw(f) ==
    /\ Present(queue[f])
    /\ Edit(f, NoRequest)
    /\ failures' = [failures EXCEPT ![f] = 0]

\* Hours pass while somebody waits for them.
Tick ==
    /\ \E f \in Files : queue[f].due > time
    /\ time' = time + 1
    /\ UNCHANGED <<published, job, clone, owner, faults>>

JobStep == Checkout \/ Process \/ Push \/ Rebase \/ PushRefused
Next ==
    \/ JobStep \/ PushUnanswered \/ JobLost \/ Tick
    \/ \E f \in Files : Submit(f) \/ Amend(f) \/ Withdraw(f)

\* The schedule starts a job every 15 minutes and time passes.  A job is assumed to
\* end within its limit of 20 minutes, unless it is one of the JobLost ones: every
\* source has a time limit, though 25 of them at their limit exceed the job's.  The
\* owner and faults owe nothing.
Spec == Init /\ [][Next]_vars /\ WF_vars(JobStep) /\ WF_vars(Tick)

-----------------------------------------------------------------------------
(* Properties.                                                                *)

(* A request is never lost and never consumed in a version that is not the    *)
(* owner's: it is in the queue as the owner last left it, or a job that had    *)
(* read exactly that version has published evidence for its source (the push  *)
(* of evidence and deletions together, the rebase that stops on a conflict).  *)
NothingLost ==
    \A f \in Files : latest[f] > 0 =>
        IF Present(queue[f])
        THEN queue[f].version = latest[f]
        ELSE <<f, latest[f]>> \in answered /\ evidence[SourceOf[UrlOf[f]]] # {}

(* The retry state of a request counts the failures that were published since *)
(* it was submitted, no matter how many jobs were lost, rebased or pushed      *)
(* twice, and it is quarantined at exactly MaxRetry of them.                   *)
QuarantineIsEarned ==
    \A f \in Files : Present(queue[f]) =>
        /\ queue[f].attempts = failures[f]
        /\ queue[f].state = "quarantined" <=> failures[f] = MaxRetry

(* However small the limit, no request waits for ever behind others that keep *)
(* failing: each ends as evidence, in quarantine, or withdrawn.                *)
EverySettled ==
    \A f \in Files :
        Present(queue[f]) ~> (~Present(queue[f]) \/ queue[f].state = "quarantined")
=============================================================================
