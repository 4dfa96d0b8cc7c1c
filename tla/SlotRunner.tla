------------------------------ MODULE SlotRunner ------------------------------
(***************************************************************************)
(* trading_runtime/runner.py: processes that find the slots that are due,  *)
(* claim each and perform it, next to runs the owner starts by hand.  A    *)
(* run leaves, in this order, a handoff, the current state, a progress     *)
(* record and a notification.  Processes overlap, each keeps the time it   *)
(* was started at for all its decisions, and a process can die after any   *)
(* step, or not learn of a write that took effect.                         *)
(*                                                                         *)
(* What a slot does to the account is PaperExecution; here it succeeds or  *)
(* fails.  Store operations have the atomic effect PrivateStore implements.*)
(* Journal events and watchlists are files nothing here reads back.        *)
(***************************************************************************)
EXTENDS Naturals, FiniteSets

CONSTANTS
    Procs,      \* processes, each started once
    Slots,      \* scheduled slots of the day
    DueAt,      \* DueAt[s]: the times at which slot s is due
    MaxTime,    \* bound on the clock
    Faults,     \* store errors, lost answers and crashes happen
    Nobody

Times == 1..MaxTime
Required == {"FORCE_FLAT", "RECONCILE"}
Report == "POST_CLOSE_REPORT"

(* A scheduled run is named by its slot, a manual one, which has a fresh   *)
(* random id, by its process.                                              *)
RunIds == Slots \cup Procs

ASSUME SlotAssumption == Required \cup {Report} \subseteq Slots /\ DueAt \in [Slots -> SUBSET Times]
ASSUME TimeAssumption == MaxTime \in Nat \ {0}
ASSUME FaultAssumption == Faults \in BOOLEAN
ASSUME NameAssumption == Nobody \notin RunIds /\ Slots \cap Procs = {}

VARIABLES
    time,
    claims,      \* claims[s]: the process that claimed slot s
    handoffs,    \* handoffs[i]: status in the handoff of run i
    state,       \* the current-state projection
    progress,    \* progress[i]: what the progress record of run i says
    summaries,   \* runs whose summary was sent
    alarms,      \* processes whose failure was sent
    performed,   \* performed[i]: how often the work of run i was begun
    pc,
    now,         \* now[p]: the time p was started at
    todo,        \* todo[p]: due slots p has not come to
    cur,         \* cur[p]: the run p performs
    status,      \* status[p]: outcome of its work
    missed       \* missed[p]: required slots its report found unclaimed

durable == <<claims, handoffs, state, progress>>
outside == <<summaries, alarms, performed>>
local == <<pc, now, todo, cur, status, missed>>
vars == <<time, durable, outside, local>>

Absent == "absent"
Outcomes == {"COMPLETE", "FAILED"}
NoProgress == [status |-> Absent, missed |-> {}]
Ended == {"done", "dead"}

Init ==
    /\ time = 1
    /\ claims = [s \in Slots |-> Nobody]
    /\ handoffs = [i \in RunIds |-> Absent]
    /\ state = [run |-> Nobody, updated |-> 0, status |-> Absent]
    /\ progress = [i \in RunIds |-> NoProgress]
    /\ summaries = {} /\ alarms = {}
    /\ performed = [i \in RunIds |-> 0]
    /\ pc = [p \in Procs |-> "idle"]
    /\ now = [p \in Procs |-> 0]
    /\ todo = [p \in Procs |-> {}]
    /\ cur = [p \in Procs |-> Nobody]
    /\ status = [p \in Procs |-> Absent]
    /\ missed = [p \in Procs |-> {}]

At(p, label) == pc[p] = label
Goto(p, label) == pc' = [pc EXCEPT ![p] = label]

Leave(p) ==
    /\ todo' = [todo EXCEPT ![p] = {}]
    /\ cur' = [cur EXCEPT ![p] = Nobody]
    /\ status' = [status EXCEPT ![p] = Absent]
    /\ missed' = [missed EXCEPT ![p] = {}]

(* An exception unwinds to the command line, which sends an alarm; a crash *)
(* does not.                                                               *)
Unwind(p) == Goto(p, "raised") /\ Leave(p)
Crash(p) == Goto(p, "dead") /\ Leave(p)

Continue(p, label) == Goto(p, label) /\ UNCHANGED <<todo, cur, status, missed>>

(* scheduled takes all the slots that are due, or the one it was asked for *)
(* if it is due; manual performs its command under an id of its own.       *)
Start(p) ==
    /\ At(p, "idle")
    /\ now' = [now EXCEPT ![p] = time]
    /\ LET due == {s \in Slots : time \in DueAt[s]} IN
         \/ /\ \E asked \in {due} \cup {{s} \cap due : s \in Slots} :
                  todo' = [todo EXCEPT ![p] = asked]
            /\ Goto(p, "claim")
            /\ UNCHANGED cur
         \/ /\ cur' = [cur EXCEPT ![p] = p]
            /\ Goto(p, "work")
            /\ UNCHANGED todo
    /\ UNCHANGED <<time, durable, outside, status, missed>>

ClaimedAnyway(s) == TRUE  \* mutant: the claim overwrites an earlier one
Claimable(s) == claims[s] = Nobody

(* A slot that is claimed already is passed over, silently. *)
Claim(p) ==
    /\ At(p, "claim")
    /\ \E s \in todo[p] :
       /\ todo' = [todo EXCEPT ![p] = @ \ {s}]
       /\ \/ /\ Claimable(s)
             /\ claims' = [claims EXCEPT ![s] = p]
             /\ cur' = [cur EXCEPT ![p] = s]
             /\ Goto(p, "work")
          \/ /\ ~Claimable(s)
             /\ UNCHANGED <<claims, pc, cur>>
    /\ UNCHANGED <<time, handoffs, state, progress, outside, now, status, missed>>

Finish(p) ==
    /\ At(p, "claim")
    /\ todo[p] = {}
    /\ Goto(p, "done")
    /\ UNCHANGED <<time, durable, outside, now, todo, cur, status, missed>>

(* Everything perform does inside its try: an error makes the run FAILED,  *)
(* and the run goes on to say so.                                          *)
Work(p) ==
    /\ At(p, "work")
    /\ performed' = [performed EXCEPT ![cur[p]] = @ + 1]
    /\ \/ /\ status' = [status EXCEPT ![p] = "COMPLETE"]
          /\ Goto(p, IF cur[p] = Report THEN "check_flat" ELSE "handoff")
       \/ /\ status' = [status EXCEPT ![p] = "FAILED"]
          /\ Goto(p, "handoff")
    /\ UNCHANGED <<time, durable, summaries, alarms, now, todo, cur, missed>>

(* The report after the close looks for the claim of a required slot. *)
Check(p, required, here, next) ==
    /\ At(p, here)
    /\ \/ /\ missed' = [missed EXCEPT ![p] =
                IF claims[required] = Nobody THEN @ \cup {required} ELSE @]
          /\ Goto(p, next)
          /\ UNCHANGED status
       \/ /\ Faults
          /\ status' = [status EXCEPT ![p] = "FAILED"]
          /\ Goto(p, "handoff")
          /\ UNCHANGED missed
    /\ UNCHANGED <<time, durable, outside, now, todo, cur>>

OnlyForceFlat(p) ==  \* mutant: the second required slot is not looked for
    Check(p, "FORCE_FLAT", "check_flat", "handoff")
CheckMissed(p) ==
    \/ Check(p, "FORCE_FLAT", "check_flat", "check_reconcile")
    \/ Check(p, "RECONCILE", "check_reconcile", "handoff")

HandoffSkippedOnFailure(p) ==  \* mutant: only completed runs hand over
    /\ At(p, "handoff")
    /\ handoffs' = IF status[p] = "FAILED" THEN handoffs
                   ELSE [handoffs EXCEPT ![cur[p]] = status[p]]
    /\ Continue(p, "merge")
    /\ UNCHANGED <<time, claims, state, progress, outside, now>>

WriteHandoff(p) ==
    /\ At(p, "handoff")
    /\ \/ /\ handoffs[cur[p]] = Absent
          /\ handoffs' = [handoffs EXCEPT ![cur[p]] = status[p]]
          /\ Continue(p, "merge")
       \/ /\ handoffs[cur[p]] # Absent
          /\ Unwind(p)
          /\ UNCHANGED handoffs
    /\ UNCHANGED <<time, claims, state, progress, outside, now>>

LastWriterWins(p) == FALSE  \* mutant: the state's own time is ignored
Newer(p) == state.updated > now[p]

(* The state is replaced unless it is newer than this run, however late    *)
(* this run comes to write it; then the run raises after its handoff.      *)
MergeState(p) ==
    /\ At(p, "merge")
    /\ \/ /\ Newer(p)
          /\ Unwind(p)
          /\ UNCHANGED state
       \/ /\ ~Newer(p)
          /\ state' = [run |-> cur[p], updated |-> now[p], status |-> status[p]]
          /\ Continue(p, "progress")
    /\ UNCHANGED <<time, claims, handoffs, progress, outside, now>>

WriteProgress(p) ==
    /\ At(p, "progress")
    /\ progress' = [progress EXCEPT ![cur[p]] =
                      [status |-> status[p], missed |-> missed[p]]]
    /\ Continue(p, "notify")
    /\ UNCHANGED <<time, claims, handoffs, state, outside, now>>

NotifyFirst(p) ==  \* mutant: the summary goes out before the record
    /\ At(p, "progress")
    /\ summaries' = summaries \cup {cur[p]}
    /\ UNCHANGED <<time, durable, alarms, performed, local>>

(* The notifier swallows its own failures; the next due slot follows. *)
Notify(p) ==
    /\ At(p, "notify")
    /\ summaries' = summaries \cup {cur[p]}
    /\ Goto(p, "claim")
    /\ cur' = [cur EXCEPT ![p] = Nobody]
    /\ status' = [status EXCEPT ![p] = Absent]
    /\ missed' = [missed EXCEPT ![p] = {}]
    /\ UNCHANGED <<time, durable, alarms, performed, now, todo>>

AlarmNamesRun(p) ==  \* mutant: the run is forgotten by then
    /\ At(p, "raised")
    /\ alarms' = alarms \cup {cur[p]}
    /\ Goto(p, "dead")
    /\ UNCHANGED <<time, durable, summaries, performed, now, todo, cur, status, missed>>

SilentExit(p) ==  \* mutant: the command line exits without a word
    /\ At(p, "raised")
    /\ Goto(p, "dead")
    /\ UNCHANGED <<time, durable, outside, now, todo, cur, status, missed>>

Alarm(p) ==
    /\ At(p, "raised")
    /\ alarms' = alarms \cup {p}
    /\ Goto(p, "dead")
    /\ UNCHANGED <<time, durable, summaries, performed, now, todo, cur, status, missed>>

(* Before or after any of its effects: a store error outside the try or in *)
(* its handler, a write that took effect and whose answer was lost, or a   *)
(* crash.                                                                  *)
Abort(p) ==
    /\ Faults
    /\ pc[p] \notin Ended \cup {"idle"}
    /\ Unwind(p) \/ Crash(p)
    /\ UNCHANGED <<time, durable, outside, now>>

Step(p) ==
    \/ Claim(p) \/ Finish(p) \/ Work(p) \/ CheckMissed(p)
    \/ WriteHandoff(p) \/ MergeState(p) \/ WriteProgress(p) \/ Notify(p)
    \/ Alarm(p)

Tick ==
    /\ time < MaxTime
    /\ time' = time + 1
    /\ UNCHANGED <<durable, outside, local>>

Next ==
    \/ \E p \in Procs : Start(p) \/ Step(p) \/ Abort(p)
    \/ Tick

Spec == Init /\ [][Next]_vars

(* A process that runs keeps running: it waits for nobody. *)
FairSpec == Spec /\ \A p \in Procs : WF_vars(Step(p))
-----------------------------------------------------------------------------

States == [run : RunIds \cup {Nobody}, updated : 0..MaxTime,
           status : Outcomes \cup {Absent}]
ProgressRecords == [status : Outcomes \cup {Absent}, missed : SUBSET Required]

TypeOK ==
    /\ time \in Times
    /\ claims \in [Slots -> Procs \cup {Nobody}]
    /\ handoffs \in [RunIds -> Outcomes \cup {Absent}]
    /\ state \in States
    /\ progress \in [RunIds -> ProgressRecords]
    /\ summaries \subseteq RunIds /\ alarms \subseteq Procs
    /\ performed \in [RunIds -> Nat]
    /\ pc \in [Procs -> {"idle", "claim", "work", "check_flat", "check_reconcile",
                         "handoff", "merge", "progress", "notify", "raised"} \cup Ended]
    /\ now \in [Procs -> 0..MaxTime]
    /\ todo \in [Procs -> SUBSET Slots]
    /\ cur \in [Procs -> RunIds \cup {Nobody}]
    /\ status \in [Procs -> Outcomes \cup {Absent}]
    /\ missed \in [Procs -> SUBSET Required]

(* The work of a run is begun at most once, by whichever of the processes  *)
(* that found the slot due: no crash, lost answer or second trigger        *)
(* replays it (runner.py 47-72, lock.py 6-13).                             *)
PerformedOnce == \A i \in RunIds : performed[i] <= 1

(* The run the current state names can be continued from: its handoff is   *)
(* there and tells the same outcome (runner.py 231-248).                   *)
HandoffContinuity ==
    state.run # Nobody => /\ handoffs[state.run] = state.status
                          /\ state.status # Absent

Owner(i) == IF i \in Slots THEN claims[i] ELSE i

(* A run whose progress record exists is in the current state, or a run    *)
(* started no earlier is: a slow old run that ends last neither hides a    *)
(* newer one nor records itself as if it had not been superseded           *)
(* (runner.py 235-261).                                                    *)
NewestRunWins ==
    \A i \in RunIds : progress[i].status # Absent => state.updated >= now[Owner(i)]

(* A summary goes out only for a run all of whose records are durable and  *)
(* agree on its outcome (runner.py 271: commit completion before           *)
(* notification).                                                          *)
CommittedBeforeNotified ==
    \A i \in summaries : progress[i].status \in Outcomes /\ handoffs[i] = progress[i].status

(* A report after the close that completes without naming a required slot  *)
(* as missed means that somebody claimed it; one claimed between the two   *)
(* looks is never misreported (runner.py 190-199).                         *)
UnnamedMeansClaimed ==
    progress[Report].status = "COMPLETE" =>
       \A s \in Required : claims[s] = Nobody => s \in progress[Report].missed

(* Without faults, a claimed slot is always answered for: a summary of its *)
(* run or an alarm of the process that claimed it, also when a newer run   *)
(* has overtaken it (runner.py 68-71, 235-273; cli.py 100-114).            *)
ClaimIsAnswered ==
    \A s \in Slots : \A p \in Procs :
       claims[s] = p ~> (s \in summaries \/ p \in alarms)
=============================================================================
