---------------------------- MODULE PrivateStore -----------------------------
(***************************************************************************)
(* trading_runtime/private_store.py over the GitHub contents API: appends  *)
(* that must create their file, and projections merged by reading the file *)
(* and writing it back under the revision that was read, at most Attempts  *)
(* times.  Several processes run at once (a scheduled workflow, the local  *)
(* command line, a run on another machine) and the repository's owner      *)
(* edits the same files.  A request can be lost, time out while it is      *)
(* still on its way, or be applied without its answer arriving; a process  *)
(* that dies leaves its request behind in the same way.                    *)
(*                                                                         *)
(* The store keeps nothing between calls, so each caller is one call; a    *)
(* process that makes several calls is several callers.                    *)
(***************************************************************************)
EXTENDS Naturals, FiniteSets

CONSTANTS
    Callers, Paths, Keys, OwnerValues, Nobody,  \* as in AtomicStore
    Attempts,       \* rounds of merge_projection (3 in the code)
    MaxOwnerEdits   \* bound on the owner's edits of the projection

ASSUME NobodyAssumption == Nobody \notin Callers
ASSUME CallersAssumption == IsFiniteSet(Callers)
ASSUME AttemptsAssumption == Attempts \in Nat \ {0}
ASSUME OwnerAssumption == MaxOwnerEdits \in Nat

VARIABLES
    projection,   \* content of the projection file
    records,      \* records[p]: whose record is at path p
    ownerEdits,   \* edits the owner has made
    call,         \* call[c]: the method and its argument
    pc,           \* pc[c]: where the call is
    rounds,       \* rounds[c]: rounds of the retry loop begun
    request,      \* request[c]: the PUT that is on its way
    net           \* net[c]: what became of the last PUT at the server

vars == <<projection, records, ownerEdits, call, pc, rounds, request, net>>

Projections == [orders : [Keys -> Callers \cup {Nobody}], owner : OwnerValues]
NoCall == [kind |-> "none"]
MergeCalls == [kind : {"merge"}, key : Keys]
CreateCalls == [kind : {"create"}, path : Paths]
NoRequest == [sent |-> FALSE]
CreateRequest == [sent |-> TRUE]

Ended == {"ok", "conflict", "raised", "exhausted", "error"}

(* GitHub's revision of a file is a hash of its content and nothing else:  *)
(* equal contents have equal revisions, whatever happened in between.      *)
ShaOfOrders(content) == [sha |-> content.orders]  \* mutant
Sha(content) == [sha |-> content]

(* The reservation of a client order id (executor.py): the transform fails *)
(* on an id that is already in the ledger, and adds its own to a copy of   *)
(* the latest content otherwise.                                           *)
Refuses(content, k) == content.orders[k] # Nobody
FreshTransform(content, c, k) ==  \* mutant: starts from an empty ledger
    [content EXCEPT !.orders = [x \in Keys |-> IF x = k THEN c ELSE Nobody]]
Transform(content, c, k) == [content EXCEPT !.orders[k] = c]

Init ==
    /\ projection \in {p \in Projections : \A k \in Keys : p.orders[k] = Nobody}
    /\ records = [p \in Paths |-> Nobody]
    /\ ownerEdits = 0
    /\ call = [c \in Callers |-> NoCall]
    /\ pc = [c \in Callers |-> "idle"]
    /\ rounds = [c \in Callers |-> 0]
    /\ request = [c \in Callers |-> NoRequest]
    /\ net = [c \in Callers |-> "none"]

Begin(c) ==
    /\ pc[c] = "idle"
    /\ \E r \in MergeCalls \cup CreateCalls : call' = [call EXCEPT ![c] = r]
    /\ pc' = [pc EXCEPT ![c] = "read"]
    /\ UNCHANGED <<projection, records, ownerEdits, rounds, request, net>>

(* One GET of the projection, the transform of what it returned, and the   *)
(* PUT that carries the result and the revision that was read.             *)
ReadProjection(c) ==
    /\ pc[c] = "read"
    /\ call[c] \in MergeCalls
    /\ rounds' = [rounds EXCEPT ![c] = @ + 1]
    /\ LET k == call[c].key IN
         IF Refuses(projection, k)
         THEN /\ pc' = [pc EXCEPT ![c] = "raised"]
              /\ UNCHANGED <<request, net>>
         ELSE /\ pc' = [pc EXCEPT ![c] = "wait"]
              /\ request' = [request EXCEPT ![c] =
                   [sent |-> TRUE, body |-> Transform(projection, c, k),
                    sha |-> Sha(projection)]]
              /\ net' = [net EXCEPT ![c] = "sent"]
    /\ UNCHANGED <<projection, records, ownerEdits, call>>

(* create_append_only_record: a GET that must find nothing, then a PUT     *)
(* without a revision.                                                     *)
ReadAbsent(c) ==
    /\ pc[c] = "read"
    /\ call[c] \in CreateCalls
    /\ IF records[call[c].path] # Nobody
       THEN /\ pc' = [pc EXCEPT ![c] = "conflict"]
            /\ UNCHANGED <<request, net>>
       ELSE /\ pc' = [pc EXCEPT ![c] = "wait"]
            /\ request' = [request EXCEPT ![c] = CreateRequest]
            /\ net' = [net EXCEPT ![c] = "sent"]
    /\ UNCHANGED <<projection, records, ownerEdits, call, rounds>>

(* GitHub handles a PUT: a file is replaced only under its own revision,   *)
(* and created only where there is none.  The caller may be gone by then;  *)
(* a request that is lost is one that is never handled.                    *)
ServerUpdate(c) ==
    /\ net[c] = "sent"
    /\ call[c] \in MergeCalls
    /\ IF request[c].sha = Sha(projection)
       THEN /\ projection' = request[c].body
            /\ net' = [net EXCEPT ![c] = "applied"]
       ELSE /\ net' = [net EXCEPT ![c] = "conflict"]
            /\ UNCHANGED projection
    /\ request' = [request EXCEPT ![c] = NoRequest]
    /\ UNCHANGED <<records, ownerEdits, call, pc, rounds>>

OverwritesFile(p) == TRUE  \* mutant
CreatesFile(p) == records[p] = Nobody

ServerCreate(c) ==
    /\ net[c] = "sent"
    /\ call[c] \in CreateCalls
    /\ LET p == call[c].path IN
         IF CreatesFile(p)
         THEN /\ records' = [records EXCEPT ![p] = c]
              /\ net' = [net EXCEPT ![c] = "applied"]
         ELSE /\ net' = [net EXCEPT ![c] = "conflict"]
              /\ UNCHANGED records
    /\ request' = [request EXCEPT ![c] = NoRequest]
    /\ UNCHANGED <<projection, ownerEdits, call, pc, rounds>>

OneRoundLess(c) == rounds[c] + 1 < Attempts  \* mutant
EndlessRounds(c) == TRUE                    \* mutant
RoundLeft(c) == rounds[c] < Attempts

(* The answer arrives.  Only a conflict of a merge is retried, from a new  *)
(* read, and only Attempts times.                                          *)
Receive(c) ==
    /\ pc[c] = "wait"
    /\ net[c] \in {"applied", "conflict"}
    /\ pc' = [pc EXCEPT ![c] =
                IF net[c] = "applied" THEN "ok"
                ELSE IF call[c] \in CreateCalls THEN "conflict"
                ELSE IF RoundLeft(c) THEN "read" ELSE "exhausted"]
    /\ UNCHANGED <<projection, records, ownerEdits, call, rounds, request, net>>

(* A transport error, an HTTP status other than conflict, a timeout, or    *)
(* the end of the process: the call ends without an answer, at any moment, *)
(* and what it sent is not called back.                                    *)
Fail(c) ==
    /\ pc[c] \in {"read", "wait"}
    /\ pc' = [pc EXCEPT ![c] = "error"]
    /\ UNCHANGED <<projection, records, ownerEdits, call, rounds, request, net>>

OwnerEdit ==
    /\ ownerEdits < MaxOwnerEdits
    /\ \E value \in OwnerValues \ {projection.owner} :
          projection' = [projection EXCEPT !.owner = value]
    /\ ownerEdits' = ownerEdits + 1
    /\ UNCHANGED <<records, call, pc, rounds, request, net>>

Server(c) == ServerUpdate(c) \/ ServerCreate(c)
Caller(c) ==
    \/ Begin(c)
    \/ ReadProjection(c)
    \/ ReadAbsent(c)
    \/ Receive(c)
    \/ Fail(c)

Next ==
    \/ \E c \in Callers : Caller(c) \/ Server(c)
    \/ OwnerEdit

Spec == Init /\ [][Next]_vars
-----------------------------------------------------------------------------

TypeOK ==
    /\ projection \in Projections
    /\ records \in [Paths -> Callers \cup {Nobody}]
    /\ ownerEdits \in 0..MaxOwnerEdits
    /\ call \in [Callers -> MergeCalls \cup CreateCalls \cup {NoCall}]
    /\ pc \in [Callers -> {"idle", "read", "wait"} \cup Ended]
    /\ rounds \in [Callers -> 0..Attempts]
    /\ request \in [Callers ->
          [sent : {TRUE}, body : Projections, sha : {Sha(p) : p \in Projections}]
          \cup {CreateRequest, NoRequest}]
    /\ net \in [Callers -> {"none", "sent", "applied", "conflict"}]

Merges == {c \in Callers : call[c] \in MergeCalls}
Creates == {c \in Callers : call[c] \in CreateCalls}

(* A call that was told its write succeeded finds it in place ever after,  *)
(* whatever other processes and late requests did since: no acknowledged   *)
(* reservation is lost to a concurrent merge, and of the runs that claim   *)
(* one slot at most one is told it owns it (private_store.py 102-149,      *)
(* lock.py 6-13).                                                          *)
AcknowledgedIsDurable ==
    \A c \in Callers : pc[c] = "ok" =>
       /\ c \in Merges => projection.orders[call[c].key] = c
       /\ c \in Creates => records[call[c].path] = c

(* A merge gives up only under real contention: PROJECTION_RETRY_EXHAUSTED *)
(* is raised only when the projection was changed by somebody else at      *)
(* least once in every round (private_store.py 138-149).                   *)
ExhaustedMeansContention ==
    \A c \in Callers : pc[c] = "exhausted" =>
       Cardinality({d \in Merges \ {c} : net[d] = "applied"}) + ownerEdits
          >= Attempts

(* No run ever reverts what the owner wrote into the file, however stale   *)
(* the content it read: only the owner's own edits change that part        *)
(* (private_store.py 133-149).                                             *)
OwnerPartKept ==
    [][projection'.owner # projection.owner => ownerEdits' = ownerEdits + 1]_vars

(* The refinement: reads, revisions, retries and lost messages implement   *)
(* one atomic effect per call.                                             *)
Result(c) ==
    CASE pc[c] = "idle" -> "idle"
      [] pc[c] \in {"read", "wait"} -> "pending"
      [] pc[c] = "ok" -> "ok"
      [] pc[c] = "error" -> "error"
      [] OTHER -> "refused"

Atomic == INSTANCE AtomicStore WITH
    applied <- [c \in Callers |-> net[c] = "applied"],
    result <- [c \in Callers |-> Result(c)]

(* Every behaviour of the store over HTTP is one of the atomic store: an   *)
(* effect happens at most once and on the latest content, a success is     *)
(* reported only after it and a refusal only if there never is one.        *)
ImplementsAtomicStore == Atomic!Spec
=============================================================================
