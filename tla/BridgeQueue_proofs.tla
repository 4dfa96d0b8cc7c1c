------------------------- MODULE BridgeQueue_proofs -------------------------
(***************************************************************************)
(* For any requests, URLs, evidence directories and limits, and any number *)
(* of edits, lost jobs and failed pushes: no request is lost or consumed   *)
(* in a version its owner has replaced, and none is quarantined before its *)
(* last attempt has been published.                                        *)
(*                                                                         *)
(* The inductive invariant compares, file by file, the copy a job works on *)
(* with the queue its commit is based on: a request is as it was, or it is *)
(* one published failure further, or it is gone, its version is among the  *)
(* accepted ones and a record is there for its source.  A rebase keeps     *)
(* this while it moves the base to what the owner has made of the queue.   *)
(***************************************************************************)
EXTENDS BridgeQueue, TLAPS, FiniteSetTheorems, WellFoundedInduction

\* A request, and the mark of its last attempt.
Sound(r) ==
    /\ r = [version |-> r.version, attempts |-> r.attempts, state |-> r.state, due |-> r.due]
    /\ r.version \in Nat /\ r.attempts \in 0..MaxRetry
    /\ ~Present(r) => r = NoRequest
    /\ Present(r) => (r.state = "quarantined" <=> r.attempts = MaxRetry)
IsQueue(q) == q = [f \in Files |-> q[f]] /\ \A f \in Files : Sound(q[f])

Types ==
    /\ IsQueue(queue) /\ IsQueue(base) /\ IsQueue(work)
    /\ edits \in Nat
    /\ latest \in [Files -> Nat] /\ failures \in [Files -> Nat]
    /\ job \in {"idle", "load", "push", "rebase"}

Failed(f) ==
    /\ Present(work[f]) /\ Present(base[f])
    /\ work[f].version = base[f].version
    /\ work[f].attempts = base[f].attempts + 1
Accepted(f) ==
    /\ work[f] = NoRequest
    /\ <<f, base[f].version>> \in taken
    /\ found[SourceOf[UrlOf[f]]] # {}
JobSide(f) ==
    IF f \in failed THEN Failed(f) ELSE work[f] = base[f] \/ Accepted(f)

NothingDone == job \in {"idle", "load"} => work = base /\ failed = {}

IInv ==
    /\ Types /\ NothingDone
    /\ \A f \in Files : JobSide(f)
    /\ NothingLost
    /\ QuarantineIsEarned

-----------------------------------------------------------------------------
(* Least and greatest elements. *)

LEMMA MinIn ==
  ASSUME NEW S \in SUBSET Nat, S # {}
  PROVE  \E x \in S : \A y \in S : x <= y
<1>. DEFINE R == {ss \in Nat \X Nat : ss[1] < ss[2]}
<1>1. IsWellFoundedOn(R, Nat) BY NatLessThanWellFounded DEF OpToRel
<1>2. ASSUME NEW x \in Nat, NEW y \in Nat, <<y, x>> \notin R PROVE x <= y
  BY <1>2
<1>. HIDE DEF R
<1>3. PICK x \in S : \A y \in S : <<y, x>> \notin R BY <1>1, WFMin
<1>. QED BY <1>2, <1>3

(* A finite set of numbers has a greatest one: the one with the fewest     *)
(* above it.                                                               *)
LEMMA MaxIn ==
  ASSUME NEW S \in SUBSET Nat, S # {}, IsFiniteSet(S)
  PROVE  \E x \in S : \A y \in S : y <= x
<1>. DEFINE Above(x) == {y \in S : y > x}
            Counts == {Cardinality(Above(x)) : x \in S}
<1>1. \A x \in S : IsFiniteSet(Above(x)) /\ Cardinality(Above(x)) \in Nat
  BY FS_Subset, FS_CardinalityType
<1>2. Counts \in SUBSET Nat /\ Counts # {}
  BY <1>1
<1>3. PICK c \in Counts : \A d \in Counts : c <= d
  <2>. HIDE DEF Counts
  <2>. QED BY <1>2, MinIn
<1>4. PICK x \in S : \A z \in S : Cardinality(Above(x)) <= Cardinality(Above(z))
  BY <1>3
<1>5. ASSUME NEW y \in S, y > x PROVE FALSE
  <2>0. x \in Nat /\ y \in Nat /\ S \subseteq Nat
    OBVIOUS
  <2>1. Above(y) \subseteq Above(x) /\ y \in Above(x) /\ y \notin Above(y)
    <3>1. \A z \in S : z > y => z > x
      BY <1>5, <2>0
    <3>2. ~(y > y)
      BY <2>0
    <3>. QED BY <1>5, <3>1, <3>2
  <2>2. Cardinality(Above(y)) <= Cardinality(Above(x)) /\ Cardinality(Above(y)) # Cardinality(Above(x))
    <3>. HIDE DEF Above
    <3>. QED BY <1>1, <2>1, FS_Subset
  <2>. QED BY <1>1, <1>4, <2>2
<1>. QED BY <1>5

LEMMA FirstIn ==
  ASSUME NEW S \in SUBSET Files, S # {}
  PROVE  FirstOf(S) \in S
<1>1. \E x \in S : \A y \in S : x <= y
  BY BridgeAssumption, MinIn
<1>. QED BY <1>1 DEF FirstOf

(* Whichever groups share its evidence directory, the record of a source   *)
(* with an accepted URL names requests: those of the last group.           *)
LEMMA RecordWritten ==
  ASSUME NEW batch \in SUBSET Files, NEW ok \in SUBSET {UrlOf[f] : f \in batch}, NEW u \in ok
  PROVE  Records(batch, ok)[SourceOf[u]] # {}
<1>. DEFINE Rivals == {w \in ok : SourceOf[w] = SourceOf[u]}
            First(w) == FirstOf(Group(batch, w))
            Firsts == {First(w) : w \in Rivals}
<1>1. \A w \in ok : Group(batch, w) # {} /\ Group(batch, w) \in SUBSET Files
  BY DEF Group
<1>2. \A w \in ok : First(w) \in Files
  BY <1>1, FirstIn
<1>3. Firsts \in SUBSET Files /\ Firsts # {}
  BY <1>2
<1>4. Firsts \in SUBSET Nat /\ IsFiniteSet(Firsts)
  BY <1>3, BridgeAssumption, FS_Subset
<1>5. PICK x \in Firsts : \A y \in Firsts : y <= x
  <2>. HIDE DEF Firsts
  <2>. QED BY <1>3, <1>4, MaxIn
<1>6. PICK w \in Rivals : x = First(w)
  OBVIOUS
<1>7. Wins(batch, ok, w)
  BY <1>5, <1>6 DEF Wins
<1>8. SourceOf[u] \in Sources
  BY BridgeAssumption
<1>9. Records(batch, ok)[SourceOf[u]] =
        UNION {Group(batch, v) : v \in {z \in ok : SourceOf[z] = SourceOf[u] /\ Wins(batch, ok, z)}}
  BY <1>8 DEF Records
<1>10. Group(batch, w) \subseteq Records(batch, ok)[SourceOf[u]]
  BY <1>6, <1>7, <1>9
<1>. QED BY <1>1, <1>6, <1>10

-----------------------------------------------------------------------------
(* What happens to one request. *)

LEMMA NoneSound == Sound(NoRequest) /\ ~Present(NoRequest)
  BY BridgeAssumption DEF Sound, NoRequest, Present

LEMMA FreshSound ==
  ASSUME NEW v \in Nat \ {0}
  PROVE  /\ Sound(Fresh(v)) /\ Present(Fresh(v)) /\ Fresh(v).version = v
         /\ Fresh(v).attempts = 0 /\ Fresh(v).state # "quarantined"
  BY BridgeAssumption DEF Sound, Fresh, Present

LEMMA AmendSound ==
  ASSUME NEW r, Sound(r), Present(r), NEW v \in Nat \ {0}
  PROVE  LET a == [r EXCEPT !.version = v] IN
           /\ Sound(a) /\ Present(a) /\ a.version = v
           /\ a.attempts = r.attempts /\ a.state = r.state
<1>. DEFINE a == [r EXCEPT !.version = v]
<1>1. a = [version |-> v, attempts |-> r.attempts, state |-> r.state, due |-> r.due]
  BY DEF Sound
<1>2. a.version = v /\ a.attempts = r.attempts /\ a.state = r.state /\ a.due = r.due
  BY <1>1
<1>. HIDE DEF a
<1>3. Sound(a) /\ Present(a)
  BY <1>1, <1>2 DEF Sound, Present
<1>. QED BY <1>2, <1>3 DEF a

LEMMA Fields ==
  ASSUME NEW e, NEW v, NEW n, NEW s, NEW d,
         e \in [version : {v}, attempts : {n}, state : {s}, due : {d}]
  PROVE  e = [version |-> v, attempts |-> n, state |-> s, due |-> d]
  OBVIOUS

LEMMA Remarked ==
  ASSUME NEW r, Sound(r), NEW n, NEW s, NEW d
  PROVE  [r EXCEPT !.attempts = n, !.state = s, !.due = d] =
         [version |-> r.version, attempts |-> n, state |-> s, due |-> d]
<1>1. r \in [version : {r.version}, attempts : {r.attempts}, state : {r.state}, due : {r.due}]
  BY DEF Sound
<1>. DEFINE e == [r EXCEPT !.attempts = n, !.state = s, !.due = d]
<1>2. e \in [version : {r.version}, attempts : {n}, state : {s}, due : {d}]
  BY <1>1
<1>. HIDE DEF e
<1>3. e = [version |-> r.version, attempts |-> n, state |-> s, due |-> d]
  BY <1>2, Fields
<1>. QED BY <1>3 DEF e

LEMMA RetrySound ==
  ASSUME NEW r, Sound(r), NEW now, Eligible(r, now)
  PROVE  LET m == MarkRetry(r, now) IN
           /\ Sound(m) /\ Present(m) /\ m.version = r.version
           /\ m.attempts = r.attempts + 1
<1>. DEFINE m == MarkRetry(r, now)
            s == IF r.attempts + 1 >= MaxRetry THEN "quarantined" ELSE "backoff"
            d == IF r.attempts + 1 >= MaxRetry THEN 0 ELSE now + Backoff(r.attempts + 1)
<1>1. m = [version |-> r.version, attempts |-> r.attempts + 1, state |-> s, due |-> d]
  BY Remarked DEF MarkRetry
<1>2. /\ m.version = r.version /\ m.attempts = r.attempts + 1
      /\ m.state = s /\ m.due = d
  BY <1>1
<1>3. r.attempts \in 0..MaxRetry /\ r.attempts # MaxRetry /\ r.version > 0 /\ r.version \in Nat
  BY DEF Sound, Eligible, Present
<1>4. MaxRetry \in Nat
  BY BridgeAssumption
<1>5. r.attempts + 1 \in 0..MaxRetry /\ (s = "quarantined" <=> r.attempts + 1 = MaxRetry)
  BY <1>3, <1>4
<1>. HIDE DEF m, s, d
<1>6. Sound(m) /\ Present(m)
  BY <1>1, <1>2, <1>3, <1>5 DEF Sound, Present
<1>. QED BY <1>2, <1>6 DEF m

LEMMA Updated ==
  ASSUME NEW q, q = [f \in Files |-> q[f]], NEW f \in Files, NEW r
  PROVE  [q EXCEPT ![f] = r] = [g \in Files |-> IF g = f THEN r ELSE q[g]]
  OBVIOUS

-----------------------------------------------------------------------------
(* The initial state. *)
LEMMA InitIInv == Init => IInv
<1> SUFFICES ASSUME Init PROVE IInv
  OBVIOUS
<1>1. /\ queue = [f \in Files |-> Fresh(1)] /\ base = queue /\ work = queue
      /\ job = "idle" /\ edits = 0 /\ failed = {}
      /\ latest = [f \in Files |-> 1] /\ failures = [f \in Files |-> 0]
  BY DEF Init
<1>2. /\ Sound(Fresh(1)) /\ Present(Fresh(1)) /\ Fresh(1).version = 1
      /\ Fresh(1).attempts = 0 /\ Fresh(1).state # "quarantined"
  BY FreshSound
<1>3. Types
  BY <1>1, <1>2 DEF Types, IsQueue
<1>4. NothingLost
  BY <1>1, <1>2 DEF NothingLost
<1>5. QuarantineIsEarned
  BY <1>1, <1>2, BridgeAssumption DEF QuarantineIsEarned
<1>6. NothingDone /\ \A f \in Files : JobSide(f)
  BY <1>1 DEF NothingDone, JobSide
<1>. QED BY <1>3, <1>4, <1>5, <1>6 DEF IInv

(* The end of a job: the clone is forgotten. *)
LEMMA Forgotten ==
  ASSUME EndJob, (IsQueue(queue) /\ edits \in Nat /\ latest \in [Files -> Nat]
                    /\ failures \in [Files -> Nat])',
         (NothingLost /\ QuarantineIsEarned)'
  PROVE  IInv'
<1>1. base' = queue' /\ work' = queue' /\ job' = "idle" /\ failed' = {}
  BY DEF EndJob
<1>2. Types'
  BY <1>1 DEF Types, IsQueue
<1>3. NothingDone' /\ \A f \in Files : JobSide(f)'
  BY <1>1 DEF NothingDone, JobSide
<1>. QED BY <1>2, <1>3 DEF IInv

(* Steps that publish nothing keep what is published. *)
LEMMA Unpublished ==
  ASSUME IInv, UNCHANGED published, UNCHANGED owner
  PROVE  /\ (IsQueue(queue) /\ edits \in Nat /\ latest \in [Files -> Nat]
                /\ failures \in [Files -> Nat])'
         /\ (NothingLost /\ QuarantineIsEarned)'
<1>1. UNCHANGED <<queue, evidence, failures, answered, edits, latest>>
  BY DEF published, owner
<1>2. (IsQueue(queue) /\ edits \in Nat /\ latest \in [Files -> Nat] /\ failures \in [Files -> Nat])'
  BY <1>1 DEF IInv, Types, IsQueue
<1>3. NothingLost'
  BY <1>1 DEF IInv, NothingLost
<1>4. QuarantineIsEarned'
  BY <1>1 DEF IInv, QuarantineIsEarned
<1>. QED BY <1>2, <1>3, <1>4

LEMMA CheckoutStep == IInv /\ Checkout => IInv'
<1> SUFFICES ASSUME IInv, Checkout PROVE IInv'
  OBVIOUS
<1>1. /\ job = "idle" /\ job' = "load" /\ base' = queue /\ work' = queue
      /\ UNCHANGED <<found, taken, failed>> /\ UNCHANGED published /\ UNCHANGED owner
  BY DEF Checkout
<1>2. /\ (IsQueue(queue) /\ edits \in Nat /\ latest \in [Files -> Nat]
             /\ failures \in [Files -> Nat])'
      /\ (NothingLost /\ QuarantineIsEarned)' /\ queue' = queue
  BY <1>1, Unpublished DEF published
<1>3. failed' = {}
  BY <1>1 DEF IInv, NothingDone
<1>4. Types'
  BY <1>1, <1>2 DEF Types, IsQueue
<1>5. NothingDone' /\ \A f \in Files : JobSide(f)'
  BY <1>1, <1>3 DEF NothingDone, JobSide
<1>. QED BY <1>2, <1>4, <1>5 DEF IInv

LEMMA ProcessStep == IInv /\ Process => IInv'
<1> SUFFICES ASSUME IInv, Process PROVE IInv'
  OBVIOUS
<1>. DEFINE batch == Batch(work, time)
<1>1. PICK ok \in SUBSET {UrlOf[f] : f \in batch} :
         /\ work' = [f \in Files |-> IF f \notin batch THEN work[f]
                                     ELSE IF UrlOf[f] \in ok THEN NoRequest
                                     ELSE MarkRetry(work[f], time)]
         /\ found' = Records(batch, ok)
         /\ taken' = {<<f, work[f].version>> : f \in {g \in batch : UrlOf[g] \in ok}}
         /\ failed' = {f \in batch : UrlOf[f] \notin ok}
  BY DEF Process
<1>2. /\ job = "load" /\ job' = "push" /\ base' = base
      /\ UNCHANGED published /\ UNCHANGED owner
  BY DEF Process
<1>3. work = base
  BY <1>2 DEF IInv, NothingDone
<1>4. batch \in SUBSET Files /\ \A f \in batch : Eligible(work[f], time)
  BY DEF Batch
<1>. HIDE DEF batch
<1>5. \A f \in Files : Sound(work[f])
  BY DEF IInv, Types, IsQueue
<1>6. ASSUME NEW f \in Files PROVE Sound(work'[f]) /\ JobSide(f)'
  <2>1. CASE f \notin batch
    <3>1. work'[f] = work[f] /\ f \notin failed'
      BY <1>1, <2>1
    <3>. QED BY <1>2, <1>3, <1>5, <3>1 DEF JobSide
  <2>2. CASE f \in batch /\ UrlOf[f] \in ok
    <3>1. work'[f] = NoRequest /\ f \notin failed' /\ <<f, base[f].version>> \in taken'
      BY <1>1, <1>3, <2>2
    <3>2. found'[SourceOf[UrlOf[f]]] # {}
      BY <1>1, <1>4, <2>2, RecordWritten
    <3>. QED BY <1>2, <3>1, <3>2, NoneSound DEF JobSide, Accepted
  <2>3. CASE f \in batch /\ UrlOf[f] \notin ok
    <3>1. work'[f] = MarkRetry(work[f], time) /\ f \in failed'
      BY <1>1, <2>3
    <3>2. Eligible(work[f], time) /\ Sound(work[f]) /\ base'[f] = work[f]
      BY <1>2, <1>3, <1>4, <1>5, <2>3
    <3>3. /\ Sound(work'[f]) /\ Present(work'[f]) /\ work'[f].version = work[f].version
          /\ work'[f].attempts = work[f].attempts + 1
      BY <3>1, <3>2, RetrySound
    <3>. QED BY <3>1, <3>2, <3>3 DEF JobSide, Failed, Eligible
  <2>. QED BY <2>1, <2>2, <2>3
<1>7. Types'
  <2>1. work' = [f \in Files |-> work'[f]]
    BY <1>1
  <2>2. IsQueue(work)' /\ IsQueue(base)'
    BY <1>2, <1>6, <2>1 DEF IsQueue, IInv, Types
  <2>. QED BY <1>2, <2>2, Unpublished DEF Types
<1>8. (NothingLost /\ QuarantineIsEarned)' /\ NothingDone'
  BY <1>2, Unpublished DEF NothingDone
<1>. QED BY <1>6, <1>7, <1>8 DEF IInv

(* Publication, when the queue is the one the commit is based on. *)
LEMMA Published ==
  ASSUME IInv, queue = base, Publish, UNCHANGED owner
  PROVE  /\ (IsQueue(queue) /\ edits \in Nat /\ latest \in [Files -> Nat]
                /\ failures \in [Files -> Nat])'
         /\ (NothingLost /\ QuarantineIsEarned)'
         /\ queue' = work
<1>1. /\ queue' = work /\ taken \subseteq answered' /\ answered \subseteq answered'
      /\ failures' = [f \in Files |-> IF f \in failed THEN failures[f] + 1 ELSE failures[f]]
      /\ edits' = edits /\ latest' = latest
  BY DEF Publish, owner
<1>2. \A s \in Sources : found[s] # {} \/ evidence[s] # {} => evidence'[s] # {}
  BY DEF Publish
<1>3. (IsQueue(queue) /\ edits \in Nat /\ latest \in [Files -> Nat] /\ failures \in [Files -> Nat])'
  BY <1>1 DEF IInv, Types, IsQueue
<1>4. ASSUME NEW f \in Files, latest[f] > 0
      PROVE  IF Present(work[f]) THEN work[f].version = latest[f]
             ELSE <<f, latest[f]>> \in answered' /\ evidence'[SourceOf[UrlOf[f]]] # {}
  <2>1. /\ JobSide(f) /\ SourceOf[UrlOf[f]] \in Sources /\ base[f] = queue[f]
        /\ IF Present(queue[f]) THEN queue[f].version = latest[f]
           ELSE <<f, latest[f]>> \in answered /\ evidence[SourceOf[UrlOf[f]]] # {}
    BY <1>4, BridgeAssumption DEF IInv, NothingLost
  <2>2. CASE work[f] = base[f]
    BY <1>1, <1>2, <2>1, <2>2
  <2>3. CASE f \in failed
    BY <2>1, <2>3 DEF JobSide, Failed
  <2>4. CASE Accepted(f)
    BY <1>1, <1>2, <2>1, <2>4, NoneSound DEF Accepted
  <2>. QED BY <2>1, <2>2, <2>3, <2>4 DEF JobSide
<1>5. NothingLost'
  BY <1>1, <1>4 DEF NothingLost
<1>6. ASSUME NEW f \in Files, Present(work[f])
      PROVE  /\ work[f].attempts = failures'[f]
             /\ work[f].state = "quarantined" <=> failures'[f] = MaxRetry
  <2>1. /\ JobSide(f) /\ Sound(work[f]) /\ base[f] = queue[f]
        /\ Present(queue[f]) => queue[f].attempts = failures[f]
    BY DEF IInv, QuarantineIsEarned, Types, IsQueue
  <2>2. work[f].attempts = failures'[f]
    <3>1. CASE f \in failed
      BY <1>1, <2>1, <3>1 DEF JobSide, Failed
    <3>2. CASE f \notin failed
      BY <1>1, <1>6, <2>1, <3>2, NoneSound DEF JobSide, Accepted
    <3>. QED BY <3>1, <3>2
  <2>. QED BY <1>6, <2>1, <2>2 DEF Sound
<1>7. QuarantineIsEarned'
  BY <1>1, <1>6 DEF QuarantineIsEarned
<1>. QED BY <1>1, <1>3, <1>5, <1>7

LEMMA PushSteps == IInv /\ (Push \/ PushUnanswered \/ PushRefused \/ JobLost) => IInv'
<1> SUFFICES ASSUME IInv, Push \/ PushUnanswered \/ PushRefused \/ JobLost PROVE IInv'
  OBVIOUS
<1>1. CASE Push
  BY <1>1, Published, Forgotten DEF Push
<1>2. CASE PushUnanswered
  <2>1. /\ queue = base /\ Publish /\ job' = "rebase" /\ base' = work /\ work' = work
        /\ failed' = {} /\ UNCHANGED owner
    BY <1>2 DEF PushUnanswered
  <2>2. /\ (IsQueue(queue) /\ edits \in Nat /\ latest \in [Files -> Nat]
               /\ failures \in [Files -> Nat])'
        /\ (NothingLost /\ QuarantineIsEarned)' /\ queue' = work
    BY <2>1, Published
  <2>3. Types'
    BY <2>1, <2>2 DEF Types, IsQueue
  <2>4. NothingDone' /\ \A f \in Files : JobSide(f)'
    BY <2>1 DEF NothingDone, JobSide
  <2>. QED BY <2>2, <2>3, <2>4 DEF IInv
<1>3. CASE PushRefused
  <2>1. /\ job' = "rebase" /\ UNCHANGED <<base, work, found, taken, failed>>
        /\ UNCHANGED published /\ UNCHANGED owner
    BY <1>3 DEF PushRefused, clone
  <2>2. /\ (IsQueue(queue) /\ edits \in Nat /\ latest \in [Files -> Nat]
               /\ failures \in [Files -> Nat])'
        /\ (NothingLost /\ QuarantineIsEarned)'
    BY <2>1, Unpublished
  <2>3. Types'
    BY <2>1, <2>2 DEF IInv, Types, IsQueue
  <2>4. ASSUME NEW f \in Files PROVE JobSide(f)'
    BY <2>1 DEF IInv, JobSide, Failed, Accepted
  <2>. QED BY <2>1, <2>2, <2>3, <2>4 DEF IInv, NothingDone
<1>4. CASE JobLost
  BY <1>4, Unpublished, Forgotten DEF JobLost
<1>. QED BY <1>1, <1>2, <1>3, <1>4

(* One request under a rebase: the job's side of it moves with the base. *)
LEMMA RebasedRequest ==
  ASSUME IInv, NEW f \in Files, ~Conflict(f), base'[f] = queue[f], work'[f] = Combined(f),
         UNCHANGED <<found, taken, failed>>
  PROVE  Sound(work'[f]) /\ JobSide(f)'
<1>1. /\ JobSide(f) /\ Sound(work[f]) /\ Sound(queue[f]) /\ Sound(base[f])
  BY DEF IInv, Types, IsQueue
<1>2. CASE ~Changed(f)
  <2>1. work'[f] = queue[f]
    BY <1>2 DEF Combined
  <2>2. f \notin failed
    BY <1>1, <1>2 DEF Changed, JobSide, Failed, Sound
  <2>. QED BY <1>1, <2>1, <2>2 DEF JobSide
<1>3. CASE Changed(f) /\ f \in failed
  <2>1. Failed(f)
    BY <1>1, <1>3 DEF JobSide
  <2>2. Present(queue[f]) /\ queue[f].attempts = base[f].attempts
    BY <1>3, <2>1 DEF Conflict, Failed
  <2>3. work'[f] = [work[f] EXCEPT !.version = queue[f].version]
    BY <1>3, <2>1, <2>2 DEF Combined, Failed
  <2>4. queue[f].version \in Nat \ {0}
    BY <1>1, <2>2 DEF Sound, Present
  <2>5. /\ Sound(work'[f]) /\ Present(work'[f]) /\ work'[f].version = queue[f].version
        /\ work'[f].attempts = work[f].attempts
    BY <1>1, <2>1, <2>3, <2>4, AmendSound DEF Failed
  <2>. QED BY <1>3, <2>1, <2>2, <2>5 DEF JobSide, Failed
<1>4. CASE Changed(f) /\ f \notin failed
  <2>1. Accepted(f) /\ ~Present(work[f])
    BY <1>1, <1>4, NoneSound DEF JobSide, Changed, Accepted
  <2>2. work'[f] = NoRequest
    BY <1>4, <2>1 DEF Combined, Accepted
  <2>3. queue[f] = base[f] \/ queue[f] = NoRequest
    BY <1>1, <1>4, <2>1 DEF Conflict, Sound
  <2>. QED BY <1>4, <2>1, <2>2, <2>3, NoneSound DEF JobSide, Accepted
<1>. QED BY <1>2, <1>3, <1>4

LEMMA RebaseStep == IInv /\ Rebase => IInv'
<1> SUFFICES ASSUME IInv, Rebase PROVE IInv'
  OBVIOUS
<1>1. UNCHANGED published /\ UNCHANGED owner
  BY DEF Rebase
<1>2. /\ (IsQueue(queue) /\ edits \in Nat /\ latest \in [Files -> Nat]
             /\ failures \in [Files -> Nat])'
      /\ (NothingLost /\ QuarantineIsEarned)' /\ queue' = queue
  BY <1>1, Unpublished DEF published
<1>3. CASE EndJob
  BY <1>2, <1>3, Forgotten
<1>4. CASE /\ \A f \in Files : ~Conflict(f)
           /\ base' = queue /\ work' = [f \in Files |-> Combined(f)]
           /\ job' = "push" /\ UNCHANGED <<found, taken, failed>>
  <2>1. ASSUME NEW f \in Files PROVE Sound(work'[f]) /\ JobSide(f)'
    BY <1>4, RebasedRequest
  <2>2. IsQueue(work)' /\ IsQueue(base)'
    BY <1>2, <1>4, <2>1 DEF IsQueue
  <2>3. Types' /\ NothingDone'
    BY <1>2, <1>4, <2>2 DEF Types, NothingDone
  <2>. QED BY <1>2, <2>1, <2>3 DEF IInv
<1>. QED BY <1>3, <1>4 DEF Rebase

(* The owner's edits. *)
LEMMA EditStep ==
  ASSUME IInv, NEW f \in Files, NEW r, Sound(r), Edit(f, r),
         failures' \in [Files -> Nat],
         \A g \in Files \ {f} : failures'[g] = failures[g],
         Present(r) => /\ r.attempts = failures'[f]
                       /\ r.state = "quarantined" <=> failures'[f] = MaxRetry
  PROVE  IInv'
<1>1. /\ edits' = edits + 1 /\ queue' = [queue EXCEPT ![f] = r]
      /\ latest' = [latest EXCEPT ![f] = r.version]
      /\ UNCHANGED <<evidence, job, base, work, found, taken, failed, answered>>
  BY DEF Edit, clone
<1>2. queue' = [g \in Files |-> IF g = f THEN r ELSE queue[g]]
  BY <1>1, Updated DEF IInv, Types, IsQueue
<1>3. latest' = [g \in Files |-> IF g = f THEN r.version ELSE latest[g]]
  BY <1>1 DEF IInv, Types
<1>4. Types'
  <2>1. IsQueue(queue)'
    BY <1>2 DEF IInv, Types, IsQueue
  <2>2. edits' \in Nat /\ latest' \in [Files -> Nat]
    BY <1>1, <1>3 DEF IInv, Types, Sound
  <2>3. IsQueue(base)' /\ IsQueue(work)'
    BY <1>1 DEF IInv, Types, IsQueue
  <2>. QED BY <1>1, <2>1, <2>2, <2>3 DEF IInv, Types
<1>5. ASSUME NEW g \in Files PROVE JobSide(g)'
  BY <1>1 DEF IInv, JobSide, Failed, Accepted
<1>6. NothingLost'
  BY <1>1, <1>2, <1>3 DEF IInv, NothingLost, Present
<1>7. QuarantineIsEarned'
  BY <1>2 DEF IInv, QuarantineIsEarned
<1>. QED BY <1>1, <1>4, <1>5, <1>6, <1>7 DEF IInv, NothingDone

LEMMA OwnerSteps ==
  ASSUME IInv, NEW f \in Files, Submit(f) \/ Amend(f) \/ Withdraw(f)
  PROVE  IInv'
<1>1. /\ edits + 2 \in Nat \ {0} /\ failures \in [Files -> Nat] /\ Sound(queue[f])
      /\ MaxRetry \in Nat \ {0}
  BY BridgeAssumption DEF IInv, Types, IsQueue
<1>2. CASE Submit(f)
  <2>1. Edit(f, Fresh(edits + 2)) /\ failures' = [failures EXCEPT ![f] = 0]
    BY <1>2 DEF Submit
  <2>2. /\ Sound(Fresh(edits + 2)) /\ Fresh(edits + 2).attempts = 0
        /\ Fresh(edits + 2).state # "quarantined"
    BY <1>1, FreshSound
  <2>. QED BY <1>1, <2>1, <2>2, EditStep
<1>3. CASE Amend(f)
  <2>1. /\ Present(queue[f]) /\ failures' = failures
        /\ Edit(f, [queue[f] EXCEPT !.version = edits + 2])
    BY <1>3 DEF Amend
  <2>2. LET a == [queue[f] EXCEPT !.version = edits + 2] IN
          Sound(a) /\ a.attempts = queue[f].attempts /\ a.state = queue[f].state
    BY <1>1, <2>1, AmendSound
  <2>. DEFINE r == [queue[f] EXCEPT !.version = edits + 2]
  <2>3. /\ Sound(r) /\ Edit(f, r) /\ r.attempts = failures'[f]
        /\ r.state = "quarantined" <=> failures'[f] = MaxRetry
    BY <2>1, <2>2 DEF IInv, QuarantineIsEarned
  <2>. HIDE DEF r
  <2>. QED BY <1>1, <2>1, <2>3, EditStep
<1>4. CASE Withdraw(f)
  <2>1. Edit(f, NoRequest) /\ failures' = [failures EXCEPT ![f] = 0]
    BY <1>4 DEF Withdraw
  <2>. QED BY <1>1, <2>1, NoneSound, EditStep
<1>. QED BY <1>2, <1>3, <1>4

LEMMA NextIInv == IInv /\ [Next]_vars => IInv'
<1> SUFFICES ASSUME IInv, [Next]_vars PROVE IInv'
  OBVIOUS
<1>1. CASE Tick \/ UNCHANGED vars
  <2>1. UNCHANGED <<queue, evidence, job, base, work, found, taken, failed, edits, latest,
                    failures, answered>>
    BY <1>1 DEF Tick, vars, published, clone, owner
  <2>2. Types'
    BY <2>1 DEF IInv, Types, IsQueue
  <2>3. ASSUME NEW f \in Files PROVE JobSide(f)'
    BY <2>1 DEF IInv, JobSide, Failed, Accepted
  <2>. QED BY <2>1, <2>2, <2>3 DEF IInv, NothingDone, NothingLost, QuarantineIsEarned
<1>2. CASE JobStep \/ PushUnanswered \/ JobLost
  BY <1>2, CheckoutStep, ProcessStep, PushSteps, RebaseStep DEF JobStep
<1>3. CASE \E f \in Files : Submit(f) \/ Amend(f) \/ Withdraw(f)
  BY <1>3, OwnerSteps
<1>. QED BY <1>1, <1>2, <1>3 DEF Next

(* Every request is in the queue in its owner's version, or evidence of    *)
(* that version is published (main 335-393, the push of the workflow).     *)
THEOREM NoRequestLost == Spec => []NothingLost
<1>1. IInv => NothingLost
  BY DEF IInv
<1>. QED BY <1>1, InitIInv, NextIInv, PTL DEF Spec

(* A request is quarantined exactly when MaxRetry of its failures have     *)
(* been published since it was submitted (mark_retry 243-265).             *)
THEOREM QuarantineEarned == Spec => []QuarantineIsEarned
<1>1. IInv => QuarantineIsEarned
  BY DEF IInv
<1>. QED BY <1>1, InitIInv, NextIInv, PTL DEF Spec
=============================================================================
