----------------------- MODULE ArchiveDownload_proofs -----------------------
(***************************************************************************)
(* For any number of processes, references, chunks, page tokens and faults *)
(* a download forgets nothing that its checkpoint names, one that has      *)
(* named every chunk verifies, and a snapshot for research holds exactly   *)
(* what an accepted report has looked at.  IInv is about the lock and the  *)
(* checkpoint, WInv about the walks along the chains, RInv about reports   *)
(* and OInv about saved objects and receipts; each relies on those before. *)
(***************************************************************************)
EXTENDS ArchiveDownload, TLAPS, FiniteSetTheorems, WellFoundedInduction

\* The steps a process takes under the lock.
Working == {"page", "save", "checkpoint", "chunk", "name", "release", "preserve", "publish"}

\* A record with the fields of Idle, whatever they hold.
IsRun(r) ==
    r \in [step : {r.step}, chain : {r.chain}, token : {r.token}, read : {r.read},
           copy : {r.copy}, body : {r.body}, receipts : {r.receipts}, report : {r.report}]
IsIndex(idx) ==
    idx = [pages |-> idx.pages, chunks |-> idx.chunks, receipts |-> idx.receipts]

\* What a process has when it works: the lock, the checkpoint as it is now, and a
\* chain and a request that the checkpoint does not name.
Locked(p) == run[p].step \in Working => lock = p
Read(p) == run[p].step \in {"save", "checkpoint", "name"} => run[p].copy = index
Pending(p) ==
    /\ run[p].step \in {"page", "save", "checkpoint"}
         => run[p].chain \in (References \cup Chunks) \ DOMAIN index.chunks
    /\ run[p].step \in {"chunk", "name"} => run[p].chain \in Chunks \ DOMAIN index.chunks
    /\ run[p].step \in {"save", "checkpoint"} => Here(p) \notin DOMAIN index.pages
Own(p) == IsRun(run[p]) /\ Locked(p) /\ Read(p) /\ Pending(p)

Checkpoint == IsIndex(index) /\ DOMAIN index.chunks \subseteq Chunks
IInv == /\ DOMAIN run = Procs /\ run = [p \in Procs |-> run[p]]
        /\ Checkpoint /\ \A p \in Procs : Own(p)

-----------------------------------------------------------------------------
(* The chains in their order.                                                 *)

LEMMA Smallest ==
  ASSUME NEW S \in SUBSET Nat, S # {}
  PROVE  \E z \in S : \A y \in S : z =< y
<1>. DEFINE R == {ss \in Nat \X Nat : ss[1] < ss[2]}
<1>1. IsWellFoundedOn(R, Nat) BY NatLessThanWellFounded DEF OpToRel
<1>2. ASSUME NEW x \in Nat, NEW y \in Nat, <<y, x>> \notin R PROVE x =< y BY <1>2
<1>. HIDE DEF R
<1>3. PICK x \in S : \A y \in S : <<y, x>> \notin R BY <1>1, WFMin
<1>. QED BY <1>2, <1>3

LEMMA MinIn ==
  ASSUME NEW S \in SUBSET Nat, S # {}
  PROVE  Min(S) \in S
  BY Smallest DEF Min

LEMMA Largest ==
  ASSUME NEW S \in SUBSET Nat, S # {}, IsFiniteSet(S)
  PROVE  \E z \in S : \A y \in S : y =< z
<1>. DEFINE Above(x) == {y \in S : x < y}
            Sizes == {Cardinality(Above(x)) : x \in S}
<1>1. \A x \in S : IsFiniteSet(Above(x)) /\ Cardinality(Above(x)) \in Nat
  BY FS_Subset, FS_CardinalityType
<1>2. Sizes \in SUBSET Nat /\ Sizes # {} BY <1>1
<1>3. PICK n \in Sizes : \A k \in Sizes : n =< k
  <2>. HIDE DEF Sizes
  <2>. QED BY <1>2, Smallest
<1>4. PICK x \in S : n = Cardinality(Above(x)) BY <1>3
<1>5. ASSUME NEW y \in S, x < y PROVE FALSE
  <2>1. Above(y) \subseteq Above(x) /\ Above(y) # Above(x)
    <3>1. y \in Above(x) /\ y \notin Above(y) BY <1>5
    <3>2. \A z \in S : y < z => x < z BY <1>5
    <3>. QED BY <3>1, <3>2
  <2>. HIDE DEF Above
  <2>2. Cardinality(Above(y)) < Cardinality(Above(x)) BY <1>1, <2>1, FS_Subset
  <2>. USE DEF Above
  <2>3. n =< Cardinality(Above(y)) BY <1>3
  <2>. QED BY <1>1, <1>4, <2>2, <2>3
<1>. QED BY <1>5

LEMMA FirstReference == Min(References) \in References \ Chunks
<1>1. References \in SUBSET Nat /\ References # {} BY ArchiveAssumption
<1>2. Min(References) \in References BY <1>1, MinIn
<1>3. \A r \in References, c \in Chunks : r < c /\ r \in Nat /\ c \in Nat BY ArchiveAssumption
<1>4. Min(References) \notin Chunks BY <1>2, <1>3
<1>. QED BY <1>2, <1>4

\* The next chain is one that the checkpoint does not name.
LEMMA NextIsPending ==
  ASSUME NEW c, NEW idx, NEW r, IsRun(r)
  PROVE  LET n == NextChain(c, idx, r) IN
           /\ IsRun(n) /\ n.step \in {"page", "release"}
           /\ n.step = "page" => n.chain \in (References \cup Chunks) \ DOMAIN idx.chunks
<1>1. CASE Following(c, idx) = {} BY <1>1 DEF NextChain, IsRun
<1>2. CASE Following(c, idx) # {}
  <2>1. Following(c, idx) \in SUBSET Nat BY ArchiveAssumption DEF Following
  <2>2. Min(Following(c, idx)) \in Following(c, idx) BY <1>2, <2>1, MinIn
  <2>3. Min(Following(c, idx)) \in (References \cup Chunks) \ DOMAIN idx.chunks
    BY <2>2 DEF Following
  <2>. QED BY <1>2, <2>3 DEF NextChain, IsRun
<1>. QED BY <1>1, <1>2

LEMMA TurnIsPending ==
  ASSUME NEW r, NEW body, IsRun(r),
         r.chain \in (References \cup Chunks) \ DOMAIN index.chunks
  PROVE  LET n == Turned(r, body) IN
           /\ IsRun(n) /\ n.step \in {"page", "chunk", "release"}
           /\ n.step = "page" => n.chain \in (References \cup Chunks) \ DOMAIN index.chunks
           /\ n.step = "chunk" => n.chain \in Chunks \ DOMAIN index.chunks
<1>. DEFINE s == Append(r.read, body)
            q == [r EXCEPT !.read = s]
<1>1. CASE body.next = 0 /\ r.chain \in References
  <2>1. IsRun(q) BY DEF IsRun
  <2>2. Turned(r, body) = NextChain(r.chain, index, q) BY <1>1 DEF Turned
  <2>. QED BY <2>1, <2>2, NextIsPending
<1>2. CASE ~(body.next = 0 /\ r.chain \in References)
  <2>1. \/ body.next = 0 /\ Turned(r, body) = [r EXCEPT !.read = s, !.step = "chunk"]
        \/ Turned(r, body) = [r EXCEPT !.step = "release"]
        \/ Turned(r, body) = [r EXCEPT !.read = s, !.token = body.next, !.step = "page"]
    BY <1>2 DEF Turned
  <2>2. body.next = 0 => r.chain \in Chunks BY <1>2
  <2>. QED BY <2>1, <2>2 DEF IsRun
<1>. QED BY <1>1, <1>2

-----------------------------------------------------------------------------
(* What a step leaves to the others. *)

LEMMA NewRun ==
  ASSUME IInv, NEW p \in Procs, NEW r, Set(p, r)
  PROVE  /\ DOMAIN run' = Procs /\ run' = [q \in Procs |-> run'[q]] /\ run'[p] = r
         /\ \A q \in Procs : q # p => run'[q] = run[q]
  BY DEF IInv, Set

LEMMA StepKeeps ==
  ASSUME IInv, NEW p \in Procs, NEW r, Set(p, r), Checkpoint', Own(p)',
         lock = p \/ lock \notin Procs \/ (lock' = lock /\ index' = index)
  PROVE  IInv'
<1>1. ASSUME NEW q \in Procs, q # p PROVE Own(q)'
  <2>1. Own(q) /\ run'[q] = run[q] BY <1>1, NewRun DEF IInv
  <2>2. CASE run[q].step \in Working
    <3>1. lock = q BY <2>1, <2>2 DEF Own, Locked
    <3>2. lock' = lock /\ index' = index BY <1>1, <3>1
    <3>. QED BY <2>1, <3>2 DEF Own, Locked, Read, Pending, Here, Page
  <2>3. CASE run[q].step \notin Working
    BY <2>1, <2>3 DEF Own, Locked, Read, Pending, Working
  <2>. QED BY <2>2, <2>3
<1>. QED BY <1>1, NewRun DEF IInv

\* A process that works no more, or has never begun to.
LEMMA RestKeeps ==
  ASSUME IInv, NEW p \in Procs, NEW r, IsRun(r), r.step \notin Working, Set(p, r),
         index' = index, lock = p \/ lock' = lock
  PROVE  IInv'
<1>1. run'[p] = r BY NewRun
<1>2. Own(p)' BY <1>1 DEF Own, Locked, Read, Pending, Working
<1>3. Checkpoint' BY DEF IInv, Checkpoint
<1>. QED BY <1>2, <1>3, StepKeeps

\* A process that works on with the same checkpoint.
LEMMA WorkKeeps ==
  ASSUME IInv, NEW p \in Procs, NEW r, IsRun(r), Set(p, r),
         index' = index, lock = p \/ lock \notin Procs, lock' = p,
         r.step \in {"page", "save", "checkpoint"}
           => r.chain \in (References \cup Chunks) \ DOMAIN index.chunks,
         r.step \in {"chunk", "name"} => r.chain \in Chunks \ DOMAIN index.chunks,
         r.step \in {"save", "checkpoint", "name"} => r.copy = index,
         r.step \in {"save", "checkpoint"} => Page(r.chain, r.token) \notin DOMAIN index.pages
  PROVE  IInv'
<1>1. run'[p] = r BY NewRun
<1>2. Own(p)' BY <1>1 DEF Own, Locked, Read, Pending, Here
<1>3. Checkpoint' BY DEF IInv, Checkpoint
<1>. QED BY <1>2, <1>3, StepKeeps

LEMMA IdleIsRun == IsRun(Idle) /\ Idle.step = "idle"
  BY DEF IsRun, Idle

-----------------------------------------------------------------------------
(* Every step keeps the invariant. *)

LEMMA InitInv == Init => IInv
<1>. SUFFICES ASSUME Init PROVE IInv OBVIOUS
<1>1. \A p \in Procs : run[p] = Idle BY DEF Init
<1>2. ASSUME NEW p \in Procs PROVE Own(p)
  BY <1>1, IdleIsRun DEF Own, Locked, Read, Pending, Working
<1>3. Checkpoint BY DEF Init, Checkpoint, IsIndex, NoIndex
<1>. QED BY <1>2, <1>3 DEF Init, IInv

LEMMA DownloadKeeps ==
  ASSUME IInv, NEW p \in Procs, Download(p)
  PROVE  IInv'
<1>. DEFINE r == [Idle EXCEPT !.step = "page", !.chain = Min(References)]
<1>1. IsRun(r) /\ r.step = "page" /\ r.chain = Min(References) BY DEF IsRun, Idle
<1>2. r.chain \in (References \cup Chunks) \ DOMAIN index.chunks
  BY <1>1, FirstReference DEF IInv, Checkpoint
<1>3. Set(p, r) /\ index' = index /\ lock \notin Procs /\ lock' = p
  BY ArchiveAssumption DEF Download, LockFree
<1>. HIDE DEF r
<1>. QED BY <1>1, <1>2, <1>3, WorkKeeps

\* A page that is there, or that has been named, is passed.
LEMMA TurnKeeps ==
  ASSUME IInv, NEW p \in Procs, NEW body, run[p].step = "page", Set(p, Turned(run[p], body)),
         index' = index, lock' = lock
  PROVE  IInv'
<1>. DEFINE n == Turned(run[p], body)
<1>1. Own(p) BY DEF IInv
<1>2. /\ IsRun(run[p]) /\ lock = p
      /\ run[p].chain \in (References \cup Chunks) \ DOMAIN index.chunks
  BY <1>1 DEF Own, Locked, Pending, Working
<1>3. /\ IsRun(n) /\ n.step \in {"page", "chunk", "release"}
      /\ n.step = "page" => n.chain \in (References \cup Chunks) \ DOMAIN index.chunks
      /\ n.step = "chunk" => n.chain \in Chunks \ DOMAIN index.chunks
  BY <1>2, TurnIsPending
<1>. HIDE DEF n
<1>4. Set(p, n) /\ lock' = p BY <1>2 DEF n
<1>. QED BY <1>2, <1>3, <1>4, WorkKeeps

\* A step that ends the work: the lock is released next.
LEMMA StopKeeps ==
  ASSUME IInv, NEW p \in Procs, run[p].step \in Working,
         Set(p, [run[p] EXCEPT !.step = "release"]), index' = index, lock' = lock
  PROVE  IInv'
<1>. DEFINE r == [run[p] EXCEPT !.step = "release"]
<1>1. IsRun(run[p]) /\ lock = p BY DEF IInv, Own, Locked
<1>2. IsRun(r) /\ r.step = "release" BY <1>1 DEF IsRun
<1>. HIDE DEF r
<1>3. Set(p, r) /\ lock' = p BY <1>1 DEF r
<1>. QED BY <1>1, <1>2, <1>3, WorkKeeps

LEMMA CachedKeeps ==
  ASSUME IInv, NEW p \in Procs, Cached(p)
  PROVE  IInv'
<1>1. run[p].step = "page" /\ index' = index /\ lock' = lock BY DEF Cached, At
<1>2. CASE Set(p, Turned(run[p], index.pages[Here(p)])) BY <1>1, <1>2, TurnKeeps
<1>3. CASE Set(p, [run[p] EXCEPT !.step = "release"])
  BY <1>1, <1>3, StopKeeps DEF Working
<1>. QED BY <1>2, <1>3 DEF Cached

LEMMA AnswerKeeps ==
  ASSUME IInv, NEW p \in Procs, Answer(p)
  PROVE  IInv'
<1>1. /\ run[p].step = "page" /\ index' = index /\ lock' = lock
      /\ Here(p) \notin DOMAIN index.pages
  BY DEF Answer, At
<1>2. Own(p) BY DEF IInv
<1>3. /\ IsRun(run[p]) /\ lock = p
      /\ run[p].chain \in (References \cup Chunks) \ DOMAIN index.chunks
  BY <1>1, <1>2 DEF Own, Locked, Pending, Working
<1>4. \E body, receipts : \E next \in {"save", "checkpoint"} :
        Set(p, [run[p] EXCEPT !.copy = index, !.body = body, !.receipts = receipts,
                              !.step = next])
  <2>1. PICK body \in Bodies \cup {NoBody}, retried \in BOOLEAN :
          Set(p, [run[p] EXCEPT !.copy = index, !.body = body,
                    !.receipts = {Receipt(Here(p), body)}
                       \cup (IF retried THEN {Receipt(Here(p), NoBody)} ELSE {}),
                    !.step = IF body.grade \in {"clean", "defective"}
                               THEN "save" ELSE "checkpoint"])
    BY DEF Answer
  <2>. QED BY <2>1
<1>5. PICK body, receipts : \E next \in {"save", "checkpoint"} :
        Set(p, [run[p] EXCEPT !.copy = index, !.body = body, !.receipts = receipts,
                              !.step = next])
  BY <1>4
<1>6. PICK next \in {"save", "checkpoint"} :
        Set(p, [run[p] EXCEPT !.copy = index, !.body = body, !.receipts = receipts,
                              !.step = next])
  BY <1>5
<1>. DEFINE r == [run[p] EXCEPT !.copy = index, !.body = body, !.receipts = receipts,
                                !.step = next]
<1>7. /\ IsRun(r) /\ r.step = next /\ r.copy = index
      /\ r.chain = run[p].chain /\ r.token = run[p].token
  BY <1>3 DEF IsRun
<1>. HIDE DEF r
<1>8. Set(p, r) /\ lock' = p BY <1>1, <1>3, <1>6 DEF r
<1>9. Page(r.chain, r.token) \notin DOMAIN index.pages BY <1>1, <1>7 DEF Here
<1>. QED BY <1>1, <1>3, <1>7, <1>8, <1>9, WorkKeeps

LEMMA SavePageKeeps ==
  ASSUME IInv, NEW p \in Procs, SavePage(p)
  PROVE  IInv'
<1>1. run[p].step = "save" /\ index' = index /\ lock' = lock BY DEF SavePage, At
<1>2. Own(p) BY DEF IInv
<1>3. /\ IsRun(run[p]) /\ lock = p /\ run[p].copy = index
      /\ run[p].chain \in (References \cup Chunks) \ DOMAIN index.chunks
      /\ Here(p) \notin DOMAIN index.pages
  BY <1>1, <1>2 DEF Own, Locked, Read, Pending, Working
<1>. DEFINE r == [run[p] EXCEPT !.step = "checkpoint"]
<1>4. /\ IsRun(r) /\ r.step = "checkpoint" /\ r.copy = index
      /\ r.chain = run[p].chain /\ r.token = run[p].token
  BY <1>3 DEF IsRun
<1>5. Set(p, r) BY DEF SavePage
<1>. HIDE DEF r
<1>6. Page(r.chain, r.token) \notin DOMAIN index.pages BY <1>3, <1>4 DEF Here
<1>. QED BY <1>1, <1>3, <1>4, <1>5, <1>6, WorkKeeps

\* Whoever writes the checkpoint has read it as it is.
LEMMA CheckpointWritten ==
  ASSUME IInv, NEW p \in Procs, CheckpointPage(p)
  PROVE  /\ index' = [pages |-> Named(run[p], Here(p)), chunks |-> index.chunks,
                      receipts |-> index.receipts \cup run[p].receipts]
         /\ lock = p /\ IsRun(run[p]) /\ run[p].copy = index
         /\ run[p].chain \in (References \cup Chunks) \ DOMAIN index.chunks
         /\ Here(p) \notin DOMAIN index.pages
<1>1. Own(p) /\ run[p].step = "checkpoint" BY DEF IInv, CheckpointPage, At
<1>2. /\ lock = p /\ IsRun(run[p]) /\ run[p].copy = index
      /\ run[p].chain \in (References \cup Chunks) \ DOMAIN index.chunks
      /\ Here(p) \notin DOMAIN index.pages
  BY <1>1 DEF Own, Locked, Read, Pending, Working
<1>3. index' = [index EXCEPT !.pages = Named(run[p], Here(p)),
                             !.receipts = @ \cup run[p].receipts]
  BY <1>2 DEF CheckpointPage
<1>4. IsIndex(index) BY DEF IInv, Checkpoint
<1>. QED BY <1>2, <1>3, <1>4 DEF IsIndex

LEMMA CheckpointPageKeeps ==
  ASSUME IInv, NEW p \in Procs, CheckpointPage(p)
  PROVE  IInv'
<1>. DEFINE r == [run[p] EXCEPT !.receipts = {}, !.copy = NoIndex, !.body = NoBody]
            n == Turned(r, run[p].body)
<1>1. /\ index'.chunks = index.chunks /\ IsIndex(index')
      /\ lock = p /\ lock' = lock /\ IsRun(run[p])
      /\ run[p].chain \in (References \cup Chunks) \ DOMAIN index.chunks
  BY CheckpointWritten DEF IsIndex, CheckpointPage
<1>2. Checkpoint' BY <1>1 DEF IInv, Checkpoint
<1>3. IsRun(r) /\ r.chain = run[p].chain BY <1>1 DEF IsRun
<1>4. CASE Set(p, n)
  <2>. HIDE DEF r
  <2>1. /\ IsRun(n) /\ n.step \in {"page", "chunk", "release"}
        /\ n.step = "page" => n.chain \in (References \cup Chunks) \ DOMAIN index.chunks
        /\ n.step = "chunk" => n.chain \in Chunks \ DOMAIN index.chunks
    BY <1>1, <1>3, TurnIsPending
  <2>. HIDE DEF n
  <2>2. run'[p] = n BY <1>4, NewRun
  <2>3. Own(p)' BY <1>1, <2>1, <2>2 DEF Own, Locked, Read, Pending
  <2>. QED BY <1>1, <1>2, <1>4, <2>3, StepKeeps
<1>5. CASE Set(p, [run[p] EXCEPT !.step = "release"])
  <2>. DEFINE q == [run[p] EXCEPT !.step = "release"]
  <2>1. IsRun(q) /\ q.step = "release" BY <1>1 DEF IsRun
  <2>2. run'[p] = q BY <1>5, NewRun
  <2>. HIDE DEF q
  <2>3. Own(p)' BY <1>1, <2>1, <2>2 DEF Own, Locked, Read, Pending
  <2>. QED BY <1>1, <1>2, <1>5, <2>3, StepKeeps
<1>. QED BY <1>4, <1>5 DEF CheckpointPage

LEMMA SaveChunkKeeps ==
  ASSUME IInv, NEW p \in Procs, SaveChunk(p)
  PROVE  IInv'
<1>1. run[p].step = "chunk" /\ index' = index /\ lock' = lock BY DEF SaveChunk, At
<1>2. Own(p) BY DEF IInv
<1>3. IsRun(run[p]) /\ lock = p /\ run[p].chain \in Chunks \ DOMAIN index.chunks
  BY <1>1, <1>2 DEF Own, Locked, Pending, Working
<1>. DEFINE r == [run[p] EXCEPT !.step = "name", !.copy = index]
<1>4. IsRun(r) /\ r.step = "name" /\ r.copy = index /\ r.chain = run[p].chain
  BY <1>3 DEF IsRun
<1>5. Set(p, r) BY DEF SaveChunk
<1>. HIDE DEF r
<1>. QED BY <1>1, <1>3, <1>4, <1>5, WorkKeeps

LEMMA ChunkNamed ==
  ASSUME IInv, NEW p \in Procs, NameChunk(p)
  PROVE  /\ index' = [pages |-> index.pages, receipts |-> index.receipts,
                      chunks |-> [c \in DOMAIN index.chunks \cup {run[p].chain} |->
                                    IF c = run[p].chain THEN run[p].read
                                    ELSE index.chunks[c]]]
         /\ lock = p /\ IsRun(run[p]) /\ run[p].chain \in Chunks \ DOMAIN index.chunks
<1>1. Own(p) /\ run[p].step = "name" BY DEF IInv, NameChunk, At
<1>2. /\ lock = p /\ IsRun(run[p]) /\ run[p].copy = index
      /\ run[p].chain \in Chunks \ DOMAIN index.chunks
  BY <1>1 DEF Own, Locked, Read, Pending, Working
<1>3. index' = [index EXCEPT !.chunks = [c \in DOMAIN index.chunks \cup {run[p].chain} |->
                                    IF c = run[p].chain THEN run[p].read
                                    ELSE index.chunks[c]]]
  BY <1>2 DEF NameChunk
<1>4. IsIndex(index) BY DEF IInv, Checkpoint
<1>. QED BY <1>2, <1>3, <1>4 DEF IsIndex

LEMMA NameChunkKeeps ==
  ASSUME IInv, NEW p \in Procs, NameChunk(p)
  PROVE  IInv'
<1>1. /\ DOMAIN index'.chunks = DOMAIN index.chunks \cup {run[p].chain} /\ IsIndex(index')
      /\ lock = p /\ lock' = lock /\ IsRun(run[p])
      /\ run[p].chain \in Chunks \ DOMAIN index.chunks
  BY ChunkNamed DEF IsIndex, NameChunk
<1>2. Checkpoint' BY <1>1 DEF IInv, Checkpoint
<1>3. PICK n : /\ Set(p, n) /\ IsRun(n) /\ n.step \in {"page", "release"}
               /\ n.step = "page" => n.chain \in (References \cup Chunks) \ DOMAIN index'.chunks
  <2>. DEFINE r == [run[p] EXCEPT !.copy = NoIndex]
              q == [run[p] EXCEPT !.step = "release"]
  <2>1. IsRun(r) /\ IsRun(q) /\ q.step = "release" BY <1>1 DEF IsRun
  <2>2. Set(p, NextChain(run[p].chain, index', r)) \/ Set(p, q) BY DEF NameChunk
  <2>. HIDE DEF r, q
  <2>3. CASE Set(p, q) BY <2>1, <2>3
  <2>4. CASE Set(p, NextChain(run[p].chain, index', r)) BY <2>1, <2>4, NextIsPending
  <2>. QED BY <2>2, <2>3, <2>4
<1>4. run'[p] = n BY <1>3, NewRun
<1>5. Own(p)' BY <1>1, <1>3, <1>4 DEF Own, Locked, Read, Pending
<1>. QED BY <1>1, <1>2, <1>3, <1>5, StepKeeps

LEMMA AuditKeeps ==
  ASSUME IInv, NEW p \in Procs, AuditReferences(p) \/ AuditChunks(p) \/ Judge(p)
  PROVE  IInv'
<1>1. index' = index /\ lock' = lock BY DEF AuditReferences, AuditChunks, Judge
<1>2. IsRun(run[p]) BY DEF IInv, Own
<1>3. CASE AuditReferences(p)
  <2>. DEFINE pages == Restrict(index.pages, PagesOf(index, References))
              r == [Idle EXCEPT !.step = "audit", !.report.pages = pages]
  <2>1. IsRun(r) /\ r.step = "audit" BY DEF IsRun, Idle
  <2>2. Set(p, r) BY <1>3 DEF AuditReferences
  <2>. HIDE DEF r
  <2>. QED BY <1>1, <2>1, <2>2, RestKeeps DEF Working
<1>4. CASE AuditChunks(p)
  <2>. DEFINE r == [run[p] EXCEPT !.step = "judge", !.report.chunks = index.chunks]
  <2>1. IsRun(r) /\ r.step = "judge" BY <1>2 DEF IsRun
  <2>2. Set(p, r) BY <1>4 DEF AuditChunks
  <2>. HIDE DEF r
  <2>. QED BY <1>1, <2>1, <2>2, RestKeeps DEF Working
<1>5. CASE Judge(p)
  <2>. DEFINE yes == Accepted(run[p].report, index)
              r == [run[p] EXCEPT !.step = "freeze", !.report.accepted = yes]
  <2>1. IsRun(r) /\ r.step = "freeze" BY <1>2 DEF IsRun
  <2>2. Set(p, r) \/ Set(p, Idle) BY <1>5 DEF Judge
  <2>. HIDE DEF r
  <2>. QED BY <1>1, <2>1, <2>2, IdleIsRun, RestKeeps DEF Working
<1>. QED BY <1>3, <1>4, <1>5

LEMMA FreezeKeeps ==
  ASSUME IInv, NEW p \in Procs, Freeze(p)
  PROVE  IInv'
<1>1. IsRun(run[p]) BY DEF IInv, Own
<1>2. index' = index /\ lock \notin Procs /\ lock' = p
  BY ArchiveAssumption DEF Freeze, LockFree
<1>3. \E next \in {"preserve", "publish"} :
        Set(p, [run[p] EXCEPT !.copy = index, !.step = next])
  BY DEF Freeze
<1>4. PICK next \in {"preserve", "publish"} :
        Set(p, [run[p] EXCEPT !.copy = index, !.step = next])
  BY <1>3
<1>. DEFINE r == [run[p] EXCEPT !.copy = index, !.step = next]
<1>5. IsRun(r) /\ r.step = next BY <1>1 DEF IsRun
<1>6. Set(p, r) BY <1>4
<1>. HIDE DEF r
<1>. QED BY <1>2, <1>5, <1>6, WorkKeeps

LEMMA PublishKeeps ==
  ASSUME IInv, NEW p \in Procs, Publish(p)
  PROVE  IInv'
<1>1. /\ run[p].step \in Working /\ Set(p, [run[p] EXCEPT !.step = "release"])
      /\ index' = index /\ lock' = lock
  BY DEF Publish, Working
<1>. QED BY <1>1, StopKeeps

LEMMA EndKeeps ==
  ASSUME IInv, NEW p \in Procs, Release(p) \/ FreezeRefused(p) \/ Kill(p)
  PROVE  IInv'
<1>1. Set(p, Idle) /\ index' = index BY DEF Release, FreezeRefused, Kill
<1>2. lock = p \/ lock' = lock
  <2>1. CASE Release(p)
    BY <2>1 DEF Release, At, IInv, Own, Locked, Working
  <2>2. CASE ~Release(p) BY <2>2 DEF FreezeRefused, Kill
  <2>. QED BY <2>1, <2>2
<1>. QED BY <1>1, <1>2, IdleIsRun, RestKeeps DEF Working

LEMMA NextKeeps == IInv /\ [Next]_vars => IInv'
<1>. SUFFICES ASSUME IInv, [Next]_vars PROVE IInv' OBVIOUS
<1>1. CASE UNCHANGED vars
  <2>1. UNCHANGED <<index, lock, run>> BY <1>1 DEF vars
  <2>2. Checkpoint' BY <2>1 DEF IInv, Checkpoint
  <2>3. \A p \in Procs : Own(p)'
    BY <2>1 DEF IInv, Own, Locked, Read, Pending, Here
  <2>. QED BY <2>1, <2>2, <2>3 DEF IInv
<1>2. CASE Next
  BY <1>2, DownloadKeeps, CachedKeeps, AnswerKeeps, SavePageKeeps, CheckpointPageKeeps,
     SaveChunkKeeps, NameChunkKeeps, AuditKeeps, FreezeKeeps, PublishKeeps, EndKeeps
  DEF Next
<1>. QED BY <1>1, <1>2

LEMMA Invariance == Spec => []IInv
  BY InitInv, NextKeeps, PTL DEF Spec

-----------------------------------------------------------------------------
(* Nothing is forgotten. *)

Kept ==
    /\ \A q \in DOMAIN index.pages :
         q \in DOMAIN index'.pages /\ index'.pages[q] = index.pages[q]
    /\ \A c \in DOMAIN index.chunks :
         c \in DOMAIN index'.chunks /\ index'.chunks[c] = index.chunks[c]
    /\ index.receipts \subseteq index'.receipts

LEMMA StepForgetsNothing == IInv /\ [Next]_vars => [Kept]_vars
<1>. SUFFICES ASSUME IInv, Next PROVE Kept OBVIOUS
<1>1. CASE index' = index BY <1>1 DEF Kept
<1>2. ASSUME NEW p \in Procs, CheckpointPage(p) PROVE Kept
  <2>1. /\ index'.pages = Named(run[p], Here(p)) /\ index'.chunks = index.chunks
        /\ index'.receipts = index.receipts \cup run[p].receipts
        /\ run[p].copy = index /\ Here(p) \notin DOMAIN index.pages
    BY <1>2, CheckpointWritten
  <2>2. \A q \in DOMAIN index.pages :
          q \in DOMAIN index'.pages /\ index'.pages[q] = index.pages[q]
    BY <2>1 DEF Named
  <2>. QED BY <2>1, <2>2 DEF Kept
<1>3. ASSUME NEW p \in Procs, NameChunk(p) PROVE Kept
  <2>1. /\ index'.pages = index.pages /\ index'.receipts = index.receipts
        /\ index'.chunks = [c \in DOMAIN index.chunks \cup {run[p].chain} |->
                              IF c = run[p].chain THEN run[p].read ELSE index.chunks[c]]
        /\ run[p].chain \notin DOMAIN index.chunks
    BY <1>3, ChunkNamed
  <2>. QED BY <2>1 DEF Kept
<1>. QED BY <1>1, <1>2, <1>3
     DEF Next, Download, Cached, Answer, SavePage, SaveChunk, Release, AuditReferences,
         AuditChunks, Judge, Freeze, FreezeRefused, Publish, Kill

\* A completed page, chunk or receipt is never lost and never replaced, however
\* many downloads, audits and freezes work on the archive and die
\* (Downloader.page, _run and Archive.writer).
THEOREM ForgetsNothing == Spec => NothingForgotten
<1>1. Spec => [][Kept]_vars BY Invariance, StepForgetsNothing, PTL DEF Spec
<1>. QED BY <1>1 DEF NothingForgotten, Kept

-----------------------------------------------------------------------------
(* The walk along the pages of a chain. *)

\* The token of the i-th page of a walk that has read s.
Tok(s, i) == IF i = 1 THEN 0 ELSE s[i - 1].next

\* The checkpoint names the first pages of a chain, and s is what they hold; a
\* walk is open as long as it has not come to a page without a next one.
IsPath(idx, c, s) ==
    /\ s \in Seq(Bodies)
    /\ \A i \in 1 .. Len(s) :
         /\ Page(c, Tok(s, i)) \in DOMAIN idx.pages
         /\ idx.pages[Page(c, Tok(s, i))] = s[i]
         /\ i < Len(s) => s[i].next # 0
IsOpen(s) == s # <<>> => Last(s).next # 0
Covers(idx, c, s) ==
    \A q \in DOMAIN idx.pages : q.chain = c => \E i \in 1 .. Len(s) : q.token = Tok(s, i)
Grown(idx, idx2) ==
    /\ \A q \in DOMAIN idx.pages : q \in DOMAIN idx2.pages /\ idx2.pages[q] = idx.pages[q]
    /\ \A c \in DOMAIN idx.chunks :
         c \in DOMAIN idx2.chunks /\ idx2.chunks[c] = idx.chunks[c]

\* Two walks along one chain agree as far as both go.
LEMMA SamePath ==
  ASSUME NEW idx, NEW c, NEW s, NEW t, IsPath(idx, c, s), IsPath(idx, c, t)
  PROVE  \A i \in 1 .. Len(s) : i =< Len(t) => s[i] = t[i] /\ Tok(s, i) = Tok(t, i)
<1>0. Len(s) \in Nat /\ Len(t) \in Nat BY DEF IsPath
<1>. DEFINE Bad == {i \in 1 .. Len(s) : i =< Len(t) /\ ~(s[i] = t[i] /\ Tok(s, i) = Tok(t, i))}
<1>1. SUFFICES ASSUME Bad # {} PROVE FALSE OBVIOUS
<1>2. Bad \in SUBSET Nat OBVIOUS
<1>3. PICK i \in Bad : \A j \in Bad : i =< j
  <2>. HIDE DEF Bad
  <2>. QED BY <1>1, <1>2, Smallest
<1>4. i \in 1 .. Len(s) /\ i \in 1 .. Len(t) BY <1>0, <1>3
<1>5. i # 1 => s[i - 1] = t[i - 1]
  <2>. SUFFICES ASSUME i # 1 PROVE s[i - 1] = t[i - 1] OBVIOUS
  <2>1. i - 1 \in 1 .. Len(s) /\ i - 1 =< Len(t) /\ ~(i =< i - 1) BY <1>0, <1>4
  <2>2. i - 1 \notin Bad BY <1>3, <2>1
  <2>. QED BY <2>1, <2>2
<1>6. Tok(s, i) = Tok(t, i) BY <1>5 DEF Tok
<1>7. s[i] = t[i] BY <1>4, <1>6 DEF IsPath
<1>. QED BY <1>3, <1>6, <1>7

\* An open walk whose next page is not named has come as far as any.
LEMMA AtTheEnd ==
  ASSUME NEW idx, NEW c, NEW s, NEW t, IsPath(idx, c, s), IsPath(idx, c, t), IsOpen(t),
         Page(c, Tok(t, Len(t) + 1)) \notin DOMAIN idx.pages
  PROVE  Len(s) =< Len(t) /\ ~Whole(s)
<1>0. Len(s) \in Nat /\ Len(t) \in Nat /\ s \in Seq(Bodies) /\ t \in Seq(Bodies) BY DEF IsPath
<1>1. Len(s) =< Len(t)
  <2>. SUFFICES ASSUME Len(t) + 1 =< Len(s) PROVE FALSE BY <1>0
  <2>1. Len(t) + 1 \in 1 .. Len(s) BY <1>0
  <2>2. Tok(s, Len(t) + 1) = Tok(t, Len(t) + 1)
    <3>1. CASE Len(t) = 0 BY <3>1 DEF Tok
    <3>2. CASE Len(t) # 0
      <4>1. Len(t) \in 1 .. Len(s) BY <1>0, <3>2
      <4>2. s[Len(t)] = t[Len(t)] BY <1>0, <4>1, SamePath
      <4>. QED BY <1>0, <4>2 DEF Tok
    <3>. QED BY <3>1, <3>2
  <2>. QED BY <2>1, <2>2 DEF IsPath
<1>2. ~Whole(s)
  <2>. SUFFICES ASSUME s # <<>>, s[Len(s)].next = 0 PROVE FALSE BY DEF Whole, Last
  <2>1. Len(s) \in 1 .. Len(s) /\ t # <<>> BY <1>0, <1>1
  <2>2. s[Len(s)] = t[Len(s)] BY <1>1, <2>1, SamePath
  <2>3. CASE Len(s) < Len(t) BY <1>0, <2>1, <2>2, <2>3 DEF IsPath
  <2>4. CASE Len(s) = Len(t) BY <2>1, <2>2, <2>4 DEF IsOpen, Last
  <2>. QED BY <1>0, <1>1, <2>3, <2>4
<1>. QED BY <1>1, <1>2

\* A whole walk has come as far as any.
LEMMA WholeIsLongest ==
  ASSUME NEW idx, NEW c, NEW s, NEW t, IsPath(idx, c, s), IsPath(idx, c, t), Whole(t)
  PROVE  Len(s) =< Len(t)
<1>0. Len(s) \in Nat /\ Len(t) \in Nat /\ t \in Seq(Bodies) BY DEF IsPath
<1>. SUFFICES ASSUME Len(t) < Len(s) PROVE FALSE BY <1>0
<1>1. t # <<>> /\ t[Len(t)].next = 0 BY DEF Whole, Last
<1>2. Len(t) \in 1 .. Len(s) BY <1>0, <1>1
<1>3. s[Len(t)] = t[Len(t)] BY <1>0, <1>2, SamePath
<1>. QED BY <1>1, <1>2, <1>3 DEF IsPath

LEMMA CoversMore ==
  ASSUME NEW idx, NEW c, NEW s, NEW t, IsPath(idx, c, s), IsPath(idx, c, t),
         Covers(idx, c, s), Len(s) =< Len(t)
  PROVE  Covers(idx, c, t)
<1>0. Len(s) \in Nat /\ Len(t) \in Nat BY DEF IsPath
<1>1. \A i \in 1 .. Len(s) : i \in 1 .. Len(t) /\ Tok(s, i) = Tok(t, i) BY <1>0, SamePath
<1>. QED BY <1>1 DEF Covers

LEMMA PathGrows ==
  ASSUME NEW idx, NEW idx2, Grown(idx, idx2), NEW c, NEW s, IsPath(idx, c, s)
  PROVE  IsPath(idx2, c, s)
  BY DEF Grown, IsPath

LEMMA OneMore ==
  ASSUME NEW idx, NEW c, NEW s, NEW body \in Bodies, IsPath(idx, c, s), IsOpen(s),
         Page(c, Tok(s, Len(s) + 1)) \in DOMAIN idx.pages,
         idx.pages[Page(c, Tok(s, Len(s) + 1))] = body
  PROVE  LET t == Append(s, body) IN
           /\ IsPath(idx, c, t) /\ Len(t) = Len(s) + 1 /\ t # <<>>
           /\ Last(t) = body /\ Tok(t, Len(t) + 1) = body.next
<1>. DEFINE t == Append(s, body)
<1>a. s \in Seq(Bodies) /\ Len(s) \in Nat BY DEF IsPath
<1>b. t \in Seq(Bodies) /\ Len(t) = Len(s) + 1 BY <1>a
<1>c. (\A i \in 1 .. Len(s) : t[i] = s[i]) /\ t[Len(s) + 1] = body BY <1>a
<1>d. t # <<>> BY <1>a, <1>b
<1>0. /\ s \in Seq(Bodies) /\ Len(s) \in Nat /\ t \in Seq(Bodies) /\ Len(t) = Len(s) + 1
      /\ \A i \in 1 .. Len(s) : t[i] = s[i]
      /\ t[Len(s) + 1] = body /\ t # <<>>
  BY <1>a, <1>b, <1>c, <1>d
<1>. HIDE DEF t
<1>1. \A i \in 1 .. Len(s) + 1 : Tok(t, i) = Tok(s, i)
  <2>. SUFFICES ASSUME NEW i \in 1 .. Len(s) + 1, i # 1 PROVE Tok(t, i) = Tok(s, i) BY DEF Tok
  <2>1. i - 1 \in 1 .. Len(s) BY <1>0
  <2>. QED BY <1>0, <2>1 DEF Tok
<1>2. ASSUME NEW i \in 1 .. Len(t)
      PROVE  /\ Page(c, Tok(t, i)) \in DOMAIN idx.pages
             /\ idx.pages[Page(c, Tok(t, i))] = t[i]
             /\ i < Len(t) => t[i].next # 0
  <2>1. CASE i = Len(s) + 1 BY <1>0, <1>1, <2>1
  <2>2. CASE i # Len(s) + 1
    <3>1. i \in 1 .. Len(s) BY <1>0, <2>2
    <3>2. s[i].next # 0
      <4>1. CASE i < Len(s) BY <3>1, <4>1 DEF IsPath
      <4>2. CASE i = Len(s)
        <5>1. s # <<>> BY <1>0, <3>1, <4>2
        <5>. QED BY <4>2, <5>1 DEF IsOpen, Last
      <4>. QED BY <1>0, <3>1, <4>1, <4>2
    <3>. QED BY <1>0, <1>1, <3>1, <3>2 DEF IsPath
  <2>. QED BY <2>1, <2>2
<1>3. IsPath(idx, c, t) BY <1>0, <1>2 DEF IsPath
<1>4. Last(t) = body /\ Tok(t, Len(t) + 1) = body.next BY <1>0 DEF Last, Tok
<1>. QED BY <1>0, <1>3, <1>4 DEF t

\* A chain of which the last page is named; the chains before another are.
Done(idx, c) == \E s : IsPath(idx, c, s) /\ Whole(s)
Before(idx, c) == \A d \in References : d < c => Done(idx, d)

\* What the checkpoint names: pages in the order of the chains and of their
\* tokens, and chunks that hold the pages of their chain.
IsNamed(idx, q) ==
    /\ q = Page(q.chain, q.token) /\ q.chain \in References \cup Chunks
    /\ idx.pages[q] \in Bodies
    /\ q.chain \in References => Before(idx, q.chain)
    /\ idx.pages[q].next # 0 => q.chain \in Chunks \cup {Actions}
IsFilled(idx, c) ==
    /\ IsPath(idx, c, idx.chunks[c]) /\ Whole(idx.chunks[c])
    /\ Len(idx.chunks[c]) =< MaxPages
    /\ \A d \in References : Done(idx, d)
Paths(idx) ==
    /\ \A q \in DOMAIN idx.pages : IsNamed(idx, q)
    /\ \A c \in References \cup Chunks : \E s : IsPath(idx, c, s) /\ Covers(idx, c, s)
    /\ \A c \in DOMAIN idx.chunks : IsFilled(idx, c)

\* Where a download is in its chain.
Going == {"page", "save", "checkpoint"}
Walks(idx, r) ==
    /\ r.step \in Going =>
         /\ IsPath(idx, r.chain, r.read) /\ IsOpen(r.read) /\ Len(r.read) < MaxPages
         /\ r.token = Tok(r.read, Len(r.read) + 1)
    /\ r.step \in {"chunk", "name"} =>
         IsPath(idx, r.chain, r.read) /\ Whole(r.read) /\ Len(r.read) =< MaxPages
    /\ r.step \in Going \cup {"chunk", "name"} => Before(idx, r.chain)
    /\ r.step \in {"save", "checkpoint"} =>
         /\ r.body \in Bodies \cup {NoBody}
         /\ r.body.next # 0 => r.chain \in Chunks \cup {Actions}
    /\ r.step = "save" => r.body.grade \in {"clean", "defective"}
WInv == Paths(index) /\ \A p \in Procs : Walks(index, run[p])

LEMMA DoneGrows ==
  ASSUME NEW idx, NEW idx2, Grown(idx, idx2)
  PROVE  /\ \A c : Done(idx, c) => Done(idx2, c)
         /\ \A c : Before(idx, c) => Before(idx2, c)
<1>1. ASSUME NEW c, Done(idx, c) PROVE Done(idx2, c)
  <2>1. PICK s : IsPath(idx, c, s) /\ Whole(s) BY <1>1 DEF Done
  <2>2. IsPath(idx2, c, s) BY <2>1, PathGrows
  <2>. QED BY <2>1, <2>2 DEF Done
<1>. QED BY <1>1 DEF Before

LEMMA WalksGrow ==
  ASSUME NEW idx, NEW idx2, Grown(idx, idx2), NEW r, Walks(idx, r)
  PROVE  Walks(idx2, r)
  BY DoneGrows, PathGrows DEF Walks

LEMMA AtRest ==
  ASSUME NEW idx, NEW r, r.step \notin Going \cup {"chunk", "name"}
  PROVE  Walks(idx, r)
  BY DEF Walks, Going

\* The next chain is begun when all references before it are done.
LEMMA NextWalks ==
  ASSUME NEW idx, NEW idx2, NEW r, NEW c \in References \cup Chunks, IsRun(r),
         DOMAIN idx.chunks \subseteq Chunks, Before(idx2, c), c \in References => Done(idx2, c)
  PROVE  Walks(idx2, NextChain(c, idx, r))
<1>. DEFINE n == NextChain(c, idx, r)
            F == Following(c, idx)
            s == <<>>
<1>1. CASE F = {}
  <2>1. n.step = "release" BY <1>1 DEF NextChain, IsRun
  <2>. QED BY <2>1, AtRest DEF Going
<1>2. CASE F # {}
  <2>1. F \in SUBSET Nat BY ArchiveAssumption DEF Following
  <2>. HIDE DEF F
  <2>2. PICK m \in F : (\A y \in F : m =< y) /\ m = Min(F)
    <3>1. Min(F) \in F BY <1>2, <2>1, MinIn
    <3>2. \A y \in F : Min(F) =< y BY <1>2, <2>1, Smallest DEF Min
    <3>. QED BY <3>1, <3>2
  <2>3. n = [r EXCEPT !.step = "page", !.chain = m, !.token = 0, !.read = <<>>]
    BY <1>2, <2>2 DEF NextChain, F
  <2>4. n.step = "page" /\ n.chain = m /\ n.token = 0 /\ n.read = <<>> BY <2>3 DEF IsRun
  <2>. HIDE DEF n
  <2>5. ASSUME NEW d \in References, d < m PROVE Done(idx2, d)
    <3>1. d \in Nat /\ m \in Nat /\ c \in Nat BY <2>1, <2>2, ArchiveAssumption
    <3>2. d \notin DOMAIN idx.chunks BY ArchiveAssumption
    <3>3. ~(c < d)
      <4>1. c < d => d \in F BY <3>2 DEF F, Following
      <4>. QED BY <2>2, <2>5, <3>1, <4>1
    <3>4. CASE d = c BY <3>4
    <3>5. CASE d < c BY <3>5 DEF Before
    <3>. QED BY <3>1, <3>3, <3>4, <3>5
  <2>6. s \in Seq(Bodies) /\ Len(s) = 0 /\ Len(s) < MaxPages /\ Tok(s, Len(s) + 1) = 0
    BY ArchiveAssumption DEF Tok
  <2>7. IsPath(idx2, n.chain, s) /\ IsOpen(s) BY <2>6 DEF IsPath, IsOpen
  <2>8. Before(idx2, n.chain) BY <2>4, <2>5 DEF Before
  <2>9. Walks(idx2, n) BY <2>4, <2>6, <2>7, <2>8 DEF Walks, Going
  <2>. QED BY <2>9 DEF n
<1>. QED BY <1>1, <1>2

\* A page that the checkpoint names is passed.
LEMMA TurnWalks ==
  ASSUME NEW idx, NEW r, NEW body \in Bodies, IsRun(r),
         r.chain \in References \cup Chunks, DOMAIN index.chunks \subseteq Chunks,
         IsPath(idx, r.chain, r.read), IsOpen(r.read), Len(r.read) < MaxPages,
         r.token = Tok(r.read, Len(r.read) + 1), Before(idx, r.chain),
         Page(r.chain, r.token) \in DOMAIN idx.pages,
         idx.pages[Page(r.chain, r.token)] = body
  PROVE  Walks(idx, Turned(r, body))
<1>. DEFINE s == Append(r.read, body)
            n == Turned(r, body)
<1>1. /\ IsPath(idx, r.chain, s) /\ Len(s) = Len(r.read) + 1 /\ s # <<>>
      /\ Last(s) = body /\ Tok(s, Len(s) + 1) = body.next
  BY OneMore
<1>2. Len(r.read) \in Nat /\ Len(s) =< MaxPages BY <1>1, ArchiveAssumption DEF IsPath
<1>. HIDE DEF s
<1>3. CASE body.next = 0 /\ r.chain \in References
  <2>. DEFINE q == [r EXCEPT !.read = s]
  <2>1. IsRun(q) BY DEF IsRun
  <2>2. n = NextChain(r.chain, index, q) BY <1>3 DEF Turned, s
  <2>3. Whole(s) BY <1>1, <1>3 DEF Whole
  <2>4. Done(idx, r.chain) BY <1>1, <2>3 DEF Done
  <2>. HIDE DEF q, n
  <2>5. Walks(idx, NextChain(r.chain, index, q)) BY <2>1, <2>4, NextWalks
  <2>. QED BY <2>2, <2>5 DEF n
<1>4. CASE body.next = 0 /\ r.chain \notin References
  <2>1. n = [r EXCEPT !.read = s, !.step = "chunk"] BY <1>4 DEF Turned, s
  <2>2. n.step = "chunk" /\ n.chain = r.chain /\ n.read = s BY <2>1 DEF IsRun
  <2>3. Whole(s) BY <1>1, <1>4 DEF Whole
  <2>. HIDE DEF n
  <2>4. Walks(idx, n) BY <1>1, <1>2, <2>2, <2>3 DEF Walks, Going
  <2>. QED BY <2>4 DEF n
<1>5. CASE body.next # 0 /\ (body.next \in Tokens(r.read) \/ Len(s) >= MaxPages)
  <2>1. n = [r EXCEPT !.step = "release"] BY <1>5 DEF Turned, s
  <2>2. n.step = "release" BY <2>1 DEF IsRun
  <2>. HIDE DEF n
  <2>3. Walks(idx, n) BY <2>2, AtRest DEF Going
  <2>. QED BY <2>3 DEF n
<1>6. CASE body.next # 0 /\ ~(body.next \in Tokens(r.read) \/ Len(s) >= MaxPages)
  <2>1. n = [r EXCEPT !.read = s, !.token = body.next, !.step = "page"]
    BY <1>6 DEF Turned, s
  <2>2. n.step = "page" /\ n.chain = r.chain /\ n.read = s /\ n.token = body.next
    BY <2>1 DEF IsRun
  <2>3. IsOpen(s) BY <1>1, <1>6 DEF IsOpen
  <2>4. Len(s) < MaxPages BY <1>1, <1>2, <1>6, ArchiveAssumption
  <2>. HIDE DEF n
  <2>5. Walks(idx, n) BY <1>1, <2>2, <2>3, <2>4 DEF Walks, Going
  <2>. QED BY <2>5 DEF n
<1>. QED BY <1>3, <1>4, <1>5, <1>6

-----------------------------------------------------------------------------
(* Every step keeps the walks. *)

LEMMA IndexGrows ==
  ASSUME IInv, [Next]_vars
  PROVE  Grown(index, index')
<1>1. Kept \/ index' = index BY StepForgetsNothing DEF vars
<1>. QED BY <1>1 DEF Kept, Grown

\* What one process does leaves the others where they are.
LEMMA WalkersKept ==
  ASSUME IInv, WInv, Next, NEW p \in Procs, NEW r, Set(p, r), Paths(index'), Walks(index', r)
  PROVE  WInv'
<1>1. Grown(index, index') BY IndexGrows
<1>2. run'[p] = r /\ \A q \in Procs : q # p => run'[q] = run[q] BY NewRun
<1>3. \A q \in Procs : Walks(index', run'[q]) BY <1>1, <1>2, WalksGrow DEF WInv
<1>. QED BY <1>3 DEF WInv

LEMMA SameIndex ==
  ASSUME IInv, WInv, Next, NEW p \in Procs, NEW r, Set(p, r), Walks(index, r), index' = index
  PROVE  WInv'
  BY WalkersKept DEF WInv

\* A process that does not walk, or stops walking.
LEMMA RestWalks ==
  ASSUME IInv, WInv, Next, NEW p \in Procs, NEW r, Set(p, r),
         r.step \notin Going \cup {"chunk", "name"}, index' = index
  PROVE  WInv'
  BY AtRest, SameIndex

\* What a process that walks knows of its chain.
LEMMA Walking ==
  ASSUME IInv, WInv, NEW p \in Procs
  PROVE  /\ IsRun(run[p]) /\ Walks(index, run[p])
         /\ DOMAIN index.chunks \subseteq Chunks /\ IsIndex(index)
         /\ run[p].step \in Going => run[p].chain \in References \cup Chunks
         /\ run[p].step \in {"chunk", "name"} => run[p].chain \in Chunks
  BY DEF IInv, WInv, Own, Checkpoint, Pending, Going

LEMMA InitWalks == Init => WInv
<1>. SUFFICES ASSUME Init PROVE WInv OBVIOUS
<1>1. \A p \in Procs : Walks(index, run[p])
  <2>1. Idle.step \notin Going \cup {"chunk", "name"} BY DEF Idle, Going
  <2>. QED BY <2>1, AtRest DEF Init
<1>2. DOMAIN index.pages = {} /\ DOMAIN index.chunks = {} BY DEF Init, NoIndex
<1>3. ASSUME NEW c PROVE IsPath(index, c, <<>>) /\ Covers(index, c, <<>>)
  BY <1>2 DEF IsPath, Covers
<1>. QED BY <1>1, <1>2, <1>3 DEF WInv, Paths

LEMMA DownloadWalks ==
  ASSUME IInv, WInv, Next, NEW p \in Procs, Download(p)
  PROVE  WInv'
<1>. DEFINE r == [Idle EXCEPT !.step = "page", !.chain = Min(References)]
            s == <<>>
<1>1. r.step = "page" /\ r.chain = Min(References) /\ r.read = s /\ r.token = 0 BY DEF Idle
<1>2. Set(p, r) /\ index' = index BY DEF Download
<1>. HIDE DEF r
<1>3. s \in Seq(Bodies) /\ Len(s) = 0 /\ Len(s) < MaxPages /\ Tok(s, Len(s) + 1) = 0
  BY ArchiveAssumption DEF Tok
<1>4. IsPath(index, r.chain, s) /\ IsOpen(s) BY <1>3 DEF IsPath, IsOpen
<1>5. Before(index, r.chain)
  <2>1. References \in SUBSET Nat /\ References # {} BY ArchiveAssumption
  <2>2. PICK m \in References : (\A d \in References : m =< d) /\ m = Min(References)
    BY <2>1, Smallest DEF Min
  <2>. HIDE DEF s
  <2>3. \A d \in References : ~(d < m) BY <2>1, <2>2
  <2>. QED BY <1>1, <2>2, <2>3 DEF Before
<1>6. Walks(index, r) BY <1>1, <1>3, <1>4, <1>5 DEF Walks, Going
<1>. QED BY <1>2, <1>6, SameIndex

LEMMA StopWalks ==
  ASSUME IInv, WInv, Next, NEW p \in Procs, Set(p, [run[p] EXCEPT !.step = "release"]),
         index' = index
  PROVE  WInv'
<1>. DEFINE r == [run[p] EXCEPT !.step = "release"]
<1>1. r.step = "release" BY Walking DEF IsRun
<1>. HIDE DEF r
<1>2. Set(p, r) BY DEF r
<1>. QED BY <1>1, <1>2, RestWalks DEF Going

LEMMA CachedWalks ==
  ASSUME IInv, WInv, Next, NEW p \in Procs, Cached(p)
  PROVE  WInv'
<1>. DEFINE body == index.pages[Here(p)]
            n == Turned(run[p], body)
<1>1. run[p].step = "page" /\ index' = index /\ Here(p) \in DOMAIN index.pages
  BY DEF Cached, At
<1>2. CASE Set(p, n)
  <2>1. body \in Bodies BY <1>1 DEF WInv, Paths, IsNamed
  <2>2. /\ IsPath(index, run[p].chain, run[p].read) /\ IsOpen(run[p].read)
        /\ Len(run[p].read) < MaxPages
        /\ run[p].token = Tok(run[p].read, Len(run[p].read) + 1)
        /\ Before(index, run[p].chain)
    BY <1>1, Walking DEF Walks, Going
  <2>3. Page(run[p].chain, run[p].token) = Here(p) BY DEF Here
  <2>4. IsRun(run[p]) /\ run[p].chain \in References \cup Chunks
        /\ DOMAIN index.chunks \subseteq Chunks
    BY <1>1, Walking DEF Going
  <2>. HIDE DEF body
  <2>5. index.pages[Page(run[p].chain, run[p].token)] = body BY <2>3 DEF body
  <2>6. Walks(index, n) BY <1>1, <2>1, <2>2, <2>3, <2>4, <2>5, TurnWalks
  <2>. QED BY <1>1, <1>2, <2>6, SameIndex
<1>3. CASE Set(p, [run[p] EXCEPT !.step = "release"]) BY <1>1, <1>3, StopWalks
<1>. QED BY <1>2, <1>3 DEF Cached

LEMMA AnswerWalks ==
  ASSUME IInv, WInv, Next, NEW p \in Procs, Answer(p)
  PROVE  WInv'
<1>1. run[p].step = "page" /\ index' = index BY DEF Answer, At
<1>2. \E body \in Bodies \cup {NoBody} : \E sent :
        /\ body.next # 0 => run[p].chain \in Chunks \cup {Actions}
        /\ Set(p, [run[p] EXCEPT !.copy = index, !.body = body, !.receipts = sent,
                     !.step = IF body.grade \in {"clean", "defective"}
                                THEN "save" ELSE "checkpoint"])
  <2>1. PICK body \in Bodies \cup {NoBody}, retried \in BOOLEAN :
          /\ body.next # 0 => run[p].chain \in Chunks \cup {Actions}
          /\ Set(p, [run[p] EXCEPT !.copy = index, !.body = body,
                    !.receipts = {Receipt(Here(p), body)}
                       \cup (IF retried THEN {Receipt(Here(p), NoBody)} ELSE {}),
                    !.step = IF body.grade \in {"clean", "defective"}
                               THEN "save" ELSE "checkpoint"])
    BY DEF Answer
  <2>. QED BY <2>1
<1>a. PICK body \in Bodies \cup {NoBody} : \E sent :
        /\ body.next # 0 => run[p].chain \in Chunks \cup {Actions}
        /\ Set(p, [run[p] EXCEPT !.copy = index, !.body = body, !.receipts = sent,
                     !.step = IF body.grade \in {"clean", "defective"}
                                THEN "save" ELSE "checkpoint"])
  BY <1>2
<1>3. PICK sent :
        /\ body.next # 0 => run[p].chain \in Chunks \cup {Actions}
        /\ Set(p, [run[p] EXCEPT !.copy = index, !.body = body, !.receipts = sent,
                     !.step = IF body.grade \in {"clean", "defective"}
                                THEN "save" ELSE "checkpoint"])
  BY <1>a
<1>. DEFINE next == IF body.grade \in {"clean", "defective"} THEN "save" ELSE "checkpoint"
            r == [run[p] EXCEPT !.copy = index, !.body = body, !.receipts = sent,
                                !.step = next]
<1>4. next \in {"save", "checkpoint"} /\ (next = "save" => body.grade \in {"clean", "defective"})
  OBVIOUS
<1>5. Set(p, r) BY <1>3
<1>. HIDE DEF next
<1>6. /\ r.step = next /\ r.body = body /\ r.chain = run[p].chain
      /\ r.read = run[p].read /\ r.token = run[p].token
  BY Walking DEF IsRun
<1>. HIDE DEF r
<1>7. /\ IsPath(index, run[p].chain, run[p].read) /\ IsOpen(run[p].read)
      /\ Len(run[p].read) < MaxPages
      /\ run[p].token = Tok(run[p].read, Len(run[p].read) + 1)
      /\ Before(index, run[p].chain)
  BY <1>1, Walking DEF Walks, Going
<1>8. Walks(index, r) BY <1>3, <1>4, <1>6, <1>7 DEF Walks, Going
<1>. QED BY <1>1, <1>5, <1>8, SameIndex

LEMMA SavePageWalks ==
  ASSUME IInv, WInv, Next, NEW p \in Procs, SavePage(p)
  PROVE  WInv'
<1>. DEFINE r == [run[p] EXCEPT !.step = "checkpoint"]
<1>1. run[p].step = "save" /\ index' = index /\ Set(p, r) BY DEF SavePage, At
<1>2. /\ r.step = "checkpoint" /\ r.body = run[p].body /\ r.chain = run[p].chain
      /\ r.read = run[p].read /\ r.token = run[p].token
  BY Walking DEF IsRun
<1>. HIDE DEF r
<1>3. Walks(index, r) BY <1>1, <1>2, Walking DEF Walks, Going
<1>. QED BY <1>1, <1>3, SameIndex

LEMMA SaveChunkWalks ==
  ASSUME IInv, WInv, Next, NEW p \in Procs, SaveChunk(p)
  PROVE  WInv'
<1>. DEFINE r == [run[p] EXCEPT !.step = "name", !.copy = index]
<1>1. run[p].step = "chunk" /\ index' = index /\ Set(p, r) BY DEF SaveChunk, At
<1>2. r.step = "name" /\ r.chain = run[p].chain /\ r.read = run[p].read
  BY Walking DEF IsRun
<1>. HIDE DEF r
<1>3. Walks(index, r) BY <1>1, <1>2, Walking DEF Walks, Going
<1>. QED BY <1>1, <1>3, SameIndex

LEMMA OutsideWalks ==
  ASSUME IInv, WInv, Next, NEW p \in Procs,
         \/ Release(p) \/ AuditReferences(p) \/ AuditChunks(p) \/ Judge(p)
         \/ Freeze(p) \/ FreezeRefused(p) \/ Publish(p) \/ Kill(p)
  PROVE  WInv'
<1>1. index' = index
  BY DEF Release, AuditReferences, AuditChunks, Judge, Freeze, FreezeRefused, Publish, Kill
<1>2. IsRun(run[p]) BY Walking
<1>3. CASE Release(p) \/ FreezeRefused(p) \/ Kill(p)
  <2>1. Set(p, Idle) BY <1>3 DEF Release, FreezeRefused, Kill
  <2>. QED BY <1>1, <2>1, IdleIsRun, RestWalks DEF Going
<1>4. CASE AuditReferences(p)
  <2>. DEFINE pages == Restrict(index.pages, PagesOf(index, References))
              r == [Idle EXCEPT !.step = "audit", !.report.pages = pages]
  <2>1. r.step = "audit" BY DEF Idle
  <2>2. Set(p, r) BY <1>4 DEF AuditReferences
  <2>. HIDE DEF r
  <2>. QED BY <1>1, <2>1, <2>2, RestWalks DEF Going
<1>5. CASE AuditChunks(p)
  <2>. DEFINE r == [run[p] EXCEPT !.step = "judge", !.report.chunks = index.chunks]
  <2>1. r.step = "judge" BY <1>2 DEF IsRun
  <2>2. Set(p, r) BY <1>5 DEF AuditChunks
  <2>. HIDE DEF r
  <2>. QED BY <1>1, <2>1, <2>2, RestWalks DEF Going
<1>6. CASE Judge(p)
  <2>. DEFINE yes == Accepted(run[p].report, index)
              r == [run[p] EXCEPT !.step = "freeze", !.report.accepted = yes]
  <2>1. r.step = "freeze" BY <1>2 DEF IsRun
  <2>2. Set(p, r) \/ Set(p, Idle) BY <1>6 DEF Judge
  <2>. HIDE DEF r
  <2>. QED BY <1>1, <2>1, <2>2, IdleIsRun, RestWalks DEF Going
<1>7. CASE Freeze(p)
  <2>1. PICK next \in {"preserve", "publish"} :
          Set(p, [run[p] EXCEPT !.copy = index, !.step = next])
    <3>1. \E next \in {"preserve", "publish"} :
            Set(p, [run[p] EXCEPT !.copy = index, !.step = next])
      BY <1>7 DEF Freeze
    <3>. QED BY <3>1
  <2>. DEFINE r == [run[p] EXCEPT !.copy = index, !.step = next]
  <2>2. r.step = next /\ Set(p, r) BY <1>2, <2>1 DEF IsRun
  <2>. HIDE DEF r
  <2>. QED BY <1>1, <2>2, RestWalks DEF Going
<1>8. CASE Publish(p) BY <1>1, <1>8, StopWalks DEF Publish
<1>. QED BY <1>3, <1>4, <1>5, <1>6, <1>7, <1>8

\* A page that is named for the first time comes at the end of its chain.
LEMMA PathsWithPage ==
  ASSUME NEW idx, NEW idx2, NEW c \in References \cup Chunks, NEW s, NEW body \in Bodies,
         Paths(idx), IsPath(idx, c, s), IsOpen(s), Before(idx, c),
         Page(c, Tok(s, Len(s) + 1)) \notin DOMAIN idx.pages,
         body.next # 0 => c \in Chunks \cup {Actions},
         idx2.chunks = idx.chunks,
         idx2.pages = [q \in DOMAIN idx.pages \cup {Page(c, Tok(s, Len(s) + 1))} |->
                         IF q = Page(c, Tok(s, Len(s) + 1)) THEN body ELSE idx.pages[q]]
  PROVE  Paths(idx2)
<1>. DEFINE page == Page(c, Tok(s, Len(s) + 1))
            t == Append(s, body)
<1>1. /\ DOMAIN idx2.pages = DOMAIN idx.pages \cup {page} /\ idx2.pages[page] = body
      /\ \A q \in DOMAIN idx.pages : idx2.pages[q] = idx.pages[q]
  OBVIOUS
<1>2. Grown(idx, idx2) BY <1>1 DEF Grown
<1>3. page.chain = c /\ page.token = Tok(s, Len(s) + 1) /\ page = Page(page.chain, page.token)
  BY DEF Page
<1>4. IsPath(idx2, c, s) BY <1>2, PathGrows
<1>5. IsPath(idx2, c, t) /\ Len(t) = Len(s) + 1 BY <1>1, <1>4, OneMore
<1>. HIDE DEF t
<1>6. ASSUME NEW q \in DOMAIN idx2.pages PROVE IsNamed(idx2, q)
  <2>1. CASE q \in DOMAIN idx.pages
    <3>1. IsNamed(idx, q) BY <2>1 DEF Paths
    <3>2. IsNamed(idx, q) => IsNamed(idx2, q)
      BY <1>1, <1>2, <2>1, DoneGrows DEF IsNamed
    <3>. QED BY <3>1, <3>2
  <2>2. CASE q = page
    <3>1. Before(idx2, c) BY <1>2, DoneGrows
    <3>. QED BY <1>1, <1>3, <2>2, <3>1 DEF IsNamed
  <2>. QED BY <1>1, <2>1, <2>2
<1>7. ASSUME NEW d \in References \cup Chunks
      PROVE  \E u : IsPath(idx2, d, u) /\ Covers(idx2, d, u)
  <2>1. PICK u : IsPath(idx, d, u) /\ Covers(idx, d, u) BY DEF Paths
  <2>2. CASE d # c
    <3>1. IsPath(idx2, d, u) BY <1>2, <2>1, PathGrows
    <3>2. Covers(idx2, d, u) BY <1>1, <1>3, <2>1, <2>2 DEF Covers
    <3>. QED BY <3>1, <3>2
  <2>3. CASE d = c
    <3>1. Covers(idx, c, s) BY <2>1, <2>3, AtTheEnd, CoversMore
    <3>2. Len(s) \in Nat BY DEF IsPath
    <3>3. \A i \in 1 .. Len(s) : i \in 1 .. Len(t) /\ Tok(s, i) = Tok(t, i)
      <4>1. \A i \in 1 .. Len(s) : i =< Len(t) => Tok(s, i) = Tok(t, i)
        BY <1>4, <1>5, SamePath
      <4>. QED BY <1>5, <3>2, <4>1
    <3>4. Len(t) \in 1 .. Len(t) /\ page.token = Tok(t, Len(t))
      <4>1. Tok(t, Len(s) + 1) = Tok(s, Len(s) + 1)
        <5>1. CASE Len(s) = 0 BY <5>1 DEF Tok
        <5>2. CASE Len(s) # 0
          <6>1. Len(s) \in 1 .. Len(s) /\ Len(s) =< Len(t) BY <1>5, <3>2, <5>2
          <6>2. s[Len(s)] = t[Len(s)] BY <1>4, <1>5, <6>1, SamePath
          <6>. QED BY <3>2, <5>2, <6>2 DEF Tok
        <5>. QED BY <5>1, <5>2
      <4>. QED BY <1>3, <1>5, <3>2, <4>1
    <3>. HIDE DEF page
    <3>5. Covers(idx2, c, t) BY <1>1, <3>1, <3>3, <3>4 DEF Covers
    <3>. QED BY <1>5, <2>3, <3>5
  <2>. QED BY <2>2, <2>3
<1>8. \A d \in DOMAIN idx2.chunks : IsFilled(idx2, d)
  BY <1>2, DoneGrows, PathGrows DEF Paths, IsFilled
<1>. QED BY <1>6, <1>7, <1>8 DEF Paths

LEMMA SamePages ==
  ASSUME NEW idx, NEW idx2, idx2.pages = idx.pages
  PROVE  /\ \A c, s : IsPath(idx, c, s) => IsPath(idx2, c, s)
         /\ \A c, s : Covers(idx, c, s) => Covers(idx2, c, s)
         /\ \A c : Done(idx, c) => Done(idx2, c)
         /\ \A c : Before(idx, c) => Before(idx2, c)
<1>1. \A c, s : IsPath(idx, c, s) => IsPath(idx2, c, s) BY DEF IsPath
<1>2. \A c, s : Covers(idx, c, s) => Covers(idx2, c, s) BY DEF Covers
<1>3. \A c : Done(idx, c) => Done(idx2, c) BY <1>1 DEF Done
<1>. QED BY <1>1, <1>2, <1>3 DEF Before

LEMMA PathsWithChunk ==
  ASSUME NEW idx, NEW idx2, NEW c \in Chunks, NEW s, Paths(idx), IsPath(idx, c, s), Whole(s),
         Len(s) =< MaxPages, Before(idx, c), idx2.pages = idx.pages,
         idx2.chunks = [d \in DOMAIN idx.chunks \cup {c} |->
                          IF d = c THEN s ELSE idx.chunks[d]]
  PROVE  Paths(idx2)
<1>1. \A q \in DOMAIN idx2.pages : IsNamed(idx2, q) BY SamePages DEF Paths, IsNamed
<1>2. \A d \in References \cup Chunks : \E u : IsPath(idx2, d, u) /\ Covers(idx2, d, u)
  BY SamePages DEF Paths
<1>3. ASSUME NEW d \in DOMAIN idx2.chunks PROVE IsFilled(idx2, d)
  <2>1. CASE d = c
    <3>1. \A e \in References : Done(idx2, e) BY SamePages, ArchiveAssumption DEF Before
    <3>2. idx2.chunks[d] = s /\ IsPath(idx2, d, s) BY <2>1, SamePages
    <3>. QED BY <3>1, <3>2 DEF IsFilled
  <2>2. CASE d # c
    <3>1. d \in DOMAIN idx.chunks /\ idx2.chunks[d] = idx.chunks[d] BY <2>2
    <3>2. IsFilled(idx, d) BY <3>1 DEF Paths
    <3>. QED BY <3>1, <3>2, SamePages DEF IsFilled
  <2>. QED BY <2>1, <2>2
<1>. QED BY <1>1, <1>2, <1>3 DEF Paths

\* A process at a page, with what it has been given.
LEMMA AtPage ==
  ASSUME IInv, WInv, NEW p \in Procs, CheckpointPage(p)
  PROVE  LET r == run[p] IN
         /\ index'.pages = Named(r, Here(p)) /\ index'.chunks = index.chunks
         /\ IsRun(r) /\ r.copy = index /\ r.chain \in References \cup Chunks
         /\ IsPath(index, r.chain, r.read) /\ IsOpen(r.read) /\ Len(r.read) < MaxPages
         /\ r.token = Tok(r.read, Len(r.read) + 1) /\ Before(index, r.chain)
         /\ Here(p) = Page(r.chain, r.token) /\ Here(p) \notin DOMAIN index.pages
         /\ r.body \in Bodies \cup {NoBody}
         /\ r.body.next # 0 => r.chain \in Chunks \cup {Actions}
         /\ r.body.grade \in {"clean", "defective"} => r.body \in Bodies
<1>1. run[p].step = "checkpoint" BY DEF CheckpointPage, At
<1>2. Walks(index, run[p]) BY Walking
<1>3. run[p].body \in Bodies \cup {NoBody} BY <1>1, <1>2 DEF Walks
<1>4. run[p].body.grade \in {"clean", "defective"} => run[p].body \in Bodies
  BY <1>3 DEF NoBody
<1>. QED BY <1>1, <1>2, <1>3, <1>4, CheckpointWritten DEF Walks, Going, Here

LEMMA CheckpointPageWalks ==
  ASSUME IInv, WInv, Next, NEW p \in Procs, CheckpointPage(p)
  PROVE  WInv'
<1>. DEFINE body == run[p].body
            r == [run[p] EXCEPT !.receipts = {}, !.copy = NoIndex, !.body = NoBody]
            n == Turned(r, body)
            stop == [run[p] EXCEPT !.step = "release"]
<1>1. /\ IsRun(r) /\ r.chain = run[p].chain /\ r.read = run[p].read /\ r.token = run[p].token
      /\ stop.step = "release"
  BY AtPage DEF IsRun
<1>. HIDE DEF r
<1>2. CASE body.grade \in {"clean", "defective"}
  <2>1. Set(p, n) BY <1>2 DEF CheckpointPage, r
  <2>. DEFINE c == run[p].chain
              s == run[p].read
              page == Page(c, Tok(s, Len(s) + 1))
  <2>a. page = Here(p) BY AtPage
  <2>2. index'.pages = [q \in DOMAIN index.pages \cup {page} |->
                          IF q = page THEN body ELSE index.pages[q]]
    <3>1. index'.pages = Named(run[p], page) /\ run[p].copy = index BY <2>a, AtPage
    <3>. HIDE DEF page
    <3>. QED BY <1>2, <3>1 DEF Named
  <2>3. body \in Bodies BY <1>2, AtPage
  <2>b. /\ c \in References \cup Chunks /\ IsPath(index, c, s) /\ IsOpen(s)
        /\ Before(index, c) /\ page \notin DOMAIN index.pages
        /\ body.next # 0 => c \in Chunks \cup {Actions}
        /\ index'.chunks = index.chunks
    BY <2>a, AtPage
  <2>. HIDE DEF body, c, s
  <2>4. Paths(index') BY <2>2, <2>3, <2>b, PathsWithPage DEF WInv
  <2>. USE DEF c, s
  <2>5. Here(p) \in DOMAIN index'.pages /\ index'.pages[Here(p)] = body BY <2>2, <2>a
  <2>6. Grown(index, index') BY IndexGrows
  <2>7. IsPath(index', r.chain, r.read) BY <1>1, <2>6, AtPage, PathGrows
  <2>8. Before(index', r.chain) BY <1>1, <2>6, AtPage, DoneGrows
  <2>9. DOMAIN index.chunks \subseteq Chunks BY Walking
  <2>10. Walks(index', n)
    BY <1>1, <2>3, <2>5, <2>7, <2>8, <2>9, AtPage, TurnWalks
  <2>. HIDE DEF n
  <2>. QED BY <2>1, <2>4, <2>10, WalkersKept
<1>3. CASE body.grade \notin {"clean", "defective"}
  <2>1. Set(p, stop) BY <1>3 DEF CheckpointPage
  <2>. HIDE DEF stop
  <2>2. Walks(index', stop) BY <1>1, AtRest DEF Going
  <2>3. index'.pages = index.pages /\ index'.chunks = index.chunks
    BY <1>3, AtPage DEF Named
  <2>4. Paths(index) => Paths(index')
    BY <2>3, SamePages DEF Paths, IsNamed, IsFilled
  <2>. QED BY <2>1, <2>2, <2>4, WalkersKept DEF WInv
<1>. QED BY <1>2, <1>3

LEMMA NameChunkWalks ==
  ASSUME IInv, WInv, Next, NEW p \in Procs, NameChunk(p)
  PROVE  WInv'
<1>. DEFINE r == [run[p] EXCEPT !.copy = NoIndex]
            stop == [run[p] EXCEPT !.step = "release"]
            c == run[p].chain
<1>1. run[p].step = "name" BY DEF NameChunk, At
<1>2. Walks(index, run[p]) /\ IsRun(run[p]) BY Walking
<1>3. IsRun(r) /\ stop.step = "release" BY <1>2 DEF IsRun
<1>a. /\ index'.pages = index.pages /\ c \in Chunks
      /\ index'.chunks = [d \in DOMAIN index.chunks \cup {c} |->
                           IF d = c THEN run[p].read ELSE index.chunks[d]]
  BY ChunkNamed
<1>4. DOMAIN index'.chunks \subseteq Chunks
  <2>1. DOMAIN index'.chunks = DOMAIN index.chunks \cup {c} BY <1>a
  <2>. QED BY <1>a, <2>1, Walking
<1>5. IsPath(index, c, run[p].read) /\ Whole(run[p].read)
      /\ Len(run[p].read) =< MaxPages /\ Before(index, c)
  BY <1>1, <1>2 DEF Walks
<1>7. Set(p, NextChain(c, index', r)) \/ Set(p, stop) BY DEF NameChunk
<1>. HIDE DEF r, stop, c
<1>6. Paths(index') BY <1>a, <1>5, PathsWithChunk DEF WInv
<1>8. Before(index', c) BY <1>5, IndexGrows, DoneGrows
<1>9. c \notin References BY <1>a, ArchiveAssumption
<1>10. Walks(index', NextChain(c, index', r)) BY <1>3, <1>4, <1>a, <1>8, <1>9, NextWalks
<1>11. Walks(index', stop) BY <1>3, AtRest DEF Going
<1>. QED BY <1>6, <1>7, <1>10, <1>11, WalkersKept

LEMMA NextWalkers == IInv /\ WInv /\ [Next]_vars => WInv'
<1>. SUFFICES ASSUME IInv, WInv, [Next]_vars PROVE WInv' OBVIOUS
<1>1. CASE UNCHANGED vars
  <2>1. index' = index /\ run' = run BY <1>1 DEF vars
  <2>. QED BY <2>1 DEF WInv
<1>2. CASE Next
  BY <1>2, DownloadWalks, CachedWalks, AnswerWalks, SavePageWalks, CheckpointPageWalks,
     SaveChunkWalks, NameChunkWalks, OutsideWalks
  DEF Next
<1>. QED BY <1>1, <1>2

LEMMA Walkers == Spec => []WInv
  BY Invariance, InitWalks, NextWalkers, PTL DEF Spec

-----------------------------------------------------------------------------
(* What an audit has read, and what a freeze may rely on. *)

IsMap(f) == f = [x \in DOMAIN f |-> f[x]]
Within(f, g) == \A x \in DOMAIN f : x \in DOMAIN g /\ f[x] = g[x]
IsReport(rep) ==
    rep \in [pages : {rep.pages}, chunks : {rep.chunks}, accepted : {rep.accepted}]

\* What a report says of the checkpoint: it holds what was named when it was read,
\* and all reference pages if it holds the assets, which come last.
Judging == {"audit", "judge", "freeze", "publish"}
IsAccepted(rep) ==
    /\ PagesOf(rep, {Max(References)}) # {}
    /\ \A q \in DOMAIN rep.pages : rep.pages[q].grade = "clean"
    /\ DOMAIN rep.chunks = Chunks
    /\ \A c \in Chunks : Clean(rep.chunks[c])
Holds(idx, rep) ==
    /\ Within(rep.pages, idx.pages)
    /\ PagesOf(rep, {Max(References)}) # {} =>
         rep.pages = Restrict(idx.pages, PagesOf(idx, References))
Reports(idx, r) ==
    /\ IsReport(r.report)
    /\ r.step \in Judging => Holds(idx, r.report)
    /\ r.step \in Judging \ {"audit"} =>
         IsMap(r.report.chunks) /\ Within(r.report.chunks, idx.chunks)
    /\ r.step = "freeze" /\ r.report.accepted => IsAccepted(r.report)
    /\ r.step = "publish" => IsAccepted(r.report)
    /\ r.step \in {"preserve", "publish"} => r.copy = idx
RInv == /\ IsMap(index.chunks) /\ SnapshotIsWhole
        /\ \A p \in Procs : Reports(index, run[p])

\* The assets are the last reference, and their one page has no next.
LEMMA LastReference ==
  /\ Max(References) \in References \ (Chunks \cup {Actions})
  /\ \A d \in References : d =< Max(References)
<1>1. References \in SUBSET Nat /\ References # {} /\ IsFiniteSet(References)
  <2>1. References \subseteq References \cup Chunks OBVIOUS
  <2>. QED BY <2>1, ArchiveAssumption, FS_Subset
<1>2. PICK m \in References : \A d \in References : d =< m BY <1>1, Largest
<1>3. Max(References) \in References /\ \A d \in References : d =< Max(References)
  BY <1>2 DEF Max
<1>4. PICK d \in References : Actions < d BY ArchiveAssumption
<1>5. Actions \in Nat /\ d \in Nat /\ Max(References) \in Nat BY <1>1, <1>3, ArchiveAssumption
<1>6. Max(References) # Actions BY <1>3, <1>4, <1>5
<1>7. Max(References) \notin Chunks BY <1>3, <1>5, ArchiveAssumption
<1>. QED BY <1>3, <1>6, <1>7

\* Once a page of the assets is named, so are all pages of the references.
LEMMA AllReferences ==
  ASSUME WInv, PagesOf(index, {Max(References)}) # {}
  PROVE  \A c \in References : Done(index, c)
<1>. DEFINE m == Max(References)
<1>1. m \in References /\ m \notin Chunks \cup {Actions} BY LastReference
<1>. HIDE DEF m
<1>2. PICK q \in DOMAIN index.pages : q.chain = m BY DEF PagesOf, m
<1>3. IsNamed(index, q) BY DEF WInv, Paths
<1>4. Before(index, m) BY <1>1, <1>2, <1>3 DEF IsNamed
<1>5. PICK s : IsPath(index, m, s) /\ Covers(index, m, s) BY <1>1 DEF WInv, Paths
<1>6. s \in Seq(Bodies) /\ Len(s) \in Nat /\ Len(s) # 0 BY <1>2, <1>5 DEF Covers, IsPath
<1>7. Whole(s)
  <2>1. Len(s) \in 1 .. Len(s) BY <1>6
  <2>2. PICK x \in DOMAIN index.pages :
          x = Page(m, Tok(s, Len(s))) /\ index.pages[x] = s[Len(s)]
    BY <1>5, <2>1 DEF IsPath
  <2>3. x.chain = m BY <2>2 DEF Page
  <2>4. s[Len(s)].next = 0 BY <1>1, <2>2, <2>3 DEF WInv, Paths, IsNamed
  <2>. QED BY <1>6, <2>4 DEF Whole, Last
<1>8. Done(index, m) BY <1>5, <1>7 DEF Done
<1>9. ASSUME NEW c \in References PROVE c < m \/ c = m
  <2>1. References \in SUBSET Nat BY ArchiveAssumption
  <2>2. \A d \in References : d =< m BY LastReference DEF m
  <2>. QED BY <1>1, <2>1, <2>2
<1>. QED BY <1>4, <1>8, <1>9 DEF Before

LEMMA ReferencesStay ==
  ASSUME IInv, WInv, Next, PagesOf(index, {Max(References)}) # {}
  PROVE  Restrict(index'.pages, PagesOf(index', References))
           = Restrict(index.pages, PagesOf(index, References))
<1>1. CASE index'.pages = index.pages BY <1>1 DEF PagesOf
<1>2. ASSUME NEW p \in Procs, CheckpointPage(p)
      PROVE  Restrict(index'.pages, PagesOf(index', References))
               = Restrict(index.pages, PagesOf(index, References))
  <2>1. CASE run[p].body.grade \notin {"clean", "defective"}
    BY <1>1, <1>2, <2>1, AtPage DEF Named
  <2>2. CASE run[p].body.grade \in {"clean", "defective"}
    <3>1. /\ DOMAIN index'.pages = DOMAIN index.pages \cup {Here(p)}
          /\ \A q \in DOMAIN index.pages : index'.pages[q] = index.pages[q]
      <4>1. /\ index'.pages = Named(run[p], Here(p)) /\ run[p].copy = index
            /\ Here(p) \notin DOMAIN index.pages
        BY <1>2, AtPage
      <4>. QED BY <2>2, <4>1 DEF Named
    <3>2. Here(p).chain \notin References
      <4>1. /\ IsPath(index, run[p].chain, run[p].read) /\ IsOpen(run[p].read)
            /\ Here(p) = Page(run[p].chain, Tok(run[p].read, Len(run[p].read) + 1))
            /\ Here(p) \notin DOMAIN index.pages
        BY <1>2, AtPage
      <4>2. ~Done(index, run[p].chain) BY <4>1, AtTheEnd DEF Done
      <4>3. Here(p).chain = run[p].chain BY DEF Here, Page
      <4>. QED BY <4>2, <4>3, AllReferences
    <3>. DEFINE A == PagesOf(index', References)
                B == PagesOf(index, References)
    <3>3. A = B /\ \A q \in B : q \in DOMAIN index.pages BY <3>1, <3>2 DEF PagesOf
    <3>. HIDE DEF A, B
    <3>4. Restrict(index'.pages, A) = Restrict(index.pages, B)
      BY <3>1, <3>3 DEF Restrict
    <3>. QED BY <3>4 DEF A, B
  <2>. QED BY <2>1, <2>2
<1>3. ASSUME NEW p \in Procs, NameChunk(p) PROVE index'.pages = index.pages
  <2>1. PICK chunks : index' = [pages |-> index.pages, receipts |-> index.receipts,
                                chunks |-> chunks]
    BY <1>3, ChunkNamed
  <2>. QED BY <2>1
<1>. QED BY <1>1, <1>2, <1>3
     DEF Next, Download, Cached, Answer, SavePage, SaveChunk, Release, AuditReferences,
         AuditChunks, Judge, Freeze, FreezeRefused, Publish, Kill

\* What one process does leaves the reports of the others true.
LEMMA ReportsKept ==
  ASSUME IInv, WInv, RInv, Next, NEW p \in Procs, NEW r, Set(p, r),
         Reports(index', r), IsMap(index'.chunks), SnapshotIsWhole',
         index' = index \/ lock = p
  PROVE  RInv'
<1>1. Grown(index, index') BY IndexGrows
<1>2. run'[p] = r /\ \A q \in Procs : q # p => run'[q] = run[q] BY NewRun
<1>3. ASSUME NEW q \in Procs, q # p PROVE Reports(index', run[q])
  <2>1. Reports(index, run[q]) BY DEF RInv
  <2>2. Holds(index, run[q].report) => Holds(index', run[q].report)
    <3>. SUFFICES ASSUME Holds(index, run[q].report) PROVE Holds(index', run[q].report)
      OBVIOUS
    <3>1. Within(run[q].report.pages, index.pages) BY DEF Holds
    <3>2. Within(run[q].report.pages, index'.pages) BY <1>1, <3>1 DEF Within, Grown
    <3>3. PagesOf(run[q].report, {Max(References)}) # {} =>
            PagesOf(index, {Max(References)}) # {}
      BY <3>1 DEF Within, PagesOf
    <3>. QED BY <3>2, <3>3, ReferencesStay DEF Holds
  <2>3. Within(run[q].report.chunks, index.chunks) => Within(run[q].report.chunks, index'.chunks)
    BY <1>1 DEF Within, Grown
  <2>4. run[q].step \in {"preserve", "publish"} => index' = index
    BY <1>3 DEF IInv, Own, Locked, Working
  <2>. QED BY <2>1, <2>2, <2>3, <2>4 DEF Reports
<1>4. \A q \in Procs : Reports(index', run'[q]) BY <1>2, <1>3
<1>. QED BY <1>4 DEF RInv

\* A step of a download, and one that ends any work.
LEMMA QuietReports ==
  ASSUME IInv, WInv, RInv, Next, NEW p \in Procs, NEW r, Set(p, r),
         r.step \notin Judging \cup {"preserve"}, IsReport(r.report), IsMap(index'.chunks),
         snapshots' = snapshots, index' = index \/ lock = p
  PROVE  RInv'
<1>1. Reports(index', r) BY DEF Reports, Judging
<1>2. SnapshotIsWhole' BY DEF RInv, SnapshotIsWhole
<1>. QED BY <1>1, <1>2, ReportsKept

-----------------------------------------------------------------------------
(* Every step keeps the reports. *)

LEMMA InitReports == Init => RInv
<1>. SUFFICES ASSUME Init PROVE RInv OBVIOUS
<1>1. \A p \in Procs : run[p] = Idle BY DEF Init
<1>2. ASSUME NEW p \in Procs PROVE Reports(index, run[p])
  BY <1>1 DEF Reports, Idle, IsReport, NoReport, Judging
<1>3. IsMap(index.chunks)
  <2>1. index.chunks = <<>> BY DEF Init, NoIndex
  <2>. QED BY <2>1 DEF IsMap
<1>. QED BY <1>2, <1>3 DEF Init, RInv, SnapshotIsWhole

\* What a step that leaves report alone needs.
LEMMA Reporting ==
  ASSUME IInv, RInv, NEW p \in Procs
  PROVE  IsRun(run[p]) /\ IsReport(run[p].report) /\ Reports(index, run[p]) /\ IsMap(index.chunks)
  BY DEF IInv, Own, RInv, Reports

LEMMA NextReport ==
  ASSUME NEW c, NEW idx, NEW r, IsRun(r)
  PROVE  NextChain(c, idx, r).report = r.report
<1>1. CASE Following(c, idx) = {} BY <1>1 DEF NextChain, IsRun
<1>2. CASE Following(c, idx) # {}
  <2>. DEFINE m == Min(Following(c, idx))
  <2>1. NextChain(c, idx, r) = [r EXCEPT !.step = "page", !.chain = m, !.token = 0, !.read = <<>>]
    BY <1>2 DEF NextChain
  <2>. HIDE DEF m
  <2>. QED BY <2>1 DEF IsRun
<1>. QED BY <1>1, <1>2

LEMMA TurnReport ==
  ASSUME NEW r, NEW body, IsRun(r)
  PROVE  Turned(r, body).report = r.report
<1>. DEFINE s == Append(r.read, body)
            q == [r EXCEPT !.read = s]
<1>1. CASE body.next = 0 /\ r.chain \in References
  <2>1. IsRun(q) /\ q.report = r.report BY DEF IsRun
  <2>2. Turned(r, body) = NextChain(r.chain, index, q) BY <1>1 DEF Turned
  <2>. HIDE DEF q
  <2>. QED BY <2>1, <2>2, NextReport
<1>2. CASE ~(body.next = 0 /\ r.chain \in References)
  <2>1. \/ Turned(r, body) = [r EXCEPT !.read = s, !.step = "chunk"]
        \/ Turned(r, body) = [r EXCEPT !.step = "release"]
        \/ Turned(r, body) = [r EXCEPT !.read = s, !.token = body.next, !.step = "page"]
    BY <1>2 DEF Turned
  <2>. HIDE DEF s
  <2>. QED BY <2>1 DEF IsRun
<1>. QED BY <1>1, <1>2

LEMMA StopReports ==
  ASSUME IInv, WInv, RInv, Next, NEW p \in Procs, Set(p, [run[p] EXCEPT !.step = "release"]),
         IsMap(index'.chunks), snapshots' = snapshots, index' = index \/ lock = p
  PROVE  RInv'
<1>. DEFINE r == [run[p] EXCEPT !.step = "release"]
<1>1. r.step = "release" /\ r.report = run[p].report BY Reporting DEF IsRun
<1>. HIDE DEF r
<1>2. Set(p, r) BY DEF r
<1>3. IsReport(r.report) BY <1>1, Reporting
<1>. QED BY <1>1, <1>2, <1>3, QuietReports DEF Judging

\* The steps of a download that leave the checkpoint alone.
LEMMA DownloadReports ==
  ASSUME IInv, WInv, RInv, Next, NEW p \in Procs,
         Download(p) \/ Cached(p) \/ Answer(p) \/ SavePage(p) \/ SaveChunk(p)
  PROVE  RInv'
<1>0. index' = index /\ snapshots' = snapshots /\ IsMap(index'.chunks)
  BY Reporting DEF Download, Cached, Answer, SavePage, SaveChunk
<1>1. IsRun(run[p]) /\ IsReport(run[p].report) BY Reporting
<1>2. CASE Download(p)
  <2>. DEFINE r == [Idle EXCEPT !.step = "page", !.chain = Min(References)]
  <2>1. r.step = "page" /\ r.report = NoReport BY DEF Idle
  <2>2. Set(p, r) /\ IsReport(NoReport) BY <1>2 DEF Download, IsReport, NoReport
  <2>. HIDE DEF r
  <2>. QED BY <1>0, <2>1, <2>2, QuietReports DEF Judging
<1>3. CASE Cached(p)
  <2>. DEFINE n == Turned(run[p], index.pages[Here(p)])
  <2>1. run[p].step = "page" BY <1>3 DEF Cached, At
  <2>2. n.step \in {"page", "chunk", "release"}
    BY <1>1, <2>1, TurnIsPending DEF IInv, Own, Pending
  <2>3. IsReport(n.report) BY <1>1, TurnReport
  <2>4. Set(p, n) \/ Set(p, [run[p] EXCEPT !.step = "release"]) BY <1>3 DEF Cached
  <2>. HIDE DEF n
  <2>5. CASE Set(p, n) BY <1>0, <2>2, <2>3, <2>5, QuietReports DEF Judging
  <2>6. CASE Set(p, [run[p] EXCEPT !.step = "release"]) BY <1>0, <2>6, StopReports
  <2>. QED BY <2>4, <2>5, <2>6
<1>4. CASE Answer(p)
  <2>1. PICK body, sent : \E next \in {"save", "checkpoint"} :
          Set(p, [run[p] EXCEPT !.copy = index, !.body = body, !.receipts = sent, !.step = next])
    <3>1. PICK body \in Bodies \cup {NoBody}, retried \in BOOLEAN :
            Set(p, [run[p] EXCEPT !.copy = index, !.body = body,
                      !.receipts = {Receipt(Here(p), body)}
                         \cup (IF retried THEN {Receipt(Here(p), NoBody)} ELSE {}),
                      !.step = IF body.grade \in {"clean", "defective"}
                                 THEN "save" ELSE "checkpoint"])
      BY <1>4 DEF Answer
    <3>. QED BY <3>1
  <2>2. PICK next \in {"save", "checkpoint"} :
          Set(p, [run[p] EXCEPT !.copy = index, !.body = body, !.receipts = sent, !.step = next])
    BY <2>1
  <2>. DEFINE r == [run[p] EXCEPT !.copy = index, !.body = body, !.receipts = sent, !.step = next]
  <2>3. r.step = next /\ r.report = run[p].report BY <1>1 DEF IsRun
  <2>4. Set(p, r) BY <2>2
  <2>. HIDE DEF r
  <2>5. r.step \notin Judging \cup {"preserve"} /\ IsReport(r.report)
    BY <1>1, <2>3 DEF Judging
  <2>. QED BY <1>0, <2>4, <2>5, QuietReports
<1>5. CASE SavePage(p)
  <2>. DEFINE r == [run[p] EXCEPT !.step = "checkpoint"]
  <2>1. r.step = "checkpoint" /\ r.report = run[p].report BY <1>1 DEF IsRun
  <2>2. Set(p, r) BY <1>5 DEF SavePage
  <2>. HIDE DEF r
  <2>. QED BY <1>0, <1>1, <2>1, <2>2, QuietReports DEF Judging
<1>6. CASE SaveChunk(p)
  <2>. DEFINE r == [run[p] EXCEPT !.step = "name", !.copy = index]
  <2>1. r.step = "name" /\ r.report = run[p].report BY <1>1 DEF IsRun
  <2>2. Set(p, r) BY <1>6 DEF SaveChunk
  <2>. HIDE DEF r
  <2>. QED BY <1>0, <1>1, <2>1, <2>2, QuietReports DEF Judging
<1>. QED BY <1>2, <1>3, <1>4, <1>5, <1>6

LEMMA CheckpointPageReports ==
  ASSUME IInv, WInv, RInv, Next, NEW p \in Procs, CheckpointPage(p)
  PROVE  RInv'
<1>. DEFINE body == run[p].body
            r == [run[p] EXCEPT !.receipts = {}, !.copy = NoIndex, !.body = NoBody]
            n == Turned(r, body)
<1>0. lock = p /\ snapshots' = snapshots /\ IsMap(index'.chunks)
  BY CheckpointWritten, AtPage, Reporting DEF CheckpointPage
<1>1. /\ IsRun(r) /\ r.report = run[p].report /\ r.chain = run[p].chain
      /\ r.chain \in (References \cup Chunks) \ DOMAIN index.chunks
  BY CheckpointWritten DEF IsRun
<1>2. Set(p, n) \/ Set(p, [run[p] EXCEPT !.step = "release"]) BY DEF CheckpointPage
<1>. HIDE DEF r
<1>3. n.step \in {"page", "chunk", "release"} BY <1>1, TurnIsPending
<1>4. IsReport(n.report) BY <1>1, TurnReport, Reporting
<1>. HIDE DEF n
<1>5. CASE Set(p, n) BY <1>0, <1>3, <1>4, <1>5, QuietReports DEF Judging
<1>6. CASE Set(p, [run[p] EXCEPT !.step = "release"]) BY <1>0, <1>6, StopReports
<1>. QED BY <1>2, <1>5, <1>6

LEMMA NameChunkReports ==
  ASSUME IInv, WInv, RInv, Next, NEW p \in Procs, NameChunk(p)
  PROVE  RInv'
<1>. DEFINE r == [run[p] EXCEPT !.copy = NoIndex]
            n == NextChain(run[p].chain, index', r)
<1>0. lock = p /\ snapshots' = snapshots BY ChunkNamed DEF NameChunk
<1>a. IsMap(index'.chunks)
  <2>. DEFINE named == [d \in DOMAIN index.chunks \cup {run[p].chain} |->
                          IF d = run[p].chain THEN run[p].read ELSE index.chunks[d]]
  <2>1. index' = [pages |-> index.pages, receipts |-> index.receipts, chunks |-> named]
    BY ChunkNamed
  <2>2. IsMap(named) BY DEF IsMap
  <2>. HIDE DEF named
  <2>. QED BY <2>1, <2>2
<1>1. IsRun(r) /\ r.report = run[p].report BY Reporting DEF IsRun
<1>2. Set(p, n) \/ Set(p, [run[p] EXCEPT !.step = "release"]) BY DEF NameChunk
<1>. HIDE DEF r
<1>3. n.step \in {"page", "release"} BY <1>1, NextIsPending
<1>4. IsReport(n.report) BY <1>1, NextReport, Reporting
<1>. HIDE DEF n
<1>5. CASE Set(p, n) BY <1>0, <1>a, <1>3, <1>4, <1>5, QuietReports DEF Judging
<1>6. CASE Set(p, [run[p] EXCEPT !.step = "release"]) BY <1>0, <1>a, <1>6, StopReports
<1>. QED BY <1>2, <1>5, <1>6

LEMMA EndReports ==
  ASSUME IInv, WInv, RInv, Next, NEW p \in Procs, Release(p) \/ FreezeRefused(p) \/ Kill(p)
  PROVE  RInv'
<1>1. Set(p, Idle) /\ index' = index /\ snapshots' = snapshots
  BY DEF Release, FreezeRefused, Kill
<1>2. Idle.step = "idle" /\ IsReport(Idle.report) BY DEF Idle, IsReport, NoReport
<1>3. IsMap(index'.chunks) BY <1>1, Reporting
<1>. QED BY <1>1, <1>2, <1>3, QuietReports DEF Judging

\* The audit.
LEMMA AuditReports ==
  ASSUME IInv, WInv, RInv, Next, NEW p \in Procs,
         AuditReferences(p) \/ AuditChunks(p) \/ Judge(p)
  PROVE  RInv'
<1>0. index' = index /\ snapshots' = snapshots /\ IsMap(index'.chunks) /\ SnapshotIsWhole'
  BY Reporting DEF AuditReferences, AuditChunks, Judge, SnapshotIsWhole, RInv
<1>. DEFINE old == run[p].report
<1>1. IsRun(run[p]) /\ IsReport(old) /\ Reports(index, run[p]) BY Reporting
<1>2. CASE AuditReferences(p)
  <2>. DEFINE Q == PagesOf(index, References)
              pages == Restrict(index.pages, Q)
              r == [Idle EXCEPT !.step = "audit", !.report.pages = pages]
  <2>1. r.step = "audit" /\ IsReport(r.report) /\ r.report.pages = pages
    BY DEF Idle, NoReport, IsReport
  <2>2. Set(p, r) BY <1>2 DEF AuditReferences
  <2>. HIDE DEF r
  <2>3. Within(pages, index.pages) BY DEF Within, Restrict, PagesOf
  <2>4. Holds(index, r.report) BY <2>1, <2>3 DEF Holds
  <2>5. Reports(index, r) BY <2>1, <2>4 DEF Reports, Judging
  <2>. QED BY <1>0, <2>2, <2>5, ReportsKept
<1>3. CASE AuditChunks(p)
  <2>. DEFINE chunks == index.chunks
              rep == [old EXCEPT !.chunks = chunks]
              r == [run[p] EXCEPT !.step = "judge", !.report.chunks = chunks]
  <2>1. /\ IsReport(rep) /\ rep.pages = old.pages /\ rep.chunks = chunks
    BY <1>1 DEF IsReport
  <2>2. r.step = "judge" /\ r.report = rep BY <1>1 DEF IsRun
  <2>3. Set(p, r) /\ run[p].step = "audit" BY <1>3 DEF AuditChunks, At
  <2>. HIDE DEF r, rep
  <2>4. Holds(index, rep)
    <3>1. Holds(index, old) BY <1>1, <2>3 DEF Reports, Judging
    <3>. QED BY <2>1, <3>1 DEF Holds, PagesOf
  <2>5. IsMap(rep.chunks) /\ Within(rep.chunks, index.chunks) BY <1>0, <2>1 DEF Within
  <2>6. Reports(index, r) BY <2>1, <2>2, <2>4, <2>5 DEF Reports, Judging
  <2>. QED BY <1>0, <2>3, <2>6, ReportsKept
<1>4. CASE Judge(p)
  <2>. DEFINE yes == Accepted(old, index)
              rep == [old EXCEPT !.accepted = yes]
              r == [run[p] EXCEPT !.step = "freeze", !.report.accepted = yes]
  <2>1. /\ IsReport(rep) /\ rep.pages = old.pages /\ rep.chunks = old.chunks
        /\ rep.accepted = yes
    BY <1>1 DEF IsReport
  <2>2. r.step = "freeze" /\ r.report = rep BY <1>1 DEF IsRun
  <2>3. (Set(p, r) \/ Set(p, Idle)) /\ run[p].step = "judge" BY <1>4 DEF Judge, At
  <2>4. yes => IsAccepted(rep) BY <2>1 DEF Accepted, IsAccepted, PagesOf
  <2>. HIDE DEF r, rep, yes
  <2>5. Holds(index, rep)
    <3>1. Holds(index, old) BY <1>1, <2>3 DEF Reports, Judging
    <3>. QED BY <2>1, <3>1 DEF Holds, PagesOf
  <2>6. IsMap(rep.chunks) /\ Within(rep.chunks, index.chunks)
    BY <1>1, <2>1, <2>3 DEF Reports, Judging
  <2>7. Reports(index, r) BY <2>1, <2>2, <2>4, <2>5, <2>6 DEF Reports, Judging
  <2>8. CASE Set(p, r) BY <1>0, <2>7, <2>8, ReportsKept
  <2>9. CASE Set(p, Idle)
    <3>1. Idle.step = "idle" /\ IsReport(Idle.report) BY DEF Idle, IsReport, NoReport
    <3>. QED BY <1>0, <2>9, <3>1, QuietReports DEF Judging
  <2>. QED BY <2>3, <2>8, <2>9
<1>. QED BY <1>2, <1>3, <1>4

\* The freeze.
LEMMA FreezeReports ==
  ASSUME IInv, WInv, RInv, Next, NEW p \in Procs, Freeze(p)
  PROVE  RInv'
<1>0. index' = index /\ snapshots' = snapshots /\ IsMap(index'.chunks) /\ SnapshotIsWhole'
  BY Reporting DEF Freeze, SnapshotIsWhole, RInv
<1>1. IsRun(run[p]) /\ Reports(index, run[p]) /\ run[p].step = "freeze"
  BY Reporting DEF Freeze, At
<1>2. PICK next \in {"preserve", "publish"} :
        /\ next = "publish" => run[p].report.accepted
        /\ Set(p, [run[p] EXCEPT !.copy = index, !.step = next])
  <2>1. PICK evidenceOnly \in BOOLEAN :
          /\ evidenceOnly \/ run[p].report.accepted
          /\ Set(p, [run[p] EXCEPT !.copy = index, !.step =
                       IF evidenceOnly THEN "preserve" ELSE "publish"])
    BY DEF Freeze
  <2>2. CASE evidenceOnly BY <2>1, <2>2
  <2>3. CASE ~evidenceOnly BY <2>1, <2>3
  <2>. QED BY <2>2, <2>3
<1>. DEFINE r == [run[p] EXCEPT !.copy = index, !.step = next]
<1>3. r.step = next /\ r.report = run[p].report /\ r.copy = index BY <1>1 DEF IsRun
<1>4. Set(p, r) BY <1>2
<1>. HIDE DEF r
<1>5. Reports(index, r) BY <1>1, <1>2, <1>3 DEF Reports, Judging
<1>. QED BY <1>0, <1>4, <1>5, ReportsKept

\* An accepted report on all chunks, and all references: nothing else is named.
LEMMA WholeSnapshot ==
  ASSUME WInv, IsIndex(index), DOMAIN index.chunks \subseteq Chunks, IsMap(index.chunks),
         NEW rep, IsAccepted(rep), Holds(index, rep), IsMap(rep.chunks),
         Within(rep.chunks, index.chunks)
  PROVE  /\ rep.chunks = index.chunks
         /\ rep.pages = Restrict(index.pages, PagesOf(index, References))
         /\ \A q \in DOMAIN index.pages : index.pages[q].grade = "clean"
<1>1. DOMAIN rep.chunks = Chunks /\ DOMAIN index.chunks = Chunks
      /\ \A c \in Chunks : rep.chunks[c] = index.chunks[c]
  BY DEF IsAccepted, Within
<1>2. rep.chunks = index.chunks BY <1>1 DEF IsMap
<1>3. rep.pages = Restrict(index.pages, PagesOf(index, References))
  BY DEF IsAccepted, Holds
<1>4. ASSUME NEW q \in DOMAIN index.pages PROVE index.pages[q].grade = "clean"
  <2>1. q = Page(q.chain, q.token) /\ q.chain \in References \cup Chunks
    BY DEF WInv, Paths, IsNamed
  <2>2. CASE q.chain \in References
    <3>1. q \in PagesOf(index, References) BY <2>2 DEF PagesOf
    <3>. DEFINE R == PagesOf(index, References)
    <3>. HIDE DEF R
    <3>2. q \in DOMAIN rep.pages /\ rep.pages[q] = index.pages[q]
      BY <1>3, <3>1 DEF Restrict, R
    <3>. QED BY <3>2 DEF IsAccepted
  <2>3. CASE q.chain \in Chunks
    <3>. DEFINE c == q.chain
                s == index.chunks[c]
    <3>1. IsPath(index, c, s) /\ Whole(s) BY <1>1, <2>3 DEF WInv, Paths, IsFilled
    <3>2. PICK u : IsPath(index, c, u) /\ Covers(index, c, u) BY <2>3 DEF WInv, Paths
    <3>3. Covers(index, c, s) BY <3>1, <3>2, WholeIsLongest, CoversMore
    <3>4. PICK i \in 1 .. Len(s) : q.token = Tok(s, i) BY <3>3 DEF Covers
    <3>5. index.pages[q] = s[i] BY <2>1, <3>1, <3>4 DEF IsPath
    <3>6. Clean(s) BY <1>1, <2>3 DEF IsAccepted
    <3>7. DOMAIN s = 1 .. Len(s) BY <3>1 DEF IsPath
    <3>. QED BY <3>5, <3>6, <3>7 DEF Clean
  <2>. QED BY <2>1, <2>2, <2>3
<1>. QED BY <1>2, <1>3, <1>4

LEMMA PublishReports ==
  ASSUME IInv, WInv, RInv, Next, NEW p \in Procs, Publish(p)
  PROVE  RInv'
<1>1. /\ index' = index /\ Set(p, [run[p] EXCEPT !.step = "release"])
      /\ run[p].step \in {"preserve", "publish"}
  BY DEF Publish
<1>2. IsRun(run[p]) /\ Reports(index, run[p]) /\ IsMap(index'.chunks) BY <1>1, Reporting
<1>3. SnapshotIsWhole'
  <2>. DEFINE new == [index |-> run[p].copy, report |-> run[p].report,
                      state |-> IF At(p, "publish") THEN "FROZEN" ELSE "FROZEN_EVIDENCE_ONLY"]
  <2>1. snapshots' = snapshots \cup {new} BY DEF Publish
  <2>2. new.index = run[p].copy /\ new.report = run[p].report
        /\ (new.state = "FROZEN" => run[p].step = "publish")
    BY DEF At
  <2>. HIDE DEF new
  <2>3. ASSUME new.state = "FROZEN"
        PROVE  /\ new.report.chunks = new.index.chunks
               /\ new.report.pages = Restrict(new.index.pages, PagesOf(new.index, References))
               /\ \A q \in DOMAIN new.index.pages : new.index.pages[q].grade = "clean"
    <3>1. run[p].copy = index /\ IsAccepted(run[p].report) /\ Holds(index, run[p].report)
          /\ IsMap(run[p].report.chunks) /\ Within(run[p].report.chunks, index.chunks)
      BY <1>2, <2>2, <2>3 DEF Reports, Judging
    <3>2. IsIndex(index) /\ DOMAIN index.chunks \subseteq Chunks /\ IsMap(index.chunks)
      BY <1>1, <1>2 DEF IInv, Checkpoint
    <3>. QED BY <2>2, <3>1, <3>2, WholeSnapshot
  <2>. QED BY <2>1, <2>3 DEF RInv, SnapshotIsWhole
<1>. DEFINE r == [run[p] EXCEPT !.step = "release"]
<1>4. r.step = "release" /\ IsReport(r.report)
  <2>1. r.step = "release" /\ r.report = run[p].report BY <1>2 DEF IsRun
  <2>. HIDE DEF r
  <2>. QED BY <2>1, <1>2 DEF Reports
<1>5. Set(p, r) BY <1>1
<1>. HIDE DEF r
<1>6. Reports(index', r) BY <1>4 DEF Reports, Judging
<1>. QED BY <1>1, <1>2, <1>3, <1>5, <1>6, ReportsKept

LEMMA NextReports == IInv /\ WInv /\ RInv /\ [Next]_vars => RInv'
<1>. SUFFICES ASSUME IInv, WInv, RInv, [Next]_vars PROVE RInv' OBVIOUS
<1>1. CASE UNCHANGED vars
  BY <1>1 DEF vars, RInv, SnapshotIsWhole
<1>2. CASE Next
  BY <1>2, DownloadReports, CheckpointPageReports, NameChunkReports, EndReports,
     AuditReports, FreezeReports, PublishReports
  DEF Next
<1>. QED BY <1>1, <1>2

LEMMA Reported == Spec => []RInv
  BY Invariance, Walkers, InitReports, NextReports, PTL DEF Spec

\* A snapshot for research holds exactly what an accepted report has looked at
\* (audit_archive, _freeze and Archive.writer).
THEOREM FrozenIsWhole == Spec => []SnapshotIsWhole
<1>1. RInv => SnapshotIsWhole BY DEF RInv
<1>. QED BY <1>1, Reported, PTL

-----------------------------------------------------------------------------
(* What verify_completed reads along a chain. *)

\* The request of the next page, the page, and where the walk of Chain stops.
NextPage(c, s) == Page(c, IF s = <<>> THEN 0 ELSE Last(s).next)
Stops(idx, c, s) ==
    \/ s # <<>> /\ Last(s).next = 0
    \/ NextPage(c, s) \notin DOMAIN idx.pages
    \/ Len(s) > MaxPages
Longer(idx, c, s) == Append(s, idx.pages[NextPage(c, s)])
IsWalk(idx, c, w) ==
    w = [s \in Seq(Bodies) |-> IF Stops(idx, c, s) THEN s ELSE w[Longer(idx, c, s)]]
IsPre(s, t) ==
    s \in Seq(Bodies) /\ Len(s) =< Len(t) /\ \A i \in 1 .. Len(s) : s[i] = t[i]
Leads(idx, c, s, t) ==
    /\ t \in Seq(Bodies) /\ IsPre(s, t) /\ Stops(idx, c, t)
    /\ \A u : IsPre(u, t) /\ Len(s) =< Len(u) /\ Len(u) < Len(t)
                => ~Stops(idx, c, u) /\ IsPre(Longer(idx, c, u), t)

LEMMA SamePre ==
  ASSUME NEW s, NEW t, NEW u, IsPre(s, t), IsPre(u, t), Len(s) = Len(u)
  PROVE  s = u
<1>1. s \in Seq(Bodies) /\ u \in Seq(Bodies) BY DEF IsPre
<1>2. \A i \in 1 .. Len(s) : s[i] = u[i] BY DEF IsPre
<1>. QED BY <1>1, <1>2

LEMMA LeadsOn ==
  ASSUME NEW idx, NEW c, NEW s \in Seq(Bodies), ~Stops(idx, c, s),
         Longer(idx, c, s) \in Seq(Bodies), NEW t
  PROVE  Leads(idx, c, s, t) <=> Leads(idx, c, Longer(idx, c, s), t)
<1>. DEFINE n == Longer(idx, c, s)
<1>0. Len(s) \in Nat /\ Len(n) = Len(s) + 1 /\ \A i \in 1 .. Len(s) : n[i] = s[i]
  BY DEF Longer
<1>1. ASSUME Leads(idx, c, s, t) PROVE Leads(idx, c, n, t)
  <2>1. t \in Seq(Bodies) /\ Len(t) \in Nat /\ IsPre(s, t) /\ Stops(idx, c, t)
    BY <1>1 DEF Leads
  <2>2. Len(s) # Len(t)
    <3>1. IsPre(t, t) BY <2>1 DEF IsPre
    <3>2. Len(s) = Len(t) => s = t BY <2>1, <3>1, SamePre
    <3>. QED BY <2>1, <3>2
  <2>3. Len(s) < Len(t) BY <1>0, <2>1, <2>2 DEF IsPre
  <2>4. IsPre(n, t) BY <1>1, <1>0, <2>1, <2>3 DEF Leads
  <2>. HIDE DEF n
  <2>5. ASSUME NEW u, IsPre(u, t), Len(n) =< Len(u), Len(u) < Len(t)
        PROVE  ~Stops(idx, c, u) /\ IsPre(Longer(idx, c, u), t)
    <3>1. Len(u) \in Nat BY <2>5 DEF IsPre
    <3>2. Len(s) =< Len(u) BY <1>0, <2>5, <3>1
    <3>. QED BY <1>1, <2>5, <3>2 DEF Leads
  <2>. QED BY <2>1, <2>4, <2>5 DEF Leads
<1>2. ASSUME Leads(idx, c, n, t) PROVE Leads(idx, c, s, t)
  <2>1. t \in Seq(Bodies) /\ Len(t) \in Nat /\ IsPre(n, t) /\ Stops(idx, c, t)
    BY <1>2 DEF Leads
  <2>2. IsPre(s, t)
    <3>. HIDE DEF n
    <3>1. Len(n) =< Len(t) /\ \A i \in 1 .. Len(n) : n[i] = t[i] BY <2>1 DEF IsPre
    <3>2. \A i \in 1 .. Len(s) : i \in 1 .. Len(n) BY <1>0
    <3>3. Len(s) =< Len(t) BY <1>0, <2>1, <3>1
    <3>. QED BY <1>0, <3>1, <3>2, <3>3 DEF IsPre
  <2>3. ASSUME NEW u, IsPre(u, t), Len(s) =< Len(u), Len(u) < Len(t)
        PROVE  ~Stops(idx, c, u) /\ IsPre(Longer(idx, c, u), t)
    <3>1. Len(u) \in Nat BY <2>3 DEF IsPre
    <3>2. CASE Len(u) = Len(s)
      <4>1. u = s BY <2>2, <2>3, <3>2, SamePre
      <4>. QED BY <2>1, <4>1
    <3>3. CASE Len(u) # Len(s)
      <4>. HIDE DEF n
      <4>1. Len(n) =< Len(u) BY <1>0, <2>3, <3>1, <3>3
      <4>. QED BY <1>2, <2>3, <4>1 DEF Leads
    <3>. QED BY <3>2, <3>3
  <2>. QED BY <2>1, <2>2, <2>3 DEF Leads
<1>. QED BY <1>1, <1>2

\* The recursive definition of Chain has a solution.
LEMMA WalkExists ==
  ASSUME NEW idx, NEW c, \A q \in DOMAIN idx.pages : idx.pages[q] \in Bodies
  PROVE  \E w : IsWalk(idx, c, w)
<1>. DEFINE F(s) == CHOOSE t : Leads(idx, c, s, t)
            w == [s \in Seq(Bodies) |-> F(s)]
<1>1. ASSUME NEW s \in Seq(Bodies)
      PROVE  F(s) = IF Stops(idx, c, s) THEN s ELSE w[Longer(idx, c, s)]
  <2>0. Len(s) \in Nat OBVIOUS
  <2>1. CASE Stops(idx, c, s)
    <3>1. Leads(idx, c, s, s)
      <4>1. IsPre(s, s) BY DEF IsPre
      <4>2. ~(\E u : Len(s) =< Len(u) /\ Len(u) < Len(s) /\ IsPre(u, s))
        <5>1. \A u : IsPre(u, s) => Len(u) \in Nat BY DEF IsPre
        <5>. QED BY <2>0, <5>1
      <4>. QED BY <2>1, <4>1, <4>2 DEF Leads
    <3>2. ASSUME NEW t, Leads(idx, c, s, t) PROVE t = s
      <4>1. t \in Seq(Bodies) /\ Len(t) \in Nat /\ IsPre(s, t) BY <3>2 DEF Leads
      <4>2. Len(s) =< Len(t) BY <4>1 DEF IsPre
      <4>3. ~(Len(s) < Len(t)) BY <2>0, <2>1, <3>2, <4>1 DEF Leads
      <4>4. IsPre(t, t) BY <4>1 DEF IsPre
      <4>5. Len(s) = Len(t) BY <2>0, <4>1, <4>2, <4>3
      <4>. QED BY <4>1, <4>4, <4>5, SamePre
    <3>. QED BY <2>1, <3>1, <3>2
  <2>2. CASE ~Stops(idx, c, s)
    <3>. DEFINE n == Longer(idx, c, s)
    <3>1. n \in Seq(Bodies) BY <2>2 DEF Longer, Stops
    <3>2. \A t : Leads(idx, c, s, t) <=> Leads(idx, c, n, t) BY <2>2, <3>1, LeadsOn
    <3>. HIDE DEF n
    <3>3. F(s) = F(n) BY <3>2, Zenon
    <3>4. w[n] = F(n) BY <3>1
    <3>. QED BY <2>2, <3>3, <3>4 DEF n
  <2>. QED BY <2>1, <2>2
<1>. HIDE DEF F
<1>2. w = [s \in Seq(Bodies) |-> IF Stops(idx, c, s) THEN s ELSE w[Longer(idx, c, s)]]
  BY <1>1
<1>. HIDE DEF w
<1>3. IsWalk(idx, c, w) BY <1>2 DEF IsWalk
<1>. QED BY <1>3

LEMMA ChainIsWalk ==
  ASSUME NEW idx, NEW c
  PROVE  Chain(idx, c) = (CHOOSE w : IsWalk(idx, c, w))[<<>>]
  BY DEF Chain, IsWalk, Stops, Longer, NextPage

\* Along a whole chain that is not too long it comes to the end.
LEMMA ChainOfWhole ==
  ASSUME NEW idx, NEW c, NEW s, \A q \in DOMAIN idx.pages : idx.pages[q] \in Bodies,
         IsPath(idx, c, s), Whole(s), Len(s) =< MaxPages
  PROVE  Chain(idx, c) = s
<1>1. PICK w : IsWalk(idx, c, w) /\ Chain(idx, c) = w[<<>>]
  BY WalkExists, ChainIsWalk
<1>2. \A u \in Seq(Bodies) : w[u] = IF Stops(idx, c, u) THEN u ELSE w[Longer(idx, c, u)]
  BY <1>1 DEF IsWalk
<1>3. s \in Seq(Bodies) /\ Len(s) \in Nat /\ s # <<>> /\ MaxPages \in Nat
  BY ArchiveAssumption DEF IsPath, Whole
<1>. DEFINE Bad == {k \in 0 .. Len(s) : \E u : IsPre(u, s) /\ Len(u) = Len(s) - k /\ w[u] # s}
<1>4. Bad = {}
  <2>. SUFFICES ASSUME Bad # {} PROVE FALSE OBVIOUS
  <2>1. Bad \in SUBSET Nat OBVIOUS
  <2>2. PICK k \in Bad : \A j \in Bad : k =< j
    <3>. HIDE DEF Bad
    <3>. QED BY <2>1, Smallest
  <2>3. PICK u : IsPre(u, s) /\ Len(u) = Len(s) - k /\ w[u] # s BY <2>2
  <2>4. /\ k \in Nat /\ k =< Len(s) /\ u \in Seq(Bodies) /\ Len(u) \in Nat
        /\ \A i \in 1 .. Len(u) : u[i] = s[i]
    BY <2>2, <2>3 DEF IsPre
  <2>5. CASE k = 0
    <3>1. IsPre(s, s) /\ Len(u) = Len(s) BY <1>3, <2>3, <2>5 DEF IsPre
    <3>2. u = s BY <2>3, <3>1, SamePre
    <3>3. Stops(idx, c, u) BY <3>2 DEF Whole, Stops
    <3>. QED BY <1>2, <2>3, <2>4, <3>2, <3>3
  <2>6. CASE k # 0
    <3>. DEFINE i == Len(u) + 1
                n == Append(u, s[i])
    <3>1. i \in 1 .. Len(s) /\ Len(u) < Len(s) /\ s[i] \in Bodies BY <1>3, <2>3, <2>4, <2>6
    <3>2. u # <<>> => Last(u) = s[Len(u)] /\ Last(u).next # 0
      <4>. SUFFICES ASSUME u # <<>> PROVE Last(u) = s[Len(u)] /\ s[Len(u)].next # 0 OBVIOUS
      <4>1. Len(u) \in 1 .. Len(u) /\ Len(u) \in 1 .. Len(s) BY <2>4, <3>1
      <4>. QED BY <2>4, <3>1, <4>1 DEF IsPath, Last
    <3>3. NextPage(c, u) = Page(c, Tok(s, i))
      <4>1. CASE u = <<>> BY <4>1 DEF NextPage, Tok
      <4>2. CASE u # <<>>
        <5>1. i # 1 /\ i - 1 = Len(u) BY <2>4, <4>2
        <5>. QED BY <3>2, <4>2, <5>1 DEF NextPage, Tok
      <4>. QED BY <4>1, <4>2
    <3>4. NextPage(c, u) \in DOMAIN idx.pages /\ idx.pages[NextPage(c, u)] = s[i]
      BY <3>1, <3>3 DEF IsPath
    <3>5. ~Stops(idx, c, u)
      <4>1. ~(Len(u) > MaxPages) BY <1>3, <2>4, <3>1
      <4>. QED BY <3>2, <3>4, <4>1 DEF Stops
    <3>6. w[u] = w[n] BY <1>2, <2>4, <3>4, <3>5 DEF Longer
    <3>7. IsPre(n, s) /\ Len(n) = Len(s) - (k - 1)
      <4>1. n \in Seq(Bodies) /\ Len(n) = Len(u) + 1 BY <2>4, <3>1
      <4>2. ASSUME NEW j \in 1 .. Len(u) + 1 PROVE n[j] = s[j]
        <5>1. CASE j = Len(u) + 1 BY <2>4, <3>1, <5>1
        <5>2. CASE j # Len(u) + 1
          <6>0. Len(u) \in Nat BY <2>4
          <6>1. j \in 1 .. Len(u)
            <7>. HIDE DEF n, i
            <7>. QED BY <6>0, <5>2
          <6>. QED BY <2>4, <3>1, <6>1
        <5>. QED BY <5>1, <5>2
      <4>. HIDE DEF n, i
      <4>3. Len(n) =< Len(s) BY <1>3, <2>4, <3>1, <4>1
      <4>4. Len(n) = Len(s) - (k - 1) BY <1>3, <2>3, <2>4, <4>1
      <4>. QED BY <4>1, <4>2, <4>3, <4>4 DEF IsPre
    <3>. HIDE DEF n
    <3>8. k - 1 \in 0 .. Len(s) BY <1>3, <2>4, <2>6
    <3>9. k - 1 \in Bad BY <2>3, <3>6, <3>7, <3>8
    <3>. HIDE DEF Bad
    <3>10. k =< k - 1 /\ k \in Nat BY <2>2, <2>4, <3>9
    <3>. QED BY <3>10
  <2>. QED BY <2>5, <2>6
<1>5. w[<<>>] = s
  <2>. DEFINE e == <<>>
  <2>1. IsPre(e, s) /\ Len(e) = Len(s) - Len(s) /\ Len(s) \in 0 .. Len(s)
    BY <1>3 DEF IsPre
  <2>2. w[e] = s BY <1>4, <2>1
  <2>. QED BY <2>2
<1>. QED BY <1>1, <1>5

-----------------------------------------------------------------------------
(* What a download has saved and what its receipts say. *)

\* A request that a walk comes to; one that is made is such a request, and so are
\* those the receipts are about.
Reaches(idx, q) ==
    \E s : IsPath(idx, q.chain, s) /\ IsOpen(s) /\ q.token = Tok(s, Len(s) + 1)
IsReceipt(idx, x, refusals) ==
    /\ x.page = Page(x.page.chain, x.page.token) /\ x.page.chain \in References \cup Chunks
    /\ Reaches(idx, x.page)
    /\ refusals = {} /\ x.body # NoBody =>
         x.page \in DOMAIN idx.pages /\ x.body = idx.pages[x.page]
Receipted(idx, refusals) ==
    /\ \A x \in idx.receipts : IsReceipt(idx, x, refusals)
    /\ \A q \in DOMAIN idx.pages : Receipt(q, idx.pages[q]) \in idx.receipts

\* A process has saved what it is about to name, and its receipts are about its page.
Sends(r, saved, refusals) ==
    LET q == Page(r.chain, r.token) IN
    /\ r.step \in {"save", "checkpoint"} =>
         /\ Receipt(q, r.body) \in r.receipts
         /\ r.receipts \subseteq {Receipt(q, r.body), Receipt(q, NoBody)}
         /\ r.body.grade = "refused" => refusals # {}
    /\ r.step = "checkpoint" /\ r.body.grade \in {"clean", "defective"} =>
         PageObject(q, r.body) \in saved
    /\ r.step = "name" => ChunkObject(r.chain, r.read) \in saved
IsStored(idx, saved) ==
    /\ \A q \in DOMAIN idx.pages : PageObject(q, idx.pages[q]) \in saved
    /\ \A c \in DOMAIN idx.chunks : ChunkObject(c, idx.chunks[c]) \in saved
OInv == /\ IsStored(index, objects) /\ Receipted(index, refused)
        /\ \A p \in Procs : Sends(run[p], objects, refused)

LEMMA OnlyMore ==
  ASSUME [Next]_vars
  PROVE  objects \subseteq objects' /\ (refused # {} => refused' # {})
<1>1. CASE UNCHANGED vars BY <1>1 DEF vars
<1>2. CASE Next
  BY <1>2
  DEF Next, Download, Cached, Answer, SavePage, CheckpointPage, SaveChunk, NameChunk,
      Release, AuditReferences, AuditChunks, Judge, Freeze, FreezeRefused, Publish, Kill
<1>. QED BY <1>1, <1>2

LEMMA SendersKept ==
  ASSUME IInv, OInv, Next, NEW p \in Procs, NEW r, Set(p, r), Sends(r, objects', refused'),
         Receipted(index', refused'), IsStored(index', objects')
  PROVE  OInv'
<1>1. run'[p] = r /\ \A q \in Procs : q # p => run'[q] = run[q] BY NewRun
<1>2. \A q \in Procs : Sends(run[q], objects, refused) => Sends(run[q], objects', refused')
  BY OnlyMore DEF Sends
<1>3. \A q \in Procs : Sends(run'[q], objects', refused') BY <1>1, <1>2 DEF OInv
<1>. QED BY <1>3 DEF OInv

LEMMA SameSends ==
  ASSUME IInv, OInv, Next, NEW p \in Procs, NEW r, Set(p, r), Sends(r, objects', refused'),
         index' = index
  PROVE  OInv'
<1>1. Receipted(index, refused) => Receipted(index, refused')
  BY OnlyMore DEF Receipted, IsReceipt
<1>2. IsStored(index, objects) => IsStored(index, objects') BY OnlyMore DEF IsStored
<1>. QED BY <1>1, <1>2, SendersKept DEF OInv

LEMMA QuietSends ==
  ASSUME IInv, OInv, Next, NEW p \in Procs, NEW r, Set(p, r),
         r.step \notin {"save", "checkpoint", "name"}, index' = index
  PROVE  OInv'
  BY SameSends DEF Sends

LEMMA InitSends == Init => OInv
<1>. SUFFICES ASSUME Init PROVE OInv OBVIOUS
<1>1. \A p \in Procs : Sends(run[p], objects, refused) BY DEF Init, Idle, Sends
<1>2. DOMAIN index.pages = {} /\ DOMAIN index.chunks = {} /\ index.receipts = {}
  BY DEF Init, NoIndex
<1>. QED BY <1>1, <1>2 DEF OInv, IsStored, Receipted

LEMMA DownloadSends ==
  ASSUME IInv, OInv, Next, NEW p \in Procs, Download(p) \/ Cached(p)
  PROVE  OInv'
<1>1. IsRun(run[p]) BY DEF IInv, Own
<1>2. CASE Download(p)
  <2>. DEFINE r == [Idle EXCEPT !.step = "page", !.chain = Min(References)]
  <2>1. r.step = "page" BY DEF Idle
  <2>2. Set(p, r) /\ index' = index BY <1>2 DEF Download
  <2>. HIDE DEF r
  <2>. QED BY <2>1, <2>2, QuietSends
<1>3. CASE Cached(p)
  <2>. DEFINE n == Turned(run[p], index.pages[Here(p)])
              r == [run[p] EXCEPT !.step = "release"]
  <2>1. run[p].step = "page" /\ index' = index BY <1>3 DEF Cached, At
  <2>2. n.step \in {"page", "chunk", "release"}
    BY <1>1, <2>1, TurnIsPending DEF IInv, Own, Pending
  <2>3. r.step = "release" BY <1>1 DEF IsRun
  <2>4. Set(p, n) \/ Set(p, r) BY <1>3 DEF Cached
  <2>. HIDE DEF n, r
  <2>. QED BY <2>1, <2>2, <2>3, <2>4, QuietSends
<1>. QED BY <1>2, <1>3

LEMMA AnswerSends ==
  ASSUME IInv, OInv, Next, NEW p \in Procs, Answer(p)
  PROVE  OInv'
<1>1. IsRun(run[p]) BY DEF IInv, Own
<1>2. \E body \in Bodies \cup {NoBody} : \E sent :
        /\ Receipt(Here(p), body) \in sent
        /\ sent \subseteq {Receipt(Here(p), body), Receipt(Here(p), NoBody)}
        /\ body.grade = "refused" => refused' # {}
        /\ Set(p, [run[p] EXCEPT !.copy = index, !.body = body, !.receipts = sent,
                     !.step = IF body.grade \in {"clean", "defective"}
                                THEN "save" ELSE "checkpoint"])
  <2>1. PICK body \in Bodies \cup {NoBody}, retried \in BOOLEAN :
          /\ refused' = IF body.grade = "refused" THEN refused \cup {Here(p)} ELSE refused
          /\ Set(p, [run[p] EXCEPT !.copy = index, !.body = body,
                    !.receipts = {Receipt(Here(p), body)}
                       \cup (IF retried THEN {Receipt(Here(p), NoBody)} ELSE {}),
                    !.step = IF body.grade \in {"clean", "defective"}
                               THEN "save" ELSE "checkpoint"])
    BY DEF Answer
  <2>2. body.grade = "refused" => refused' # {} BY <2>1
  <2>. QED BY <2>1, <2>2
<1>a. PICK body \in Bodies \cup {NoBody} : \E sent :
        /\ Receipt(Here(p), body) \in sent
        /\ sent \subseteq {Receipt(Here(p), body), Receipt(Here(p), NoBody)}
        /\ body.grade = "refused" => refused' # {}
        /\ Set(p, [run[p] EXCEPT !.copy = index, !.body = body, !.receipts = sent,
                     !.step = IF body.grade \in {"clean", "defective"}
                                THEN "save" ELSE "checkpoint"])
  BY <1>2
<1>3. PICK sent :
        /\ Receipt(Here(p), body) \in sent
        /\ sent \subseteq {Receipt(Here(p), body), Receipt(Here(p), NoBody)}
        /\ body.grade = "refused" => refused' # {}
        /\ Set(p, [run[p] EXCEPT !.copy = index, !.body = body, !.receipts = sent,
                     !.step = IF body.grade \in {"clean", "defective"}
                                THEN "save" ELSE "checkpoint"])
  BY <1>a
<1>. DEFINE next == IF body.grade \in {"clean", "defective"} THEN "save" ELSE "checkpoint"
            r == [run[p] EXCEPT !.copy = index, !.body = body, !.receipts = sent,
                                !.step = next]
<1>4. next \in {"save", "checkpoint"} /\ (body.grade \in {"clean", "defective"} => next = "save")
  OBVIOUS
<1>5. Set(p, r) BY <1>3
<1>. HIDE DEF next
<1>6. /\ r.step = next /\ r.body = body /\ r.chain = run[p].chain
      /\ r.token = run[p].token /\ r.receipts = sent
  BY <1>1 DEF IsRun
<1>. HIDE DEF r
<1>7. Page(r.chain, r.token) = Here(p) BY <1>6 DEF Here
<1>8. Sends(r, objects', refused') BY <1>3, <1>4, <1>6, <1>7 DEF Sends
<1>. QED BY <1>5, <1>8, SameSends DEF Answer

LEMMA SaveSends ==
  ASSUME IInv, OInv, Next, NEW p \in Procs, SavePage(p) \/ SaveChunk(p)
  PROVE  OInv'
<1>1. IsRun(run[p]) /\ Sends(run[p], objects, refused) BY DEF IInv, Own, OInv
<1>2. CASE SavePage(p)
  <2>. DEFINE r == [run[p] EXCEPT !.step = "checkpoint"]
  <2>1. /\ run[p].step = "save" /\ index' = index /\ refused' = refused /\ Set(p, r)
        /\ PageObject(Here(p), run[p].body) \in objects'
    BY <1>2 DEF SavePage, At
  <2>2. /\ r.step = "checkpoint" /\ r.body = run[p].body /\ r.chain = run[p].chain
        /\ r.token = run[p].token /\ r.receipts = run[p].receipts
    BY <1>1 DEF IsRun
  <2>. HIDE DEF r
  <2>3. Page(r.chain, r.token) = Here(p) BY <2>2 DEF Here
  <2>4. Sends(r, objects', refused') BY <1>1, <2>1, <2>2, <2>3 DEF Sends, Here
  <2>. QED BY <2>1, <2>4, SameSends
<1>3. CASE SaveChunk(p)
  <2>. DEFINE r == [run[p] EXCEPT !.step = "name", !.copy = index]
  <2>1. /\ index' = index /\ Set(p, r)
        /\ ChunkObject(run[p].chain, run[p].read) \in objects'
    BY <1>3 DEF SaveChunk
  <2>2. r.step = "name" /\ r.chain = run[p].chain /\ r.read = run[p].read BY <1>1 DEF IsRun
  <2>. HIDE DEF r
  <2>3. Sends(r, objects', refused') BY <2>1, <2>2 DEF Sends
  <2>. QED BY <2>1, <2>3, SameSends
<1>. QED BY <1>2, <1>3

LEMMA ReachesGrows ==
  ASSUME NEW idx, NEW idx2, Grown(idx, idx2)
  PROVE  \A q : Reaches(idx, q) => Reaches(idx2, q)
  BY PathGrows DEF Reaches

LEMMA CheckpointPageSends ==
  ASSUME IInv, WInv, OInv, Next, NEW p \in Procs, CheckpointPage(p)
  PROVE  OInv'
<1>. DEFINE body == run[p].body
            sent == run[p].receipts
            page == Here(p)
            good == body.grade \in {"clean", "defective"}
            r == [run[p] EXCEPT !.receipts = {}, !.copy = NoIndex, !.body = NoBody]
            n == Turned(r, body)
            stop == [run[p] EXCEPT !.step = "release"]
<1>1. /\ index'.pages = Named(run[p], page) /\ index'.chunks = index.chunks
      /\ run[p].copy = index /\ page \notin DOMAIN index.pages
      /\ page = Page(run[p].chain, run[p].token) /\ run[p].chain \in References \cup Chunks
      /\ IsPath(index, run[p].chain, run[p].read) /\ IsOpen(run[p].read)
      /\ run[p].token = Tok(run[p].read, Len(run[p].read) + 1)
      /\ body \in Bodies \cup {NoBody}
  BY AtPage
<1>2. index'.receipts = index.receipts \cup sent
  <2>. DEFINE pages == Named(run[p], page)
              receipts == index.receipts \cup sent
  <2>1. index' = [pages |-> pages, chunks |-> index.chunks, receipts |-> receipts]
    BY CheckpointWritten
  <2>. HIDE DEF pages, receipts
  <2>2. index'.receipts = receipts BY <2>1
  <2>. QED BY <2>2 DEF receipts
<1>3. Sends(run[p], objects, refused) /\ run[p].step = "checkpoint"
  BY DEF OInv, CheckpointPage, At
<1>4. /\ Receipt(page, body) \in sent
      /\ sent \subseteq {Receipt(page, body), Receipt(page, NoBody)}
      /\ body.grade = "refused" => refused # {}
      /\ good => PageObject(page, body) \in objects
  BY <1>1, <1>3 DEF Sends
<1>5. objects' = objects /\ refused' = refused BY DEF CheckpointPage
<1>6. /\ good => /\ DOMAIN index'.pages = DOMAIN index.pages \cup {page}
                 /\ index'.pages[page] = body
      /\ ~good => DOMAIN index'.pages = DOMAIN index.pages
      /\ \A q \in DOMAIN index.pages : index'.pages[q] = index.pages[q]
  <2>. HIDE DEF page
  <2>1. CASE good BY <1>1, <2>1 DEF Named
  <2>2. CASE ~good BY <1>1, <2>2 DEF Named
  <2>. QED BY <2>1, <2>2
<1>7. page.chain = run[p].chain /\ page.token = run[p].token BY <1>1 DEF Page
<1>8. IsStored(index', objects')
  <2>1. IsStored(index, objects) BY DEF OInv
  <2>. HIDE DEF page, body
  <2>. QED BY <1>1, <1>4, <1>5, <1>6, <2>1 DEF IsStored
<1>9. Receipted(index', refused')
  <2>1. Grown(index, index') BY IndexGrows
  <2>2. Receipted(index, refused) BY DEF OInv
  <2>3. ASSUME NEW x \in index.receipts PROVE IsReceipt(index', x, refused')
    <3>1. IsReceipt(index, x, refused) BY <2>2 DEF Receipted
    <3>2. Reaches(index', x.page) BY <2>1, <3>1, ReachesGrows DEF IsReceipt
    <3>. QED BY <1>5, <2>1, <3>1, <3>2 DEF IsReceipt, Grown
  <2>4. ASSUME NEW x \in sent PROVE IsReceipt(index', x, refused')
    <3>1. x.page = page /\ x.body \in {body, NoBody} BY <1>4 DEF Receipt
    <3>2. Reaches(index, page) BY <1>1, <1>7 DEF Reaches
    <3>3. Reaches(index', page) BY <2>1, <3>2, ReachesGrows
    <3>4. refused' = {} /\ x.body # NoBody => good
      <4>1. body \in Bodies /\ body.grade # "refused" => good BY DEF Bodies
      <4>. QED BY <1>1, <1>4, <1>5, <3>1, <4>1
    <3>5. page = Page(page.chain, page.token) BY <1>1, <1>7
    <3>. HIDE DEF page, body, good
    <3>6. good => page \in DOMAIN index'.pages BY <1>6
    <3>. QED BY <1>1, <1>6, <1>7, <3>1, <3>3, <3>4, <3>5, <3>6 DEF IsReceipt
  <2>5. ASSUME NEW q \in DOMAIN index'.pages
        PROVE  Receipt(q, index'.pages[q]) \in index'.receipts
    <3>. HIDE DEF page, body, sent
    <3>1. CASE q \in DOMAIN index.pages
      <4>1. Receipt(q, index.pages[q]) \in index.receipts BY <2>2, <3>1 DEF Receipted
      <4>2. index'.pages[q] = index.pages[q] BY <1>6, <3>1
      <4>. QED BY <1>2, <4>1, <4>2
    <3>2. CASE q \notin DOMAIN index.pages
      <4>1. good /\ q = page BY <1>6, <3>2
      <4>. QED BY <1>2, <1>4, <1>6, <4>1
    <3>. QED BY <3>1, <3>2
  <2>. QED BY <1>2, <2>3, <2>4, <2>5 DEF Receipted
<1>10. \/ Set(p, n) /\ n.step \in {"page", "chunk", "release"}
       \/ Set(p, stop) /\ stop.step = "release"
  <2>1. /\ IsRun(r) /\ r.chain \in (References \cup Chunks) \ DOMAIN index.chunks
        /\ stop.step = "release"
    BY CheckpointWritten DEF IsRun
  <2>2. Set(p, n) \/ Set(p, stop) BY DEF CheckpointPage
  <2>. HIDE DEF r, stop
  <2>. QED BY <2>1, <2>2, TurnIsPending
<1>. HIDE DEF n, stop
<1>11. Sends(n, objects', refused') \/ n.step \notin {"page", "chunk", "release"} BY DEF Sends
<1>12. Sends(stop, objects', refused') \/ stop.step # "release" BY DEF Sends
<1>. QED BY <1>8, <1>9, <1>10, <1>11, <1>12, SendersKept

LEMMA NameChunkSends ==
  ASSUME IInv, WInv, OInv, Next, NEW p \in Procs, NameChunk(p)
  PROVE  OInv'
<1>. DEFINE c == run[p].chain
            s == run[p].read
            chunks == [d \in DOMAIN index.chunks \cup {c} |-> IF d = c THEN s ELSE index.chunks[d]]
            r == [run[p] EXCEPT !.copy = NoIndex]
            n == NextChain(c, index', r)
            stop == [run[p] EXCEPT !.step = "release"]
<1>1. index' = [pages |-> index.pages, receipts |-> index.receipts, chunks |-> chunks]
  BY ChunkNamed
<1>2. /\ DOMAIN chunks = DOMAIN index.chunks \cup {c} /\ chunks[c] = s
      /\ \A d \in DOMAIN index.chunks : d # c => chunks[d] = index.chunks[d]
  OBVIOUS
<1>. HIDE DEF chunks
<1>3. index'.pages = index.pages /\ index'.receipts = index.receipts /\ index'.chunks = chunks
  BY <1>1
<1>4. ChunkObject(c, s) \in objects BY DEF OInv, Sends, NameChunk, At
<1>5. objects' = objects /\ refused' = refused BY DEF NameChunk
<1>. HIDE DEF c, s
<1>6. IsStored(index', objects') BY <1>2, <1>3, <1>4, <1>5 DEF OInv, IsStored
<1>7. Receipted(index', refused')
  <2>1. \A q : Reaches(index, q) => Reaches(index', q) BY IndexGrows, ReachesGrows
  <2>. QED BY <1>3, <1>5, <2>1 DEF OInv, Receipted, IsReceipt
<1>8. \/ Set(p, n) /\ n.step \in {"page", "release"}
      \/ Set(p, stop) /\ stop.step = "release"
  <2>1. IsRun(r) /\ stop.step = "release" BY DEF IInv, Own, IsRun
  <2>2. Set(p, n) \/ Set(p, stop) BY DEF NameChunk, c
  <2>. HIDE DEF r, stop
  <2>. QED BY <2>1, <2>2, NextIsPending
<1>. HIDE DEF n, stop
<1>9. Sends(n, objects', refused') \/ n.step \notin {"page", "release"} BY DEF Sends
<1>10. Sends(stop, objects', refused') \/ stop.step # "release" BY DEF Sends
<1>. QED BY <1>6, <1>7, <1>8, <1>9, <1>10, SendersKept

LEMMA OutsideSends ==
  ASSUME IInv, OInv, Next, NEW p \in Procs,
         \/ Release(p) \/ AuditReferences(p) \/ AuditChunks(p) \/ Judge(p)
         \/ Freeze(p) \/ FreezeRefused(p) \/ Publish(p) \/ Kill(p)
  PROVE  OInv'
<1>1. index' = index
  BY DEF Release, AuditReferences, AuditChunks, Judge, Freeze, FreezeRefused, Publish, Kill
<1>2. IsRun(run[p]) BY DEF IInv, Own
<1>3. CASE Release(p) \/ FreezeRefused(p) \/ Kill(p)
  <2>1. Set(p, Idle) BY <1>3 DEF Release, FreezeRefused, Kill
  <2>. QED BY <1>1, <2>1, IdleIsRun, QuietSends
<1>4. CASE AuditReferences(p)
  <2>. DEFINE pages == Restrict(index.pages, PagesOf(index, References))
              r == [Idle EXCEPT !.step = "audit", !.report.pages = pages]
  <2>1. r.step = "audit" BY DEF Idle
  <2>2. Set(p, r) BY <1>4 DEF AuditReferences
  <2>. HIDE DEF r
  <2>. QED BY <1>1, <2>1, <2>2, QuietSends
<1>5. CASE AuditChunks(p)
  <2>. DEFINE r == [run[p] EXCEPT !.step = "judge", !.report.chunks = index.chunks]
  <2>1. r.step = "judge" BY <1>2 DEF IsRun
  <2>2. Set(p, r) BY <1>5 DEF AuditChunks
  <2>. HIDE DEF r
  <2>. QED BY <1>1, <2>1, <2>2, QuietSends
<1>6. CASE Judge(p)
  <2>. DEFINE yes == Accepted(run[p].report, index)
              r == [run[p] EXCEPT !.step = "freeze", !.report.accepted = yes]
  <2>1. r.step = "freeze" BY <1>2 DEF IsRun
  <2>2. Set(p, r) \/ Set(p, Idle) BY <1>6 DEF Judge
  <2>. HIDE DEF r
  <2>. QED BY <1>1, <2>1, <2>2, IdleIsRun, QuietSends
<1>7. CASE Freeze(p)
  <2>1. PICK next \in {"preserve", "publish"} :
          Set(p, [run[p] EXCEPT !.copy = index, !.step = next])
    <3>1. \E next \in {"preserve", "publish"} :
            Set(p, [run[p] EXCEPT !.copy = index, !.step = next])
      BY <1>7 DEF Freeze
    <3>. QED BY <3>1
  <2>. DEFINE r == [run[p] EXCEPT !.copy = index, !.step = next]
  <2>2. r.step = next /\ Set(p, r) BY <1>2, <2>1 DEF IsRun
  <2>. HIDE DEF r
  <2>. QED BY <1>1, <2>2, QuietSends
<1>8. CASE Publish(p)
  <2>. DEFINE r == [run[p] EXCEPT !.step = "release"]
  <2>1. r.step = "release" /\ Set(p, r) BY <1>2, <1>8 DEF IsRun, Publish
  <2>. HIDE DEF r
  <2>. QED BY <1>1, <2>1, QuietSends
<1>. QED BY <1>3, <1>4, <1>5, <1>6, <1>7, <1>8

LEMMA NextSends == IInv /\ WInv /\ OInv /\ [Next]_vars => OInv'
<1>. SUFFICES ASSUME IInv, WInv, OInv, [Next]_vars PROVE OInv' OBVIOUS
<1>1. CASE UNCHANGED vars
  <2>1. index' = index /\ run' = run /\ objects' = objects /\ refused' = refused
    BY <1>1 DEF vars
  <2>. QED BY <2>1 DEF OInv
<1>2. CASE Next
  BY <1>2, DownloadSends, AnswerSends, SaveSends, CheckpointPageSends, NameChunkSends,
     OutsideSends
  DEF Next
<1>. QED BY <1>1, <1>2

LEMMA Senders == Spec => []OInv
  BY Invariance, Walkers, InitSends, NextSends, PTL DEF Spec

\* A request that is reached in a chain that is done is named.
LEMMA DoneIsNamed ==
  ASSUME NEW idx, NEW q, q = Page(q.chain, q.token), Reaches(idx, q), Done(idx, q.chain)
  PROVE  q \in DOMAIN idx.pages
<1>1. PICK t : IsPath(idx, q.chain, t) /\ IsOpen(t) /\ q.token = Tok(t, Len(t) + 1)
  BY DEF Reaches
<1>2. PICK s : IsPath(idx, q.chain, s) /\ Whole(s) BY DEF Done
<1>. QED BY <1>1, <1>2, AtTheEnd

LEMMA CompletedVerifies == IInv /\ WInv /\ OInv => DownloadVerifies
<1>. SUFFICES ASSUME IInv, WInv, OInv, DOMAIN index.chunks = Chunks, refused = {},
                     \A q \in PagesOf(index, {Actions}) : index.pages[q].next = 0
              PROVE  VerifyCompleted(index)
  BY DEF DownloadVerifies
<1>1. Stored(index) \subseteq objects BY DEF OInv, IsStored, Stored
<1>2. \A q \in DOMAIN index.pages :
        /\ index.pages[q] \in Bodies /\ q = Page(q.chain, q.token)
        /\ q.chain \in References \cup Chunks
  BY DEF WInv, Paths, IsNamed
<1>3. ASSUME NEW c \in Chunks
      PROVE  /\ IsPath(index, c, index.chunks[c]) /\ Whole(index.chunks[c])
             /\ Chain(index, c) = index.chunks[c]
  <2>1. /\ IsPath(index, c, index.chunks[c]) /\ Whole(index.chunks[c])
        /\ Len(index.chunks[c]) =< MaxPages
    BY DEF WInv, Paths, IsFilled
  <2>. QED BY <1>2, <2>1, ChainOfWhole
<1>4. ASSUME NEW q \in PagesOf(index, Chunks)
      PROVE  q.token \in {0} \cup Tokens(Chain(index, q.chain))
  <2>. DEFINE c == q.chain
              s == index.chunks[c]
  <2>1. c \in Chunks /\ q \in DOMAIN index.pages BY DEF PagesOf
  <2>2. IsPath(index, c, s) /\ Whole(s) /\ Chain(index, c) = s BY <1>3, <2>1
  <2>3. PICK u : IsPath(index, c, u) /\ Covers(index, c, u) BY <2>1 DEF WInv, Paths
  <2>4. Covers(index, c, s) BY <2>2, <2>3, WholeIsLongest, CoversMore
  <2>5. PICK i \in 1 .. Len(s) : q.token = Tok(s, i) BY <2>1, <2>4 DEF Covers
  <2>6. Len(s) \in Nat BY <2>2 DEF IsPath
  <2>. HIDE DEF s
  <2>7. CASE i = 1 BY <2>5, <2>7 DEF Tok
  <2>8. CASE i # 1
    <3>1. i - 1 \in 1 .. Len(s) /\ q.token = s[i - 1].next BY <2>5, <2>6, <2>8 DEF Tok
    <3>2. q.token \in Tokens(s) BY <3>1 DEF Tokens
    <3>. QED BY <2>2, <3>2
  <2>. QED BY <2>7, <2>8
<1>5. \A c \in References \cup Chunks : Done(index, c)
  <2>1. \A c \in Chunks : Done(index, c) BY <1>3 DEF Done
  <2>2. PICK c \in Chunks : TRUE BY ArchiveAssumption
  <2>3. \A d \in References : Done(index, d) BY <2>2 DEF WInv, Paths, IsFilled
  <2>. QED BY <2>1, <2>3
<1>6. VerifyReceipts(index)
  <2>1. \A x \in index.receipts : IsReceipt(index, x, refused) BY DEF OInv, Receipted
  <2>2. \A x \in index.receipts : x.page \in DOMAIN index.pages
    BY <1>5, <2>1, DoneIsNamed DEF IsReceipt
  <2>3. \A x \in index.receipts : x.body # NoBody => x.body = index.pages[x.page]
    BY <2>1 DEF IsReceipt
  <2>4. \A q \in DOMAIN index.pages : Receipt(q, index.pages[q]) \in index.receipts
    BY DEF OInv, Receipted
  <2>. QED BY <2>2, <2>3, <2>4 DEF VerifyReceipts
<1>. QED BY <1>1, <1>3, <1>4, <1>6 DEF VerifyCompleted

\* A download that has named every chunk verifies, whatever was killed, retried
\* and resumed on the way (Downloader._run and page; finalization.verify_completed).
THEOREM Verifies == Spec => []DownloadVerifies
  BY Invariance, Walkers, Senders, CompletedVerifies, PTL
=============================================================================
