--------------------------- MODULE ArchiveDownload ---------------------------
(* The dataset archive of trading_research: the checkpointed download         *)
(* (downloader.py), the audit and the frozen snapshot (coverage.py,           *)
(* archive.py, restore.py), the verification of a completed download          *)
(* (finalization.py) and the object cache below them (dataset_cache.py).      *)
(*                                                                            *)
(* Several processes work on one archive directory.  They share its files,    *)
(* may be killed between any two writes, and only an operating-system lock    *)
(* keeps them apart.  Every file is published by a rename, so a file is there *)
(* whole or not at all; objects are named by their content, so a reference in *)
(* the checkpoint is modelled by the content it names.                        *)
EXTENDS Integers, Sequences, FiniteSets, FiniteSetsExt, SequencesExt, Functions

CONSTANTS
    Procs, Nobody,
    References,  \* calendar, corporate actions, assets, in that order, and
    Actions,     \* the one of them that has pages; numbers below Chunks
    Chunks,      \* symbol months, numbered in the order of the plan
    Cursors,     \* page tokens of the provider; 0 stands for none
    MaxPages,    \* pages of one chain: 100 in the code
    MaxFaults    \* bound: kills, failed attempts, bad answers

ASSUME ArchiveAssumption ==
    /\ References \cup Chunks \cup Cursors \subseteq Nat \ {0}
    /\ IsFiniteSet(References \cup Chunks) /\ Actions \in References /\ Chunks # {}
    /\ \E r \in References : Actions < r
    /\ \A r \in References, c \in Chunks : r < c
    /\ MaxPages \in Nat \ {0} /\ MaxFaults \in Nat
    /\ Nobody \notin Procs

VARIABLES
    index,      \* checkpoint.json
    objects,    \* the objects published in the cache
    lock,       \* holder of writer.lock, or Nobody
    run,        \* what each process is doing
    snapshots,  \* frozen snapshots
    refused,    \* history: requests with a complete answer that was refused
    faults

vars == <<index, objects, lock, run, snapshots, refused, faults>>

-----------------------------------------------------------------------------
(* Requests, answers and objects.                                             *)

\* A page of a chain: its request parameters are the chain's and a token.
Page(c, t) == [chain |-> c, token |-> t]

\* A body has rows, clean or with provider defects, and the next token.  The
\* rows of a refused body are out of sample, out of range or of another symbol.
Bodies == [next : {0} \cup Cursors, grade : {"clean", "defective", "refused"}]
NoBody == [next |-> 0, grade |-> "none"]
Receipt(page, body) == [page |-> page, body |-> body]

NoIndex == [pages |-> <<>>, chunks |-> <<>>, receipts |-> {}]

PageObject(page, body) == [page |-> page, body |-> body]
ChunkObject(c, rows) == [chunk |-> c, rows |-> rows]
Stored(idx) == {PageObject(p, idx.pages[p]) : p \in DOMAIN idx.pages}
                 \cup {ChunkObject(c, idx.chunks[c]) : c \in DOMAIN idx.chunks}

\* The bodies of a chain as far as the checkpoint names them, and whether they
\* reach the last page (pages; verify_completed walks the same chain).
Chain(idx, c) ==
    LET walk[s \in Seq(Bodies)] ==
          LET page == Page(c, IF s = <<>> THEN 0 ELSE Last(s).next) IN
            IF \/ s # <<>> /\ Last(s).next = 0
               \/ page \notin DOMAIN idx.pages
               \/ Len(s) > MaxPages
              THEN s
              ELSE walk[Append(s, idx.pages[page])]
    IN  walk[<<>>]
Whole(s) == s # <<>> /\ Last(s).next = 0
Tokens(s) == {s[i].next : i \in 1 .. Len(s)}

-----------------------------------------------------------------------------
(* A process.                                                                 *)

\* copy is the checkpoint it read last, report what its audit has read.
NoReport == [pages |-> <<>>, chunks |-> <<>>, accepted |-> FALSE]
Idle == [step |-> "idle", chain |-> 0, token |-> 0, read |-> <<>>,
         copy |-> NoIndex, body |-> NoBody, receipts |-> {}, report |-> NoReport]

Init ==
    /\ index = NoIndex /\ objects = {} /\ snapshots = {} /\ refused = {}
    /\ lock = Nobody
    /\ run = [p \in Procs |-> Idle]
    /\ faults = 0

At(p, s) == run[p].step = s
Set(p, r) == run' = [run EXCEPT ![p] = r]

AnyTime(p) == TRUE  \* mutant: the lock excludes nobody
\* Archive.writer: taken at once or ARCHIVE_WRITER_BUSY.
LockFree(p) == lock = Nobody

\* dataset-download and dataset-resume: Downloader.run.
Download(p) ==
    /\ At(p, "idle") /\ LockFree(p)
    /\ lock' = p
    /\ Set(p, [Idle EXCEPT !.step = "page", !.chain = Min(References)])
    /\ UNCHANGED <<index, objects, snapshots, refused, faults>>

\* The next chain of _run: every reference, then the chunks not yet named.
Following(c, idx) ==
    {d \in References \cup Chunks : d > c /\ d \notin DOMAIN idx.chunks}
NextChain(c, idx, r) ==
    IF Following(c, idx) = {} THEN [r EXCEPT !.step = "release"]
    ELSE [r EXCEPT !.step = "page", !.chain = Min(Following(c, idx)),
                   !.token = 0, !.read = <<>>]

CutOff(r, body) ==  \* mutant: a chain cut off at the page limit counts as whole
    LET s == Append(r.read, body) IN
      IF body.next = 0 \/ Len(s) >= MaxPages THEN
        IF r.chain \in References THEN NextChain(r.chain, index, [r EXCEPT !.read = s])
        ELSE [r EXCEPT !.read = s, !.step = "chunk"]
      ELSE IF body.next \in Tokens(r.read) THEN [r EXCEPT !.step = "release"]
      ELSE [r EXCEPT !.read = s, !.token = body.next, !.step = "page"]

\* The loop of pages after one body: the chain ends, turns back on itself
\* (ARCHIVE_PAGINATION_LOOP), is too long (..._INCOMPLETE), or goes on.
Turned(r, body) ==
    LET s == Append(r.read, body) IN
      IF body.next = 0 THEN
        IF r.chain \in References THEN NextChain(r.chain, index, [r EXCEPT !.read = s])
        ELSE [r EXCEPT !.read = s, !.step = "chunk"]
      ELSE IF body.next \in Tokens(r.read) \/ Len(s) >= MaxPages
        THEN [r EXCEPT !.step = "release"]
      ELSE [r EXCEPT !.read = s, !.token = body.next, !.step = "page"]

Here(p) == Page(run[p].chain, run[p].token)

\* page, for a request the checkpoint names: read_object.
Cached(p) ==
    /\ At(p, "page") /\ Here(p) \in DOMAIN index.pages
    /\ Set(p, IF PageObject(Here(p), index.pages[Here(p)]) \in objects
                THEN Turned(run[p], index.pages[Here(p)])
                ELSE [run[p] EXCEPT !.step = "release"])
    /\ UNCHANGED <<index, objects, lock, snapshots, refused, faults>>

\* page, otherwise: it has read the checkpoint when provider.get answers, after
\* retries of its own.  An attempt without a body leaves a receipt too.
Answer(p) ==
    /\ At(p, "page") /\ Here(p) \notin DOMAIN index.pages
    /\ \E body \in Bodies \cup {NoBody}, retried \in BOOLEAN :
         LET bad == retried \/ body.grade # "clean"
             sent == {Receipt(Here(p), body)}
                       \cup (IF retried THEN {Receipt(Here(p), NoBody)} ELSE {})
         IN  /\ body.next # 0 => run[p].chain \in Chunks \cup {Actions}
             /\ faults' = faults + (IF bad THEN 1 ELSE 0)
             /\ faults' <= MaxFaults
             /\ refused' = IF body.grade = "refused" THEN refused \cup {Here(p)}
                           ELSE refused
             /\ Set(p, [run[p] EXCEPT !.copy = index, !.body = body,
                          !.receipts = sent,
                          !.step = IF body.grade \in {"clean", "defective"}
                                     THEN "save" ELSE "checkpoint"])
    /\ UNCHANGED <<index, objects, lock, snapshots>>

\* save_object and DatasetCache.freeze: an object that is there stays.
SavePage(p) ==
    /\ At(p, "save")
    /\ objects' = objects \cup {PageObject(Here(p), run[p].body)}
    /\ Set(p, [run[p] EXCEPT !.step = "checkpoint"])
    /\ UNCHANGED <<index, lock, snapshots, refused, faults>>

\* The requests the checkpoint names once it is written: one more, if the page
\* was saved.
Named(r, page) ==
    IF r.body.grade \in {"clean", "defective"}
      THEN [q \in DOMAIN r.copy.pages \cup {page} |->
              IF q = page THEN r.body ELSE r.copy.pages[q]]
      ELSE r.copy.pages

\* The finally of page: receipts and checkpoint, whatever happened; then the
\* exception, or the next page.
CheckpointPage(p) ==
    /\ At(p, "checkpoint")
    /\ LET r == run[p]
           idx == [r.copy EXCEPT !.pages = Named(r, Here(p)),
                                 !.receipts = @ \cup r.receipts]
       IN  /\ index' = idx
           /\ Set(p, IF r.body.grade \in {"clean", "defective"}
                       THEN Turned([r EXCEPT !.receipts = {}, !.copy = NoIndex,
                                                !.body = NoBody], r.body)
                       ELSE [r EXCEPT !.step = "release"])
    /\ UNCHANGED <<objects, lock, snapshots, refused, faults>>

\* _run with all pages of a chunk: the checkpoint is read again, the chunk's
\* object is saved ...
SaveChunk(p) ==
    /\ At(p, "chunk")
    /\ objects' = objects \cup {ChunkObject(run[p].chain, run[p].read)}
    /\ Set(p, [run[p] EXCEPT !.step = "name", !.copy = index])
    /\ UNCHANGED <<index, lock, snapshots, refused, faults>>

\* ... and named; the run ends with its plan or its max_chunks.
NameChunk(p) ==
    /\ At(p, "name")
    /\ LET r == run[p]
           idx == [r.copy EXCEPT !.chunks =
                     [c \in DOMAIN r.copy.chunks \cup {r.chain} |->
                        IF c = r.chain THEN r.read ELSE r.copy.chunks[c]]]
       IN  /\ index' = idx
           /\ \E more \in BOOLEAN :
                Set(p, IF more THEN NextChain(r.chain, idx, [r EXCEPT !.copy = NoIndex])
                       ELSE [r EXCEPT !.step = "release"])
    /\ UNCHANGED <<objects, lock, snapshots, refused, faults>>

\* The finally of writer.
Release(p) ==
    /\ At(p, "release")
    /\ lock' = Nobody
    /\ Set(p, Idle)
    /\ UNCHANGED <<index, objects, snapshots, refused, faults>>

-----------------------------------------------------------------------------
(* Audit and freeze: dataset-audit and dataset-freeze.                        *)

PagesOf(idx, chains) == {q \in DOMAIN idx.pages : q.chain \in chains}
Clean(rows) == \A i \in DOMAIN rows : rows[i].grade = "clean"

\* audit_archive reads the references without the lock; no calendar, no audit.
AuditReferences(p) ==
    /\ At(p, "idle")
    /\ PagesOf(index, {Min(References)}) # {}
    /\ Set(p, [Idle EXCEPT !.step = "audit",
                 !.report.pages = Restrict(index.pages, PagesOf(index, References))])
    /\ UNCHANGED <<index, objects, lock, snapshots, refused, faults>>

\* It reads the chunks that are there by then ...
AuditChunks(p) ==
    /\ At(p, "audit")
    /\ Set(p, [run[p] EXCEPT !.step = "judge", !.report.chunks = index.chunks])
    /\ UNCHANGED <<index, objects, lock, snapshots, refused, faults>>

NoGapRule(r, idx) ==  \* mutant: the longest missing sequence is not looked at
    /\ PagesOf(r, {Max(References)}) # {}
    /\ \A q \in DOMAIN r.pages : r.pages[q].grade = "clean"
    /\ \A c \in DOMAIN r.chunks : Clean(r.chunks[c])
    /\ DOMAIN idx.chunks = Chunks

\* ... and judges: identity needs the assets, every symbol needs rows without
\* defects and without a gap, which a month that was not read is, and actions
\* that are resolved; the status is read last.
Accepted(r, idx) ==
    /\ PagesOf(r, {Max(References)}) # {}
    /\ \A q \in DOMAIN r.pages : r.pages[q].grade = "clean"
    /\ DOMAIN r.chunks = Chunks
    /\ \A c \in DOMAIN r.chunks : Clean(r.chunks[c])
    /\ DOMAIN idx.chunks = Chunks

\* dataset-audit stops here; dataset-freeze goes on with its report.
Judge(p) ==
    /\ At(p, "judge")
    /\ \E freeze \in BOOLEAN :
         Set(p, IF freeze THEN [run[p] EXCEPT !.step = "freeze",
                                  !.report.accepted = Accepted(run[p].report, index)]
                ELSE Idle)
    /\ UNCHANGED <<index, objects, lock, snapshots, refused, faults>>

\* _freeze: refused unless every chunk is named and the report accepted it, which
\* preserve_evidence does without; the files are written to a partial directory.
Freeze(p) ==
    /\ At(p, "freeze") /\ LockFree(p)
    /\ \E evidenceOnly \in BOOLEAN :
         /\ DOMAIN index.chunks = Chunks /\ Stored(index) \subseteq objects
         /\ evidenceOnly \/ run[p].report.accepted
         /\ Set(p, [run[p] EXCEPT !.copy = index, !.step =
                      IF evidenceOnly THEN "preserve" ELSE "publish"])
    /\ lock' = p
    /\ UNCHANGED <<index, objects, snapshots, refused, faults>>

\* ARCHIVE_WRITER_BUSY, ARCHIVE_CHUNKS_INCOMPLETE, ARCHIVE_QUALITY_NOT_ACCEPTED.
FreezeRefused(p) ==
    /\ At(p, "freeze")
    /\ \/ ~LockFree(p)
       \/ DOMAIN index.chunks # Chunks
       \/ ~run[p].report.accepted
    /\ Set(p, Idle)
    /\ UNCHANGED <<index, objects, lock, snapshots, refused, faults>>

\* verify_snapshot and the rename: a snapshot that is there wins.
Publish(p) ==
    /\ run[p].step \in {"preserve", "publish"}
    /\ snapshots' = snapshots \cup
         {[index |-> run[p].copy, report |-> run[p].report,
           state |-> IF At(p, "publish") THEN "FROZEN" ELSE "FROZEN_EVIDENCE_ONLY"]}
    /\ Set(p, [run[p] EXCEPT !.step = "release"])
    /\ UNCHANGED <<index, objects, lock, refused, faults>>

\* A process dies: its lock goes with it.
Kill(p) ==
    /\ faults < MaxFaults /\ ~At(p, "idle")
    /\ faults' = faults + 1
    /\ lock' = IF lock = p THEN Nobody ELSE lock
    /\ Set(p, Idle)
    /\ UNCHANGED <<index, objects, snapshots, refused>>

Next ==
    \E p \in Procs :
      \/ Download(p) \/ Cached(p) \/ Answer(p) \/ SavePage(p) \/ CheckpointPage(p)
      \/ SaveChunk(p) \/ NameChunk(p) \/ Release(p)
      \/ AuditReferences(p) \/ AuditChunks(p) \/ Judge(p)
      \/ Freeze(p) \/ FreezeRefused(p) \/ Publish(p)
      \/ Kill(p)

Spec == Init /\ [][Next]_vars

-----------------------------------------------------------------------------
(* finalization.py: what verify_completed demands of a download.              *)

VerifyReceipts(idx) ==
    /\ \A x \in idx.receipts : x.page \in DOMAIN idx.pages
    /\ \A x \in idx.receipts : x.body # NoBody => x.body = idx.pages[x.page]
    /\ \A q \in DOMAIN idx.pages : Receipt(q, idx.pages[q]) \in idx.receipts

VerifyCompleted(idx) ==
    /\ DOMAIN idx.chunks = Chunks
    /\ Stored(idx) \subseteq objects
    /\ \A q \in PagesOf(idx, {Actions}) : idx.pages[q].next = 0
    /\ \A c \in Chunks : Whole(Chain(idx, c)) /\ idx.chunks[c] = Chain(idx, c)
    /\ \A q \in PagesOf(idx, Chunks) :
         q.token \in {0} \cup Tokens(Chain(idx, q.chain))
    /\ VerifyReceipts(idx)

-----------------------------------------------------------------------------
(* Properties.                                                                *)

\* Whatever was killed, retried and resumed on the way: once every chunk is
\* named, finalization.verify_completed accepts the archive, unless the provider
\* once gave a complete answer that was refused or paged the corporate actions.
DownloadVerifies ==
    /\ DOMAIN index.chunks = Chunks
    /\ refused = {}
    /\ \A q \in PagesOf(index, {Actions}) : index.pages[q].next = 0
    => VerifyCompleted(index)

\* A completed page, chunk or receipt is never lost and never replaced: a
\* download resumes from it (the checkpoint is read, changed and written back).
NothingForgotten ==
    [][/\ \A q \in DOMAIN index.pages :
            q \in DOMAIN index'.pages /\ index'.pages[q] = index.pages[q]
       /\ \A c \in DOMAIN index.chunks :
            c \in DOMAIN index'.chunks /\ index'.chunks[c] = index.chunks[c]
       /\ index.receipts \subseteq index'.receipts]_vars

\* A snapshot for research was accepted by a report on exactly what it holds,
\* although the audit reads without the lock while a download may go on: all its
\* reference pages and all its chunks, and none of them with a defect.
SnapshotIsWhole ==
    \A s \in snapshots : s.state = "FROZEN" =>
      /\ s.report.chunks = s.index.chunks
      /\ s.report.pages = Restrict(s.index.pages, PagesOf(s.index, References))
      /\ \A q \in DOMAIN s.index.pages : s.index.pages[q].grade = "clean"
=============================================================================
