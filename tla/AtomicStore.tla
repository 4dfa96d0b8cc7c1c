----------------------------- MODULE AtomicStore -----------------------------
(***************************************************************************)
(* What the private repository store promises its callers, free of HTTP,   *)
(* revisions and retries.  A call is an append-only create or a merge into *)
(* a JSON projection.  It takes effect at most once, in one atomic step,   *)
(* on the content of that instant; its result says "ok" only after the     *)
(* effect, "refused" only if there never is one, and "error" says nothing: *)
(* the effect of a call that ended in an error may still come later.       *)
(***************************************************************************)
CONSTANTS
    Callers,      \* the calls, each made by one process
    Paths,        \* append-only record paths
    Keys,         \* entries of the projection (client order ids)
    OwnerValues,  \* what the repository's owner keeps in the same file
    Nobody        \* no record, no entry; not a caller

VARIABLES
    projection,   \* [orders, owner]: content of the projection file
    records,      \* records[p]: the caller whose record is at path p
    call,         \* call[c]: what the caller asked for
    applied,      \* applied[c]: the call has taken effect
    result        \* result[c]: what the caller knows

vars == <<projection, records, call, applied, result>>

Results == {"idle", "pending", "ok", "refused", "error"}
Projections == [orders : [Keys -> Callers \cup {Nobody}], owner : OwnerValues]
NoCall == [kind |-> "none"]
Calls == [kind : {"merge"}, key : Keys] \cup [kind : {"create"}, path : Paths]

TypeOK ==
    /\ projection \in Projections
    /\ records \in [Paths -> Callers \cup {Nobody}]
    /\ call \in [Callers -> Calls \cup {NoCall}]
    /\ applied \in [Callers -> BOOLEAN]
    /\ result \in [Callers -> Results]

Init ==
    /\ projection \in {p \in Projections : \A k \in Keys : p.orders[k] = Nobody}
    /\ records = [p \in Paths |-> Nobody]
    /\ call = [c \in Callers |-> NoCall]
    /\ applied = [c \in Callers |-> FALSE]
    /\ result = [c \in Callers |-> "idle"]

Begin(c, request) ==
    /\ result[c] = "idle"
    /\ call' = [call EXCEPT ![c] = request]
    /\ result' = [result EXCEPT ![c] = "pending"]
    /\ UNCHANGED <<projection, records, applied>>

(* The transform is evaluated on the projection it changes: everything     *)
(* else in the file, other entries and the owner's part, stays.            *)
ApplyMerge(c, k) ==
    /\ call[c] = [kind |-> "merge", key |-> k]
    /\ projection.orders[k] = Nobody
    /\ projection' = [projection EXCEPT !.orders[k] = c]
    /\ UNCHANGED records

ApplyCreate(c, p) ==
    /\ call[c] = [kind |-> "create", path |-> p]
    /\ records[p] = Nobody
    /\ records' = [records EXCEPT ![p] = c]
    /\ UNCHANGED projection

Apply(c) ==
    /\ ~applied[c]
    /\ result[c] \in {"pending", "error"}
    /\ \/ \E k \in Keys : ApplyMerge(c, k)
       \/ \E p \in Paths : ApplyCreate(c, p)
    /\ applied' = [applied EXCEPT ![c] = TRUE]
    /\ UNCHANGED <<call, result>>

Return(c, answer) ==
    /\ result[c] = "pending"
    /\ answer = "ok" => applied[c]
    /\ answer = "refused" => ~applied[c]
    /\ result' = [result EXCEPT ![c] = answer]
    /\ UNCHANGED <<projection, records, call, applied>>

OwnerEdit(value) ==
    /\ projection' = [projection EXCEPT !.owner = value]
    /\ UNCHANGED <<records, call, applied, result>>

Next ==
    \/ \E c \in Callers :
          \/ \E request \in Calls : Begin(c, request)
          \/ Apply(c)
          \/ \E answer \in {"ok", "refused", "error"} : Return(c, answer)
    \/ \E value \in OwnerValues : OwnerEdit(value)

Spec == Init /\ [][Next]_vars
=============================================================================
