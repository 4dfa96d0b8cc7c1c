------------------------ MODULE PrivateStore_proofs --------------------------
(* Proofs about PrivateStore for any number of callers, keys, paths, rounds *)
(* and owner edits.  The inductive invariant says what a request that is    *)
(* still on its way carries: the transform of some earlier content that did *)
(* not refuse it, under the revision of exactly that content.               *)
EXTENDS PrivateStore, FiniteSetTheorems, TLAPS

Requests == MergeCalls \cup CreateCalls

RequestFaithful(c) ==
    net[c] = "sent" /\ call[c] \in MergeCalls =>
       \E old \in Projections :
          /\ ~Refuses(old, call[c].key)
          /\ request[c].body = Transform(old, c, call[c].key)
          /\ request[c].sha = Sha(old)

EffectInPlace(c) ==
    net[c] = "applied" =>
       /\ call[c] \in MergeCalls => projection.orders[call[c].key] = c
       /\ call[c] \in CreateCalls => records[call[c].path] = c

ResultMatches(c) ==
    /\ pc[c] \in {"idle", "read"} => rounds[c] < Attempts
    /\ pc[c] = "idle" => net[c] = "none"
    /\ pc[c] # "idle" => call[c] \in Requests
    /\ pc[c] = "ok" => net[c] = "applied"
    /\ pc[c] \in {"read", "conflict", "raised", "exhausted"}
          => net[c] \in {"none", "conflict"}

IInv ==
    /\ TypeOK
    /\ \A c \in Callers : RequestFaithful(c) /\ EffectInPlace(c) /\ ResultMatches(c)

(* The two kinds of call cannot be confused. *)
LEMMA KindsDiffer ==
    /\ \A r \in MergeCalls : r.kind = "merge" /\ r.key \in Keys
    /\ \A r \in CreateCalls : r.kind = "create" /\ r.path \in Paths
    /\ NoCall.kind = "none"
    /\ MergeCalls \cap CreateCalls = {}
    /\ NoCall \notin Requests
BY DEF MergeCalls, CreateCalls, NoCall, Requests

(* What a merge does to the content it is applied to. *)
LEMMA TransformSets ==
    ASSUME NEW P \in Projections, NEW c \in Callers, NEW k \in Keys
    PROVE  /\ Transform(P, c, k) \in Projections
           /\ Transform(P, c, k).owner = P.owner
           /\ Transform(P, c, k).orders[k] = c
           /\ \A x \in Keys \ {k} : Transform(P, c, k).orders[x] = P.orders[x]
BY DEF Projections, Transform

(* Equal revisions mean equal content. *)
LEMMA ShaInjective ==
    ASSUME NEW P, NEW Q, Sha(P) = Sha(Q) PROVE P = Q
<1>1. Sha(P).sha = Sha(Q).sha
  OBVIOUS
<1>. QED BY <1>1 DEF Sha

(* Initially no call was made and nothing is on its way. *)
LEMMA InitIInv == Init => IInv
<1> SUFFICES ASSUME Init PROVE IInv
  OBVIOUS
<1>1. projection \in Projections
  BY DEF Init
<1>2. TypeOK
  BY <1>1, AttemptsAssumption, OwnerAssumption
  DEF Init, TypeOK, NoCall, Ended, NoRequest
<1>3. ASSUME NEW c \in Callers
      PROVE  RequestFaithful(c) /\ EffectInPlace(c) /\ ResultMatches(c)
  BY AttemptsAssumption DEF Init, RequestFaithful, EffectInPlace, ResultMatches
<1>. QED BY <1>2, <1>3 DEF IInv

(* Every step of a caller, of the server and of the owner keeps the invariant. *)
LEMMA NextIInv == IInv /\ [Next]_vars => IInv'
<1> SUFFICES ASSUME IInv, [Next]_vars PROVE IInv'
  OBVIOUS
<1>. USE DEF Requests
<1>0. TypeOK
  BY DEF IInv
<1>1. ASSUME NEW c \in Callers, Begin(c) PROVE IInv'
  <2>1. TypeOK'
    BY <1>0, <1>1 DEF Begin, TypeOK
  <2>2. ASSUME NEW d \in Callers
        PROVE  (RequestFaithful(d) /\ EffectInPlace(d) /\ ResultMatches(d))'
    BY <1>0, <1>1 DEF Begin, TypeOK, IInv, RequestFaithful, EffectInPlace, ResultMatches
  <2>. QED BY <2>1, <2>2 DEF IInv
<1>2. ASSUME NEW c \in Callers, ReadProjection(c) PROVE IInv'
  <2>. DEFINE k == call[c].key
              body == Transform(projection, c, k)
  <2>1. k \in Keys /\ projection \in Projections /\ rounds[c] \in 0..Attempts
    BY <1>0, <1>2, KindsDiffer DEF ReadProjection, TypeOK
  <2>2. body \in Projections /\ rounds[c] + 1 \in 0..Attempts
    BY <1>2, <2>1, TransformSets, AttemptsAssumption
    DEF IInv, ResultMatches, ReadProjection
  <2>3. CASE Refuses(projection, k)
    <3>1. TypeOK'
      BY <1>0, <1>2, <2>2, <2>3 DEF ReadProjection, TypeOK, Ended
    <3>2. ASSUME NEW d \in Callers
          PROVE  (RequestFaithful(d) /\ EffectInPlace(d) /\ ResultMatches(d))'
      BY <1>0, <1>2, <2>3
      DEF ReadProjection, TypeOK, IInv, RequestFaithful, EffectInPlace, ResultMatches
    <3>. QED BY <3>1, <3>2 DEF IInv
  <2>4. CASE ~Refuses(projection, k)
    <3>0. request' = [request EXCEPT ![c] =
                        [sent |-> TRUE, body |-> body, sha |-> Sha(projection)]]
      BY <1>2, <2>4 DEF ReadProjection
    <3>1. TypeOK'
      BY <1>0, <1>2, <2>1, <2>2, <2>4, <3>0 DEF ReadProjection, TypeOK
    <3>2. RequestFaithful(c)'
      BY <1>0, <1>2, <2>1, <2>4, <3>0 DEF ReadProjection, TypeOK, RequestFaithful
    <3>3. ASSUME NEW d \in Callers, d # c PROVE RequestFaithful(d)'
      BY <1>0, <1>2, <2>4, <3>0, <3>3
      DEF ReadProjection, TypeOK, IInv, RequestFaithful
    <3>4. ASSUME NEW d \in Callers PROVE (EffectInPlace(d) /\ ResultMatches(d))'
      BY <1>0, <1>2, <2>4 DEF ReadProjection, TypeOK, IInv, EffectInPlace, ResultMatches
    <3>. QED BY <3>1, <3>2, <3>3, <3>4 DEF IInv
  <2>. QED BY <2>3, <2>4
<1>3. ASSUME NEW c \in Callers, ReadAbsent(c) PROVE IInv'
  <2>0. /\ request' = request \/ request' = [request EXCEPT ![c] = CreateRequest]
        /\ net' = net \/ net' = [net EXCEPT ![c] = "sent"]
        /\ pc' = [pc EXCEPT ![c] = "conflict"] \/ pc' = [pc EXCEPT ![c] = "wait"]
    BY <1>3 DEF ReadAbsent
  <2>a. request' \in [Callers ->
          [sent : {TRUE}, body : Projections, sha : {Sha(p) : p \in Projections}]
          \cup {CreateRequest, NoRequest}]
    BY <1>0, <2>0 DEF TypeOK
  <2>b. /\ net' \in [Callers -> {"none", "sent", "applied", "conflict"}]
        /\ pc' \in [Callers -> {"idle", "read", "wait"} \cup Ended]
    BY <1>0, <2>0 DEF TypeOK, Ended
  <2>1. TypeOK'
    BY <1>0, <1>3, <2>a, <2>b DEF ReadAbsent, TypeOK
  <2>2. ASSUME NEW d \in Callers
        PROVE  (RequestFaithful(d) /\ EffectInPlace(d) /\ ResultMatches(d))'
    BY <1>0, <1>3, KindsDiffer
    DEF ReadAbsent, TypeOK, IInv, RequestFaithful, EffectInPlace, ResultMatches
  <2>. QED BY <2>1, <2>2 DEF IInv
<1>4. ASSUME NEW c \in Callers, ServerUpdate(c) PROVE IInv'
  <2>. DEFINE k == call[c].key
  <2>1. k \in Keys /\ net[c] = "sent" /\ call[c] \in MergeCalls
    BY <1>0, <1>4, KindsDiffer DEF ServerUpdate, TypeOK
  <2>2. PICK old \in Projections :
           /\ ~Refuses(old, k)
           /\ request[c].body = Transform(old, c, k)
           /\ request[c].sha = Sha(old)
    BY <2>1 DEF IInv, RequestFaithful
  <2>3. CASE request[c].sha = Sha(projection)
    <3>1. old = projection
      BY <2>2, <2>3, ShaInjective
    <3>2. projection' = Transform(projection, c, k) /\ projection' \in Projections
      BY <1>4, <2>1, <2>2, <2>3, <3>1, TransformSets DEF ServerUpdate
    <3>3. TypeOK'
      BY <1>0, <1>4, <2>3, <3>2 DEF ServerUpdate, TypeOK
    <3>4. ASSUME NEW d \in Callers PROVE (RequestFaithful(d) /\ ResultMatches(d))'
      BY <1>0, <1>4, <2>3
      DEF ServerUpdate, TypeOK, IInv, RequestFaithful, ResultMatches
    <3>5. ~Refuses(projection, k) /\ projection'.orders[k] = c
      BY <2>1, <2>2, <3>1, <3>2, TransformSets
    <3>6. ASSUME NEW d \in Callers PROVE EffectInPlace(d)'
      <4>1. CASE d = c
        BY <1>0, <1>4, <2>1, <2>3, <3>5, <4>1, KindsDiffer
        DEF ServerUpdate, TypeOK, EffectInPlace
      <4>2. CASE d # c /\ net[d] = "applied" /\ call[d] \in MergeCalls
        <5>1. projection.orders[call[d].key] = d /\ call[d].key \in Keys
          BY <4>2, KindsDiffer DEF IInv, EffectInPlace
        <5>2. call[d].key # k
          BY <3>5, <5>1, NobodyAssumption DEF Refuses
        <5>3. projection'.orders[call[d].key] = d
          BY <1>0, <2>1, <3>2, <5>1, <5>2, TransformSets DEF TypeOK
        <5>. QED BY <1>4, <4>2, <5>3, KindsDiffer DEF ServerUpdate, EffectInPlace
      <4>3. CASE d # c /\ ~(net[d] = "applied" /\ call[d] \in MergeCalls)
        BY <1>0, <1>4, <2>3, <4>3 DEF ServerUpdate, TypeOK, IInv, EffectInPlace
      <4>. QED BY <4>1, <4>2, <4>3
    <3>. QED BY <3>3, <3>4, <3>6 DEF IInv
  <2>4. CASE request[c].sha # Sha(projection)
    <3>1. TypeOK'
      BY <1>0, <1>4, <2>4 DEF ServerUpdate, TypeOK
    <3>2. ASSUME NEW d \in Callers
          PROVE  (RequestFaithful(d) /\ EffectInPlace(d) /\ ResultMatches(d))'
      BY <1>0, <1>4, <2>4
      DEF ServerUpdate, TypeOK, IInv, RequestFaithful, EffectInPlace, ResultMatches
    <3>. QED BY <3>1, <3>2 DEF IInv
  <2>. QED BY <2>3, <2>4
<1>5. ASSUME NEW c \in Callers, ServerCreate(c) PROVE IInv'
  <2>. DEFINE p == call[c].path
  <2>1. p \in Paths /\ net[c] = "sent" /\ call[c] \in CreateCalls
    BY <1>0, <1>5, KindsDiffer DEF ServerCreate, TypeOK
  <2>2. TypeOK'
    BY <1>0, <1>5, <2>1 DEF ServerCreate, TypeOK
  <2>3. ASSUME NEW d \in Callers PROVE (RequestFaithful(d) /\ ResultMatches(d))'
    BY <1>0, <1>5
    DEF ServerCreate, TypeOK, IInv, RequestFaithful, ResultMatches
  <2>4. ASSUME NEW d \in Callers PROVE EffectInPlace(d)'
    BY <1>0, <1>5, <2>1, KindsDiffer, NobodyAssumption
    DEF ServerCreate, CreatesFile, TypeOK, IInv, EffectInPlace
  <2>. QED BY <2>2, <2>3, <2>4 DEF IInv
<1>6. ASSUME NEW c \in Callers, Receive(c) PROVE IInv'
  <2>1. TypeOK'
    BY <1>0, <1>6 DEF Receive, TypeOK, Ended
  <2>2. ASSUME NEW d \in Callers
        PROVE  (RequestFaithful(d) /\ EffectInPlace(d) /\ ResultMatches(d))'
    BY <1>0, <1>6
    DEF Receive, RoundLeft, TypeOK, IInv, RequestFaithful, EffectInPlace, ResultMatches
  <2>. QED BY <2>1, <2>2 DEF IInv
<1>7. ASSUME NEW c \in Callers, Fail(c) PROVE IInv'
  <2>1. TypeOK'
    BY <1>0, <1>7 DEF Fail, TypeOK, Ended
  <2>2. ASSUME NEW d \in Callers
        PROVE  (RequestFaithful(d) /\ EffectInPlace(d) /\ ResultMatches(d))'
    BY <1>0, <1>7 DEF Fail, TypeOK, IInv, RequestFaithful, EffectInPlace, ResultMatches
  <2>. QED BY <2>1, <2>2 DEF IInv
<1>8. ASSUME OwnerEdit PROVE IInv'
  <2>1. projection' \in Projections /\ projection'.orders = projection.orders
    BY <1>0, <1>8 DEF OwnerEdit, TypeOK, Projections
  <2>0. ownerEdits' \in 0..MaxOwnerEdits
    BY <1>0, <1>8, OwnerAssumption DEF OwnerEdit, TypeOK
  <2>2. TypeOK'
    BY <1>0, <1>8, <2>0, <2>1 DEF OwnerEdit, TypeOK
  <2>3. ASSUME NEW d \in Callers
        PROVE  (RequestFaithful(d) /\ EffectInPlace(d) /\ ResultMatches(d))'
    BY <1>0, <1>8, <2>1
    DEF OwnerEdit, TypeOK, IInv, RequestFaithful, EffectInPlace, ResultMatches
  <2>. QED BY <2>2, <2>3 DEF IInv
<1>9. CASE UNCHANGED vars
  BY <1>9 DEF vars, IInv, TypeOK, RequestFaithful, EffectInPlace, ResultMatches
<1>. QED
  BY <1>1, <1>2, <1>3, <1>4, <1>5, <1>6, <1>7, <1>8, <1>9
  DEF Next, Caller, Server

(* Every variable keeps its type: in particular no merge starts more than  *)
(* Attempts rounds (private_store.py 138-149).                             *)
THEOREM TypeCorrect == Spec => []TypeOK
<1>1. IInv => TypeOK
  BY DEF IInv
<1>. QED BY InitIInv, NextIInv, <1>1, PTL DEF Spec

(* An acknowledged write is in place ever after, and so at most one of the *)
(* callers that claim a path is told it won (private_store.py 102-149).    *)
THEOREM Durability == Spec => []AcknowledgedIsDurable
<1>1. IInv => AcknowledgedIsDurable
  BY DEF IInv, EffectInPlace, ResultMatches, AcknowledgedIsDurable, Merges, Creates
<1>. QED BY InitIInv, NextIInv, <1>1, PTL DEF Spec

(* The owner's part of the projection is changed by the owner only, for    *)
(* any interleaving of merges with stale reads (private_store.py 133-149). *)
THEOREM OwnerPart == Spec => OwnerPartKept
<1>1. IInv /\ [Next]_vars =>
        [projection'.owner # projection.owner => ownerEdits' = ownerEdits + 1]_vars
  <2> SUFFICES ASSUME IInv, Next, projection'.owner # projection.owner
               PROVE  ownerEdits' = ownerEdits + 1
    OBVIOUS
  <2>1. CASE OwnerEdit
    BY <2>1 DEF OwnerEdit
  <2>2. ASSUME NEW c \in Callers, ServerUpdate(c)
        PROVE  projection'.owner = projection.owner
    <3>1. CASE request[c].sha # Sha(projection)
      BY <2>2, <3>1 DEF ServerUpdate
    <3>2. CASE request[c].sha = Sha(projection)
      <4>1. net[c] = "sent" /\ call[c] \in MergeCalls /\ call[c].key \in Keys
        BY <2>2, KindsDiffer DEF ServerUpdate
      <4>2. PICK old \in Projections :
               /\ request[c].body = Transform(old, c, call[c].key)
               /\ request[c].sha = Sha(old)
        BY <4>1 DEF IInv, RequestFaithful
      <4>3. old = projection
        BY <3>2, <4>2, ShaInjective
      <4>. QED BY <2>2, <3>2, <4>1, <4>2, <4>3, TransformSets DEF ServerUpdate
    <3>. QED BY <3>1, <3>2
  <2>3. ASSUME NEW c \in Callers, Caller(c) \/ ServerCreate(c)
        PROVE  projection'.owner = projection.owner
    BY <2>3 DEF Caller, Begin, ReadProjection, ReadAbsent, Receive, Fail, ServerCreate
  <2>. QED BY <2>1, <2>2, <2>3 DEF Next, Server
<1>. QED BY InitIInv, NextIInv, <1>1, PTL DEF Spec, OwnerPartKept

-----------------------------------------------------------------------------
(* Contention.  Every round of a merge that ends in a conflict has a change *)
(* of the projection by somebody else to show for it: between the read of   *)
(* the round and the handling of its PUT the content became another one,    *)
(* and only an applied merge or an edit of the owner changes it.            *)

Others(c) == {d \in Merges \ {c} : net[d] = "applied"}
Contention(c) == Cardinality(Others(c)) + ownerEdits

RoundsAccounted(c) ==
    /\ pc[c] = "idle" => rounds[c] = 0
    /\ pc[c] = "read" => Contention(c) >= rounds[c]
    /\ net[c] = "sent" /\ c \in Merges =>
          /\ Contention(c) + 1 >= rounds[c]
          /\ request[c].sha # Sha(projection) => Contention(c) >= rounds[c]
    /\ net[c] = "conflict" /\ c \in Merges /\ pc[c] # "raised"
          => Contention(c) >= rounds[c]
    /\ pc[c] = "exhausted" =>
          rounds[c] = Attempts /\ c \in Merges /\ net[c] = "conflict"

Accounted == \A c \in Callers : RoundsAccounted(c)

(* The count is a number in every typed state. *)
LEMMA ContentionIsANumber ==
    ASSUME TypeOK, NEW c \in Callers
    PROVE  /\ IsFiniteSet(Others(c)) /\ Cardinality(Others(c)) \in Nat
           /\ ownerEdits \in Nat /\ Contention(c) \in Nat
<1>1. Others(c) \subseteq Callers
  BY DEF Others, Merges
<1>2. IsFiniteSet(Others(c)) /\ Cardinality(Others(c)) \in Nat
  BY <1>1, CallersAssumption, FS_Subset, FS_CardinalityType
<1>3. ownerEdits \in Nat
  BY OwnerAssumption DEF TypeOK
<1>. QED BY <1>2, <1>3 DEF Contention

LEMMA RoundsAreNumbers ==
    ASSUME TypeOK, NEW c \in Callers
    PROVE  rounds[c] \in Nat /\ rounds[c] <= Attempts
<1>1. rounds \in [Callers -> 0..Attempts]
  BY DEF TypeOK
<1>. QED BY <1>1, AttemptsAssumption

(* Nothing that was counted is taken back. *)
LEMMA ContentionGrows ==
    ASSUME NEW c \in Callers, TypeOK, TypeOK', ownerEdits' >= ownerEdits,
           \A d \in Callers : net[d] = "applied" => net'[d] = "applied" /\ call'[d] = call[d]
    PROVE  Contention(c)' >= Contention(c)
<1>1. Others(c) \subseteq Others(c)'
  BY DEF Others, Merges
<1>2. /\ IsFiniteSet(Others(c)') /\ Cardinality(Others(c)') \in Nat
      /\ ownerEdits' \in Nat
  <2>1. Others(c)' \subseteq Callers
    BY DEF Others, Merges
  <2>. QED BY <2>1, CallersAssumption, OwnerAssumption, FS_Subset, FS_CardinalityType DEF TypeOK
<1>3. Cardinality(Others(c)) <= Cardinality(Others(c)')
  BY <1>1, <1>2, FS_Subset
<1>4. Contention(c)' = Cardinality(Others(c)') + ownerEdits'
  BY DEF Contention
<1>. QED BY <1>2, <1>3, <1>4, ContentionIsANumber DEF Contention

(* A merge of somebody else that is applied is one more. *)
LEMMA ContentionCounts ==
    ASSUME NEW c \in Callers, NEW d \in Callers, TypeOK, c # d,
           call[d] \in MergeCalls, net[d] = "sent",
           net' = [net EXCEPT ![d] = "applied"], UNCHANGED <<call, ownerEdits>>
    PROVE  Contention(c)' = Contention(c) + 1
<1>1. Others(c)' = Others(c) \cup {d} /\ d \notin Others(c)
  BY DEF Others, Merges, TypeOK
<1>2. Cardinality(Others(c)') = Cardinality(Others(c)) + 1
  BY <1>1, ContentionIsANumber, FS_AddElement
<1>3. Contention(c)' = Cardinality(Others(c)') + ownerEdits
  BY DEF Contention
<1>. QED BY <1>2, <1>3, ContentionIsANumber DEF Contention

(* After a step the count is a number as well. *)
LEMMA ContentionAfter ==
    ASSUME TypeOK', NEW c \in Callers
    PROVE  Contention(c)' \in Nat
<1>1. Others(c)' \subseteq Callers /\ ownerEdits' \in Nat
  BY OwnerAssumption DEF Others, Merges, TypeOK
<1>2. Cardinality(Others(c)') \in Nat
  BY <1>1, CallersAssumption, FS_Subset, FS_CardinalityType
<1>. QED BY <1>1, <1>2 DEF Contention

LEMMA InitAccounted == Init => Accounted
BY DEF Init, Accounted, RoundsAccounted

(* A caller that this step leaves alone, while the content stays or the     *)
(* step adds to what the caller contends with.                              *)
LEMMA OthersAccounted ==
    ASSUME NEW c \in Callers, TypeOK, TypeOK', Accounted,
           UNCHANGED <<pc[c], net[c], call[c], rounds[c], request[c]>>,
           Contention(c)' >= Contention(c),
           projection' # projection => Contention(c)' >= Contention(c) + 1
    PROVE  RoundsAccounted(c)'
<1>1. RoundsAccounted(c)
  BY DEF Accounted
<1>2. Contention(c) \in Nat /\ rounds[c] \in Nat
  BY ContentionIsANumber, RoundsAreNumbers
<1>3. Contention(c)' \in Nat
  BY ContentionAfter
<1>. DEFINE before == Contention(c)
            after == Contention(c)'
<1>4. before \in Nat /\ after \in Nat /\ after >= before
      /\ (projection' # projection => after >= before + 1)
  BY <1>2, <1>3
<1>5. /\ pc[c] = "idle" => rounds[c] = 0
      /\ pc[c] = "read" => before >= rounds[c]
      /\ net[c] = "sent" /\ c \in Merges => before + 1 >= rounds[c]
      /\ net[c] = "sent" /\ c \in Merges /\ request[c].sha # Sha(projection)
            => before >= rounds[c]
      /\ net[c] = "conflict" /\ c \in Merges /\ pc[c] # "raised" => before >= rounds[c]
      /\ pc[c] = "exhausted" =>
            rounds[c] = Attempts /\ c \in Merges /\ net[c] = "conflict"
  BY <1>1 DEF RoundsAccounted
<1>6. (c \in Merges)' <=> c \in Merges
  BY DEF Merges
<1>7. /\ pc'[c] = pc[c] /\ net'[c] = net[c] /\ rounds'[c] = rounds[c]
      /\ request'[c] = request[c]
  OBVIOUS
<1>. HIDE DEF before, after
<1>8. /\ pc[c] = "idle" => rounds[c] = 0
      /\ pc[c] = "read" => after >= rounds[c]
      /\ net[c] = "sent" /\ c \in Merges => after + 1 >= rounds[c]
      /\ net[c] = "sent" /\ c \in Merges /\ request[c].sha # Sha(projection')
            => after >= rounds[c]
      /\ net[c] = "conflict" /\ c \in Merges /\ pc[c] # "raised" => after >= rounds[c]
      /\ pc[c] = "exhausted" =>
            rounds[c] = Attempts /\ c \in Merges /\ net[c] = "conflict"
  BY <1>2, <1>4, <1>5
<1>. QED BY <1>6, <1>7, <1>8 DEF RoundsAccounted, after, Sha

LEMMA NextAccounted == IInv /\ Accounted /\ [Next]_vars => Accounted'
<1> SUFFICES ASSUME IInv, Accounted, [Next]_vars PROVE Accounted'
  OBVIOUS
<1>0. TypeOK /\ TypeOK'
  BY NextIInv DEF IInv
<1>a. \A d \in Callers : RoundsAccounted(d) /\ ResultMatches(d)
  BY DEF Accounted, IInv
<1>b. \A d \in Callers :
         Contention(d) \in Nat /\ rounds[d] \in Nat /\ rounds[d] <= Attempts
  BY <1>0, ContentionIsANumber, RoundsAreNumbers
<1>c. ASSUME NEW c \in Callers, Caller(c)
      PROVE  /\ \A d \in Callers : Contention(d)' >= Contention(d)
             /\ \A d \in Callers \ {c} : RoundsAccounted(d)'
  <2>1. /\ projection' = projection /\ ownerEdits' = ownerEdits
        /\ \A d \in Callers \ {c} :
             UNCHANGED <<pc[d], net[d], call[d], rounds[d], request[d]>>
        /\ net[c] # "applied" \/ UNCHANGED <<net, call>>
    <3>1. CASE Begin(c)
      BY <1>0, <1>a, <3>1 DEF Begin, TypeOK, ResultMatches
    <3>2. CASE ReadProjection(c)
      BY <1>0, <1>a, <3>2 DEF ReadProjection, TypeOK, ResultMatches
    <3>3. CASE ReadAbsent(c)
      BY <1>0, <1>a, <3>3 DEF ReadAbsent, TypeOK, ResultMatches
    <3>4. CASE Receive(c) \/ Fail(c)
      BY <1>0, <3>4 DEF Receive, Fail, TypeOK
    <3>. QED BY <1>c, <3>1, <3>2, <3>3, <3>4 DEF Caller
  <2>2. \A d \in Callers : net[d] = "applied" => net'[d] = "applied" /\ call'[d] = call[d]
    BY <2>1
  <2>3. ownerEdits' >= ownerEdits
    BY <1>0, <2>1 DEF TypeOK
  <2>4. ASSUME NEW d \in Callers PROVE Contention(d)' >= Contention(d)
    BY <1>0, <2>2, <2>3, ContentionGrows
  <2>5. ASSUME NEW d \in Callers \ {c} PROVE RoundsAccounted(d)'
    BY <1>0, <2>1, <2>4, OthersAccounted
  <2>. QED BY <2>4, <2>5
<1>1. ASSUME NEW c \in Callers, Begin(c) PROVE Accounted'
  <2>1. pc'[c] = "read" /\ net'[c] = "none" /\ rounds'[c] = 0
    BY <1>0, <1>1, <1>a DEF Begin, TypeOK, RoundsAccounted, ResultMatches
  <2>2. Contention(c)' >= 0
    BY <1>0, ContentionAfter
  <2>3. RoundsAccounted(c)'
    BY <2>1, <2>2 DEF RoundsAccounted
  <2>. QED BY <1>1, <1>c, <2>3 DEF Caller, Accounted
<1>2. ASSUME NEW c \in Callers, ReadProjection(c) PROVE Accounted'
  <2>1. /\ Contention(c)' >= Contention(c) /\ Contention(c) >= rounds[c]
        /\ Contention(c) \in Nat /\ rounds[c] \in Nat
    BY <1>2, <1>a, <1>b, <1>c DEF Caller, ReadProjection, RoundsAccounted
  <2>2. Contention(c)' \in Nat
    BY <1>0, ContentionAfter
  <2>3. rounds'[c] = rounds[c] + 1 /\ projection' = projection
    BY <1>0, <1>2 DEF ReadProjection, TypeOK
  <2>4. CASE pc'[c] = "raised" /\ net'[c] = net[c]
    <3>1. net[c] # "sent"
      BY <1>2, <1>a DEF ReadProjection, ResultMatches
    <3>. QED BY <1>2, <1>c, <2>4, <3>1 DEF RoundsAccounted, Caller, Accounted
  <2>5. CASE pc'[c] = "wait" /\ net'[c] = "sent" /\ request'[c].sha = Sha(projection)
    <3>1. Contention(c)' + 1 >= rounds'[c]
      BY <2>1, <2>2, <2>3
    <3>2. RoundsAccounted(c)'
      BY <2>3, <2>5, <3>1 DEF RoundsAccounted, Sha
    <3>. QED BY <1>2, <1>c, <3>2 DEF Caller, Accounted
  <2>. QED BY <1>0, <1>2, <2>4, <2>5 DEF ReadProjection, TypeOK
<1>3. ASSUME NEW c \in Callers, ReadAbsent(c) PROVE Accounted'
  <2>1. c \notin Merges' /\ pc'[c] \in {"conflict", "wait"}
    BY <1>0, <1>3, KindsDiffer DEF ReadAbsent, TypeOK, Merges
  <2>. QED BY <1>3, <1>c, <2>1 DEF RoundsAccounted, Caller, Accounted
<1>4. ASSUME NEW c \in Callers, ServerUpdate(c) PROVE Accounted'
  <2>1. /\ net[c] = "sent" /\ call[c] \in MergeCalls /\ c \in Merges
        /\ UNCHANGED <<call, pc, rounds, ownerEdits>>
        /\ \A d \in Callers \ {c} : net'[d] = net[d] /\ request'[d] = request[d]
        /\ pc[c] \notin {"idle", "read", "exhausted"}
    BY <1>0, <1>4, <1>a DEF ServerUpdate, TypeOK, ResultMatches, Merges
  <2>2. CASE net' = [net EXCEPT ![c] = "applied"]
    <3>1. RoundsAccounted(c)'
      BY <1>0, <2>1, <2>2 DEF RoundsAccounted, TypeOK
    <3>2. ASSUME NEW d \in Callers \ {c} PROVE RoundsAccounted(d)'
      <4>1. Contention(d)' = Contention(d) + 1
        BY <1>0, <2>1, <2>2, ContentionCounts
      <4>2. Contention(d)' >= Contention(d) /\ Contention(d)' >= Contention(d) + 1
        BY <1>b, <4>1
      <4>. QED BY <1>0, <2>1, <4>2, OthersAccounted
    <3>. QED BY <3>1, <3>2 DEF Accounted
  <2>3. CASE /\ net' = [net EXCEPT ![c] = "conflict"] /\ projection' = projection
             /\ request[c].sha # Sha(projection)
    <3>1. \A d \in Callers : net[d] = "applied" => net'[d] = "applied" /\ call'[d] = call[d]
      BY <1>0, <2>1, <2>3 DEF TypeOK
    <3>2. ASSUME NEW d \in Callers PROVE Contention(d)' >= Contention(d)
      <4>1. ownerEdits' >= ownerEdits
        BY <1>0, <2>1 DEF TypeOK
      <4>. QED BY <1>0, <3>1, <4>1, ContentionGrows
    <3>3. RoundsAccounted(c)'
      <4>1. Contention(c)' >= rounds[c]
        <5>1. Contention(c) >= rounds[c] /\ Contention(c)' >= Contention(c)
          BY <1>a, <2>1, <2>3, <3>2 DEF RoundsAccounted
        <5>. QED BY <1>0, <1>b, <5>1, ContentionAfter
      <4>2. net'[c] = "conflict" /\ pc'[c] = pc[c] /\ rounds'[c] = rounds[c]
        BY <1>0, <2>1, <2>3 DEF TypeOK
      <4>. QED BY <2>1, <4>1, <4>2 DEF RoundsAccounted
    <3>4. ASSUME NEW d \in Callers \ {c} PROVE RoundsAccounted(d)'
      BY <1>0, <2>1, <2>3, <3>2, OthersAccounted
    <3>. QED BY <3>3, <3>4 DEF Accounted
  <2>. QED BY <1>4, <2>2, <2>3 DEF ServerUpdate
<1>5. ASSUME NEW c \in Callers, ServerCreate(c) PROVE Accounted'
  <2>1. /\ c \notin Merges' /\ net[c] = "sent"
        /\ UNCHANGED <<projection, call, pc, rounds, ownerEdits>>
        /\ \A d \in Callers \ {c} : net'[d] = net[d] /\ request'[d] = request[d]
        /\ pc[c] \notin {"idle", "read", "exhausted"}
    BY <1>0, <1>5, <1>a, KindsDiffer DEF ServerCreate, TypeOK, ResultMatches, Merges
  <2>2. ASSUME NEW d \in Callers PROVE Contention(d)' >= Contention(d)
    <3>1. \A e \in Callers : net[e] = "applied" => net'[e] = "applied" /\ call'[e] = call[e]
      BY <2>1
    <3>2. ownerEdits' >= ownerEdits
      BY <1>0, <2>1 DEF TypeOK
    <3>. QED BY <1>0, <3>1, <3>2, ContentionGrows
  <2>3. RoundsAccounted(c)'
    BY <2>1 DEF RoundsAccounted
  <2>4. ASSUME NEW d \in Callers \ {c} PROVE RoundsAccounted(d)'
    BY <1>0, <2>1, <2>2, OthersAccounted
  <2>. QED BY <2>3, <2>4 DEF Accounted
<1>6. ASSUME NEW c \in Callers, Receive(c) PROVE Accounted'
  <2>1. /\ pc[c] = "wait" /\ net'[c] = net[c] /\ rounds'[c] = rounds[c]
        /\ net[c] \in {"applied", "conflict"} /\ ((c \in Merges)' <=> c \in Merges)
    BY <1>6 DEF Receive, Merges
  <2>2. /\ pc'[c] \in {"ok", "conflict", "read", "exhausted"}
        /\ pc'[c] \in {"read", "exhausted"} => net[c] = "conflict" /\ c \in Merges
        /\ pc'[c] = "exhausted" => ~RoundLeft(c)
    BY <1>0, <1>6 DEF Receive, TypeOK, Merges, IInv, ResultMatches, Requests
  <2>3. net[c] = "conflict" /\ c \in Merges => Contention(c)' >= rounds[c]
    <3>1. net[c] = "conflict" /\ c \in Merges => Contention(c) >= rounds[c]
      BY <1>a, <2>1 DEF RoundsAccounted
    <3>2. Contention(c)' >= Contention(c)
      BY <1>6, <1>c DEF Caller
    <3>. QED BY <1>0, <1>b, <3>1, <3>2, ContentionAfter
  <2>4. pc'[c] = "exhausted" => rounds[c] = Attempts
    BY <1>b, <2>2, AttemptsAssumption DEF RoundLeft
  <2>5. RoundsAccounted(c)'
    BY <2>1, <2>2, <2>3, <2>4 DEF RoundsAccounted
  <2>. QED BY <1>6, <1>c, <2>5 DEF Caller, Accounted
<1>7. ASSUME NEW c \in Callers, Fail(c) PROVE Accounted'
  <2>1. /\ pc[c] \in {"read", "wait"} /\ pc'[c] = "error"
        /\ UNCHANGED <<projection, net, request, rounds, call, ownerEdits>>
    BY <1>0, <1>7 DEF Fail, TypeOK
  <2>2. Contention(c)' = Contention(c)
    BY <2>1 DEF Contention, Others, Merges
  <2>3. RoundsAccounted(c)'
    BY <1>a, <2>1, <2>2 DEF RoundsAccounted, Merges
  <2>. QED BY <1>7, <1>c, <2>3 DEF Caller, Accounted
<1>8. ASSUME OwnerEdit PROVE Accounted'
  <2>1. UNCHANGED <<records, call, pc, rounds, request, net>> /\ ownerEdits' = ownerEdits + 1
    BY <1>8 DEF OwnerEdit
  <2>2. ASSUME NEW c \in Callers
        PROVE  Contention(c)' >= Contention(c) /\ Contention(c)' >= Contention(c) + 1
    <3>1. Contention(c)' = Cardinality(Others(c)) + (ownerEdits + 1)
      BY <2>1 DEF Contention, Others, Merges
    <3>. QED BY <1>0, <3>1, ContentionIsANumber DEF Contention
  <2>. QED BY <1>0, <2>1, <2>2, OthersAccounted DEF Accounted
<1>9. CASE UNCHANGED vars
  BY <1>9 DEF vars, Accounted, RoundsAccounted, Contention, Others, Merges
<1>. QED
  BY <1>1, <1>2, <1>3, <1>4, <1>5, <1>6, <1>7, <1>8, <1>9 DEF Next, Caller, Server

(* A merge gives up only under real contention: for every caller whose      *)
(* rounds ran out, others have changed the projection as often as it tried  *)
(* (private_store.py 138-149).                                              *)
THEOREM GivesUpForAReason == Spec => []ExhaustedMeansContention
<1>1. IInv /\ Accounted => ExhaustedMeansContention
  <2> SUFFICES ASSUME IInv, Accounted, NEW c \in Callers, pc[c] = "exhausted"
               PROVE  Contention(c) >= Attempts
    BY DEF ExhaustedMeansContention, Contention, Others
  <2>. QED BY DEF Accounted, RoundsAccounted
<1>. QED BY InitIInv, NextIInv, InitAccounted, NextAccounted, <1>1, PTL DEF Spec

-----------------------------------------------------------------------------
(* The refinement.  Each caller's step maps to a step of the atomic store   *)
(* or to a stutter; only the server's handling of a PUT can be an effect.   *)

appliedBar == [c \in Callers |-> net[c] = "applied"]
resultBar == [c \in Callers |-> Result(c)]

(* The initial states are those of the atomic store. *)
LEMMA AtomicInit == Init => Atomic!Init
<1> SUFFICES ASSUME Init PROVE Atomic!Init
  OBVIOUS
<1>1. \A c \in Callers : Result(c) = "idle" /\ (net[c] = "applied") = FALSE
  BY DEF Init, Result
<1>. QED BY <1>1 DEF Init, Atomic!Init, Projections, Atomic!Projections, NoCall,
                   Atomic!NoCall

(* A step is one of the atomic store, or changes nothing it can see. *)
LEMMA AtomicNext == IInv /\ [Next]_vars => [Atomic!Next]_(Atomic!vars)
<1> SUFFICES ASSUME IInv, [Next]_vars PROVE Atomic!Next \/ UNCHANGED Atomic!vars
  BY DEF Atomic!vars
<1>0. TypeOK
  BY DEF IInv
<1>. USE DEF Requests
<1>1. ASSUME NEW c \in Callers, Begin(c) PROVE Atomic!Next
  <2>1. PICK r \in MergeCalls \cup CreateCalls : call' = [call EXCEPT ![c] = r]
    BY <1>1 DEF Begin
  <2>2. r \in Atomic!Calls
    BY DEF MergeCalls, CreateCalls, Atomic!Calls
  <2>3. appliedBar' = appliedBar
    BY <1>1 DEF Begin, appliedBar
  <2>4. resultBar[c] = "idle" /\ resultBar' = [resultBar EXCEPT ![c] = "pending"]
    BY <1>0, <1>1 DEF Begin, TypeOK, resultBar, Result
  <2>5. Atomic!Begin(c, r)
    BY <1>1, <2>1, <2>3, <2>4 DEF Begin, Atomic!Begin, appliedBar, resultBar
  <2>. QED BY <2>2, <2>5 DEF Atomic!Next
<1>2. ASSUME NEW c \in Callers, ReadProjection(c) \/ ReadAbsent(c)
      PROVE  Atomic!Next \/ UNCHANGED Atomic!vars
  <2>1. /\ net[c] \in {"none", "conflict"} /\ net'[c] \in {"none", "conflict", "sent"}
        /\ \A d \in Callers \ {c} : net'[d] = net[d]
        /\ UNCHANGED <<projection, records, call>>
    BY <1>0, <1>2 DEF ReadProjection, ReadAbsent, TypeOK, IInv, ResultMatches
  <2>2. appliedBar' = appliedBar /\ appliedBar[c] = FALSE
    BY <2>1 DEF appliedBar
  <2>3. pc[c] = "read" /\ (\/ pc' = [pc EXCEPT ![c] = "wait"]
                          \/ pc' = [pc EXCEPT ![c] = "raised"]
                          \/ pc' = [pc EXCEPT ![c] = "conflict"])
    BY <1>2 DEF ReadProjection, ReadAbsent
  <2>4. CASE pc' = [pc EXCEPT ![c] = "wait"]
    <3>1. resultBar' = resultBar
      BY <1>0, <2>3, <2>4 DEF TypeOK, resultBar, Result
    <3>. QED BY <2>1, <2>2, <3>1 DEF Atomic!vars, appliedBar, resultBar
  <2>5. CASE pc' # [pc EXCEPT ![c] = "wait"]
    <3>1. resultBar[c] = "pending" /\ resultBar' = [resultBar EXCEPT ![c] = "refused"]
      BY <1>0, <2>3, <2>5 DEF TypeOK, resultBar, Result
    <3>2. Atomic!Return(c, "refused")
      BY <2>1, <2>2, <3>1 DEF Atomic!Return, appliedBar, resultBar
    <3>. QED BY <3>2 DEF Atomic!Next
  <2>. QED BY <2>4, <2>5
<1>3. ASSUME NEW c \in Callers, net[c] = "sent", net' = [net EXCEPT ![c] = "applied"],
             UNCHANGED <<call, pc>>
      PROVE  /\ ~appliedBar[c] /\ resultBar[c] \in {"pending", "error"}
             /\ appliedBar' = [appliedBar EXCEPT ![c] = TRUE]
             /\ resultBar' = resultBar
  <2>1. pc[c] \in {"wait", "error"}
    BY <1>0, <1>3 DEF TypeOK, IInv, ResultMatches, Ended
  <2>. QED BY <1>0, <1>3, <2>1 DEF TypeOK, appliedBar, resultBar, Result
<1>4. ASSUME NEW c \in Callers, net[c] = "sent", net' = [net EXCEPT ![c] = "conflict"],
             UNCHANGED <<projection, records, call, pc>>
      PROVE  UNCHANGED Atomic!vars
  <2>1. appliedBar' = appliedBar /\ resultBar' = resultBar
    BY <1>0, <1>4 DEF TypeOK, appliedBar, resultBar, Result
  <2>. QED BY <1>4, <2>1 DEF Atomic!vars, appliedBar, resultBar
<1>5. ASSUME NEW c \in Callers, ServerUpdate(c)
      PROVE  Atomic!Next \/ UNCHANGED Atomic!vars
  <2>. DEFINE k == call[c].key
  <2>1. /\ net[c] = "sent" /\ call[c] \in MergeCalls /\ k \in Keys
        /\ call[c] = [kind |-> "merge", key |-> k]
    BY <1>5 DEF ServerUpdate, MergeCalls
  <2>2. CASE request[c].sha = Sha(projection)
    <3>1. PICK old \in Projections :
             /\ ~Refuses(old, k)
             /\ request[c].body = Transform(old, c, k)
             /\ request[c].sha = Sha(old)
      BY <2>1 DEF IInv, RequestFaithful
    <3>2. old = projection
      BY <2>2, <3>1, ShaInjective
    <3>3. projection' = [projection EXCEPT !.orders[k] = c] /\ projection.orders[k] = Nobody
      BY <1>5, <2>2, <3>1, <3>2 DEF ServerUpdate, Transform, Refuses
    <3>4. Atomic!ApplyMerge(c, k)
      BY <1>5, <2>1, <3>3 DEF ServerUpdate, Atomic!ApplyMerge
    <3>5. Atomic!Apply(c)
      BY <1>3, <1>5, <2>1, <2>2, <3>4 DEF ServerUpdate, Atomic!Apply, appliedBar, resultBar
    <3>. QED BY <3>5 DEF Atomic!Next
  <2>3. CASE request[c].sha # Sha(projection)
    BY <1>4, <1>5, <2>1, <2>3 DEF ServerUpdate
  <2>. QED BY <2>2, <2>3
<1>6. ASSUME NEW c \in Callers, ServerCreate(c)
      PROVE  Atomic!Next \/ UNCHANGED Atomic!vars
  <2>. DEFINE p == call[c].path
  <2>1. /\ net[c] = "sent" /\ p \in Paths
        /\ call[c] = [kind |-> "create", path |-> p]
    BY <1>6 DEF ServerCreate, CreateCalls
  <2>2. CASE records[p] = Nobody
    <3>1. Atomic!ApplyCreate(c, p)
      BY <1>6, <2>1, <2>2 DEF ServerCreate, CreatesFile, Atomic!ApplyCreate
    <3>2. Atomic!Apply(c)
      BY <1>3, <1>6, <2>1, <2>2, <3>1
      DEF ServerCreate, CreatesFile, Atomic!Apply, appliedBar, resultBar
    <3>. QED BY <3>2 DEF Atomic!Next
  <2>3. CASE records[p] # Nobody
    BY <1>4, <1>6, <2>1, <2>3 DEF ServerCreate, CreatesFile
  <2>. QED BY <2>2, <2>3
<1>7. ASSUME NEW c \in Callers, Receive(c) \/ Fail(c)
      PROVE  Atomic!Next \/ UNCHANGED Atomic!vars
  <2>1. /\ appliedBar' = appliedBar /\ pc[c] \in {"read", "wait"}
        /\ UNCHANGED <<projection, records, call, net>>
    BY <1>7 DEF Receive, Fail, appliedBar
  <2>2. \/ pc' = [pc EXCEPT ![c] = "ok"] /\ net[c] = "applied"
        \/ pc' = [pc EXCEPT ![c] = "read"]
        \/ /\ net[c] = "conflict"
           /\ \/ pc' = [pc EXCEPT ![c] = "conflict"]
              \/ pc' = [pc EXCEPT ![c] = "exhausted"]
        \/ pc' = [pc EXCEPT ![c] = "error"]
    BY <1>7 DEF Receive, Fail
  <2>3. CASE pc' = [pc EXCEPT ![c] = "read"]
    <3>1. resultBar' = resultBar
      BY <1>0, <2>1, <2>3 DEF TypeOK, resultBar, Result
    <3>. QED BY <2>1, <3>1 DEF Atomic!vars, appliedBar, resultBar
  <2>4. CASE pc' # [pc EXCEPT ![c] = "read"]
    <3>1. \E answer \in {"ok", "refused", "error"} :
             /\ resultBar' = [resultBar EXCEPT ![c] = answer]
             /\ answer = "ok" => appliedBar[c]
             /\ answer = "refused" => ~appliedBar[c]
      <4>1. CASE pc' = [pc EXCEPT ![c] = "ok"] /\ net[c] = "applied"
        <5>1. resultBar' = [resultBar EXCEPT ![c] = "ok"]
          BY <1>0, <4>1 DEF TypeOK, resultBar, Result
        <5>. QED BY <4>1, <5>1 DEF appliedBar
      <4>2. CASE /\ net[c] = "conflict"
                 /\ \/ pc' = [pc EXCEPT ![c] = "conflict"]
                    \/ pc' = [pc EXCEPT ![c] = "exhausted"]
        <5>1. resultBar' = [resultBar EXCEPT ![c] = "refused"]
          BY <1>0, <4>2 DEF TypeOK, resultBar, Result
        <5>. QED BY <4>2, <5>1 DEF appliedBar
      <4>3. CASE pc' = [pc EXCEPT ![c] = "error"]
        <5>1. resultBar' = [resultBar EXCEPT ![c] = "error"]
          BY <1>0, <4>3 DEF TypeOK, resultBar, Result
        <5>. QED BY <5>1
      <4>. QED BY <2>2, <2>4, <4>1, <4>2, <4>3
    <3>2. resultBar[c] = "pending"
      BY <2>1 DEF resultBar, Result
    <3>3. \E answer \in {"ok", "refused", "error"} : Atomic!Return(c, answer)
      BY <2>1, <3>1, <3>2 DEF Atomic!Return, appliedBar, resultBar
    <3>. QED BY <3>3 DEF Atomic!Next
  <2>. QED BY <2>3, <2>4
<1>8. ASSUME OwnerEdit PROVE Atomic!Next
  <2>1. PICK value \in OwnerValues : projection' = [projection EXCEPT !.owner = value]
    BY <1>8 DEF OwnerEdit
  <2>2. appliedBar' = appliedBar /\ resultBar' = resultBar
    BY <1>8 DEF OwnerEdit, appliedBar, resultBar, Result
  <2>3. Atomic!OwnerEdit(value)
    BY <1>8, <2>1, <2>2 DEF OwnerEdit, Atomic!OwnerEdit, appliedBar, resultBar
  <2>. QED BY <2>3 DEF Atomic!Next
<1>9. CASE UNCHANGED vars
  <2>1. appliedBar' = appliedBar /\ resultBar' = resultBar
    BY <1>9 DEF vars, appliedBar, resultBar, Result
  <2>. QED BY <1>9, <2>1 DEF vars, Atomic!vars, appliedBar, resultBar
<1>. QED
  BY <1>1, <1>2, <1>5, <1>6, <1>7, <1>8, <1>9 DEF Next, Caller, Server

(* The store over HTTP implements the atomic store: whatever is lost, late  *)
(* or retried, an effect happens at most once and on the latest content     *)
(* (private_store.py 102-149).                                              *)
THEOREM Refinement == Spec => ImplementsAtomicStore
BY InitIInv, NextIInv, AtomicInit, AtomicNext, PTL
DEF Spec, ImplementsAtomicStore, Atomic!Spec
=============================================================================
