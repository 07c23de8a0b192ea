-------------------------- MODULE BlobStoreProofs --------------------------
(***************************************************************************)
(* What the quota check bounds and what the grace window protects, for any *)
(* number of blobs, manifests and requests.                                *)
(*                                                                         *)
(* QuotaOvershootBounded: a request that is past its check may still add   *)
(* its blob, so the invariant counts those blobs with the recorded ones.   *)
(*                                                                         *)
(* YoungOnlyIfReplaced: what a sweep has listed stays expired until it is  *)
(* through with it, unless another removes the row (ListSound); this holds *)
(* with any number of sweeps and direct deletes.                           *)
(*                                                                         *)
(* CleanImageIntact: the blobs a sweep has listed stay expired until their *)
(* rows go (SweepSound), and what a push has added within its window is    *)
(* too young to be one of them (PushSound).  It holds with one garbage     *)
(* collector process and without the two other ways to lose a blob: its    *)
(* direct delete, and the download taken back for the quota.               *)
(***************************************************************************)
EXTENDS BlobStore, FiniteSetTheorems, TLAPS

\* Where a request is past its last quota check and may record its blob.
Past == {"copy", "record", "cache_record"}

InFlight == {Blob(c) : c \in {d \in Clients : req[d].at \in Past}}

\* What the organization holds once every request past its check has finished.
Claimed == Recorded \cup InFlight

ClaimedBounded ==
    Quota > 0 =>
        IsFiniteSet(Claimed) /\ Cardinality(Claimed) <= Quota + Cardinality(Clients) - 1

-----------------------------------------------------------------------------
(***************************************************************************)
(* Types                                                                   *)
(***************************************************************************)

\* The stage of a request tells what it is a request for.
LEMMA OfBlob ==
    ASSUME TypeOK, NEW c \in Clients, req[c].at \in BlobStages
    PROVE  req[c] \in BlobRequest
  <1>1. req[c] \in {Idle} \cup BlobRequest \cup ManifestRequest
    BY DEF TypeOK, Request
  <1>2. req[c] # Idle
    BY DEF Idle, BlobStages
  <1>3. ASSUME req[c] \in ManifestRequest PROVE FALSE
    <2>1. req[c].at \in ManifestStages
      BY <1>3 DEF ManifestRequest
    <2> QED
      BY <2>1 DEF BlobStages, ManifestStages
  <1> QED
    BY <1>1, <1>2, <1>3

LEMMA OfManifest ==
    ASSUME TypeOK, NEW c \in Clients, req[c].at \in ManifestStages
    PROVE  req[c] \in ManifestRequest
  <1>1. req[c] \in {Idle} \cup BlobRequest \cup ManifestRequest
    BY DEF TypeOK, Request
  <1>2. req[c] # Idle
    BY DEF Idle, ManifestStages
  <1>3. ASSUME req[c] \in BlobRequest PROVE FALSE
    <2>1. req[c].at \in BlobStages
      BY <1>3 DEF BlobRequest
    <2> QED
      BY <2>1 DEF BlobStages, ManifestStages
  <1> QED
    BY <1>1, <1>2, <1>3

LEMMA BlobOf ==
    ASSUME TypeOK, NEW c \in Clients, req[c].at \in BlobStages
    PROVE  Blob(c) \in Blobs
  BY OfBlob DEF BlobRequest, Blob

\* A request starts, moves on and ends as a request.
LEMMA StartBlobType ==
    ASSUME TypeOK, NEW c \in Clients, NEW op, NEW s \in BlobStages, NEW b \in Blobs,
           Start(c, op, s, b, NoManifest, {})
    PROVE  req' \in [Clients -> Request]
  <1>1. [Idle EXCEPT !.at = s, !.blob = b, !.manifest = NoManifest, !.todo = {}] \in BlobRequest
    BY DEF Idle, BlobRequest
  <1> QED
    BY <1>1 DEF Start, TypeOK, Request

LEMMA GotoType ==
    ASSUME TypeOK, NEW c \in Clients, req[c].at \in BlobStages, NEW s \in BlobStages, Goto(c, s)
    PROVE  req' \in [Clients -> Request]
  <1>1. [req[c] EXCEPT !.at = s] \in BlobRequest
    BY OfBlob DEF BlobRequest
  <1> QED
    BY <1>1 DEF Goto, TypeOK, Request

LEMMA FinishType ==
    ASSUME TypeOK, NEW c \in Clients, Finish(c)
    PROVE  req' \in [Clients -> Request]
  BY DEF Finish, TypeOK, Request

\* A row that is recorded or deleted leaves a table of rows.
LEMMA RecordBlobType ==
    ASSUME TypeOK, NEW b, RecordBlob(b)
    PROVE  rows' \in [Blobs -> Nat \cup {Absent}] /\ \A a \in Blobs : rows'[a] <= now
  <1>1. rows' \in [Blobs -> Nat \cup {Absent}]
    BY DEF TypeOK, RecordBlob
  <1>2. now \in Nat /\ \A a \in Blobs : rows[a] <= now /\ rows'[a] \in {rows[a], now}
    BY DEF TypeOK, RecordBlob
  <1> QED
    BY <1>1, <1>2

LEMMA DeleteBlobRowType ==
    ASSUME TypeOK, NEW b, DeleteBlobRow(b)
    PROVE  rows' \in [Blobs -> Nat \cup {Absent}] /\ \A a \in Blobs : rows'[a] <= now
  <1>1. rows' \in [Blobs -> Nat \cup {Absent}]
    BY DEF TypeOK, DeleteBlobRow
  <1>2. now \in Nat /\ Absent <= now
    BY DEF TypeOK, Absent
  <1>3. \A a \in Blobs : rows[a] <= now /\ rows'[a] \in {rows[a], Absent}
    BY DEF TypeOK, DeleteBlobRow
  <1> QED
    BY <1>1, <1>2, <1>3

LEMMA LostByType ==
    ASSUME TypeOK, NEW b \in Blobs, NEW others, LostBy(b, others)
    PROVE  lost' \in [Sweeps -> SUBSET Blobs]
  BY DEF TypeOK, LostBy

LEMMA SweepNextType ==
    ASSUME TypeOK, NEW g \in Sweeps, NEW todo \in SUBSET Blobs, SweepNext(g, todo)
    PROVE  sweep' \in [Sweeps -> Sweep]
  BY DEF SweepNext, TypeOK, Sweep

LEMMA TypeInit == Init => TypeOK
  BY DEF Init, TypeOK, Request, Sweep, Absent

LEMMA UploadType ==
    ASSUME TypeOK, NEW c \in Clients, Upload(c)
    PROVE  TypeOK'
  <1>1. CASE StartUpload(c)
    <2>1. PICK b \in Blobs : Start(c, "upload", "exists", b, NoManifest, {})
      BY <1>1 DEF StartUpload
    <2>2. req' \in [Clients -> Request]
      BY <2>1, StartBlobType DEF BlobStages
    <2> QED
      BY <1>1, <2>2 DEF StartUpload, TypeOK, stores, history, pushed
  <1>2. CASE UploadExists(c)
    <2>1. req' \in [Clients -> Request]
      BY <1>2, GotoType DEF UploadExists, BlobStages
    <2> QED
      BY <1>2, <2>1 DEF UploadExists, TypeOK, stores, history, pushed
  <1>3. CASE UploadQuota(c)
    <2>1. req' \in [Clients -> Request]
      BY <1>3, GotoType, FinishType DEF UploadQuota, BlobStages
    <2> QED
      BY <1>3, <2>1 DEF UploadQuota, TypeOK, stores, history, pushed
  <1>4. CASE UploadCopy(c)
    <2> DEFINE new == Pushing /\ rows[Blob(c)] = Absent
    <2>1. req[c].at \in BlobStages
      BY <1>4 DEF UploadCopy, BlobStages
    <2>2. Blob(c) \in Blobs
      BY <2>1, BlobOf
    <2>3. [req[c] EXCEPT !.at = "record", !.new = new] \in BlobRequest
      BY <2>1, OfBlob DEF BlobRequest, BlobStages
    <2>4. req' \in [Clients -> Request]
      BY <1>4, <2>3 DEF UploadCopy, TypeOK, Request
    <2>5. since' \in [Clients -> Nat]
      BY <1>4 DEF UploadCopy, TypeOK
    <2> QED
      BY <1>4, <2>2, <2>4, <2>5 DEF UploadCopy, TypeOK
  <1>5. CASE UploadRecord(c)
    <2>1. req' \in [Clients -> Request]
      BY <1>5, FinishType DEF UploadRecord
    <2>2. rows' \in [Blobs -> Nat \cup {Absent}] /\ \A b \in Blobs : rows'[b] <= now
      BY <1>5, RecordBlobType DEF UploadRecord
    <2>3. Blob(c) \in Blobs
      BY <1>5, BlobOf DEF UploadRecord, BlobStages
    <2>4. own' \in [Clients -> SUBSET Blobs]
      BY <1>5, <2>3 DEF UploadRecord, TypeOK
    <2> QED
      BY <1>5, <2>1, <2>2, <2>4 DEF UploadRecord, TypeOK
  <1> QED
    BY <1>1, <1>2, <1>3, <1>4, <1>5 DEF Upload

LEMMA ManifestType ==
    ASSUME TypeOK, NEW c \in Clients, Manifest(c)
    PROVE  TypeOK'
  <1>1. CASE StartPut(c)
    <2>1. PICK m \in Manifests : Start(c, "put", "check", NoBlob, m, Refs[m])
      BY <1>1 DEF StartPut
    <2>2. [Idle EXCEPT !.at = "check", !.blob = NoBlob, !.manifest = m, !.todo = Refs[m]]
             \in ManifestRequest
      BY RefsAssumption DEF Idle, ManifestRequest, ManifestStages
    <2>3. req' \in [Clients -> Request]
      BY <2>1, <2>2 DEF Start, TypeOK, Request
    <2> QED
      BY <1>1, <2>3 DEF StartPut, TypeOK, stores, history, pushed
  <1>2. CASE PutCheck(c)
    <2>1. req[c] \in ManifestRequest
      BY <1>2, OfManifest DEF PutCheck, ManifestStages
    <2>2. req' \in [Clients -> Request]
      <3>1. CASE Finish(c)
        BY <3>1, FinishType
      <3>2. ASSUME NEW b, req' = [req EXCEPT ![c].todo = @ \ {b}]
            PROVE  req' \in [Clients -> Request]
        <4>1. [req[c] EXCEPT !.todo = @ \ {b}] \in ManifestRequest
          BY <2>1 DEF ManifestRequest
        <4> QED
          BY <3>2, <4>1 DEF TypeOK, Request
      <3>3. CASE Goto(c, "put")
        <4>1. [req[c] EXCEPT !.at = "put"] \in ManifestRequest
          BY <2>1 DEF ManifestRequest, ManifestStages
        <4> QED
          BY <3>3, <4>1 DEF Goto, TypeOK, Request
      <3> QED
        BY <1>2, <3>1, <3>2, <3>3 DEF PutCheck
    <2> QED
      BY <1>2, <2>2 DEF PutCheck, TypeOK, stores, history, pushed
  <1>3. CASE PutManifest(c)
    <2>1. req[c].manifest \in Manifests
      BY <1>3, OfManifest DEF PutManifest, ManifestStages, ManifestRequest
    <2>2. req' \in [Clients -> Request]
      BY <1>3, FinishType DEF PutManifest
    <2> QED
      BY <1>3, <2>1, <2>2 DEF PutManifest, TypeOK
  <1>4. CASE StoreManifest(c)
    BY <1>4 DEF StoreManifest, TypeOK, history, pushed
  <1>5. CASE DeleteManifest(c)
    BY <1>5 DEF DeleteManifest, TypeOK
  <1> QED
    BY <1>1, <1>2, <1>3, <1>4, <1>5 DEF Manifest

LEMMA DeleteType ==
    ASSUME TypeOK, NEW c \in Clients, Delete(c)
    PROVE  TypeOK'
  <1>1. CASE StartDelete(c)
    <2>1. PICK b \in Recorded : Start(c, "delete_blob", "referenced", b, NoManifest, {})
      BY <1>1 DEF StartDelete
    <2>2. req' \in [Clients -> Request]
      BY <2>1, StartBlobType DEF BlobStages, Recorded
    <2> QED
      BY <1>1, <2>2 DEF StartDelete, TypeOK, stores, history, pushed
  <1>2. CASE DeleteReferenced(c)
    <2>1. req' \in [Clients -> Request]
      BY <1>2, GotoType, FinishType DEF DeleteReferenced, BlobStages
    <2> QED
      BY <1>2, <2>1 DEF DeleteReferenced, TypeOK, stores, history, pushed
  <1>3. CASE DeleteObject(c)
    <2>1. req' \in [Clients -> Request]
      BY <1>3, GotoType DEF DeleteObject, BlobStages
    <2> QED
      BY <1>3, <2>1 DEF DeleteObject, TypeOK, history, pushed
  <1>4. CASE DeleteRow(c)
    <2>1. req' \in [Clients -> Request]
      BY <1>4, FinishType DEF DeleteRow
    <2>2. rows' \in [Blobs -> Nat \cup {Absent}] /\ \A b \in Blobs : rows'[b] <= now
      BY <1>4, DeleteBlobRowType DEF DeleteRow
    <2>3. lost' \in [Sweeps -> SUBSET Blobs]
      BY <1>4, BlobOf, LostByType DEF DeleteRow, BlobStages
    <2> QED
      BY <1>4, <2>1, <2>2, <2>3 DEF DeleteRow, TypeOK, pushed
  <1> QED
    BY <1>1, <1>2, <1>3, <1>4 DEF Delete

LEMMA CacheType ==
    ASSUME TypeOK, NEW c \in Clients, Cache(c)
    PROVE  TypeOK'
  <1>1. CASE StartCache(c)
    <2>1. PICK b \in Blobs : Start(c, "cache", "fetch", b, NoManifest, {})
      BY <1>1 DEF StartCache
    <2>2. req' \in [Clients -> Request]
      BY <2>1, StartBlobType DEF BlobStages
    <2> QED
      BY <1>1, <2>2 DEF StartCache, TypeOK, stores, history, pushed
  <1>2. CASE CacheFetch(c)
    <2>1. req' \in [Clients -> Request]
      BY <1>2, GotoType, FinishType DEF CacheFetch, BlobStages
    <2> QED
      BY <1>2, <2>1 DEF CacheFetch, TypeOK, stores, history, pushed
  <1>3. CASE CacheStore(c)
    <2>1. req' \in [Clients -> Request]
      BY <1>3, GotoType DEF CacheStore, BlobStages
    <2>2. Blob(c) \in Blobs
      BY <1>3, BlobOf DEF CacheStore, BlobStages
    <2> QED
      BY <1>3, <2>1, <2>2 DEF CacheStore, TypeOK, history, pushed
  <1>4. CASE CacheRecheck(c)
    <2>1. req' \in [Clients -> Request]
      BY <1>4, GotoType DEF CacheRecheck, BlobStages
    <2> QED
      BY <1>4, <2>1 DEF CacheRecheck, TypeOK, stores, history, pushed
  <1>5. CASE CacheEvict(c)
    <2>1. req' \in [Clients -> Request]
      BY <1>5, FinishType DEF CacheEvict
    <2> QED
      BY <1>5, <2>1 DEF CacheEvict, TypeOK, history, pushed
  <1>6. CASE CacheRecord(c)
    <2>1. req' \in [Clients -> Request]
      BY <1>6, FinishType DEF CacheRecord
    <2>2. rows' \in [Blobs -> Nat \cup {Absent}] /\ \A b \in Blobs : rows'[b] <= now
      BY <1>6, RecordBlobType DEF CacheRecord
    <2> QED
      BY <1>6, <2>1, <2>2 DEF CacheRecord, TypeOK, history, pushed
  <1> QED
    BY <1>1, <1>2, <1>3, <1>4, <1>5, <1>6 DEF Cache

LEMMA CollectType ==
    ASSUME TypeOK, NEW g \in Sweeps, Collect(g)
    PROVE  TypeOK'
  <1>1. CASE SweepList(g)
    <2>1. [at |-> "object", todo |-> Unreferenced, blob |-> NoBlob] \in Sweep
      BY DEF Sweep, Unreferenced
    <2>2. sweep' \in [Sweeps -> Sweep]
      BY <1>1, <2>1 DEF SweepList, TypeOK
    <2>3. lost' \in [Sweeps -> SUBSET Blobs]
      BY <1>1 DEF SweepList, TypeOK
    <2> QED
      BY <1>1, <2>2, <2>3 DEF SweepList, TypeOK, stores, pushed
  <1>2. CASE SweepObject(g)
    <2>1. PICK b \in sweep[g].todo :
            \/ /\ objects' = objects \ {b}
               /\ sweep' = [sweep EXCEPT ![g] =
                    [at |-> "row", todo |-> sweep[g].todo \ {b}, blob |-> b]]
               /\ UNCHANGED faults
            \/ /\ faults < MaxFaults /\ faults' = faults + 1
               /\ SweepNext(g, sweep[g].todo \ {b})
               /\ UNCHANGED objects
      BY <1>2 DEF SweepObject
    <2>2. sweep[g].todo \in SUBSET Blobs
      BY DEF TypeOK, Sweep, Resting
    <2>3. [at |-> "row", todo |-> sweep[g].todo \ {b}, blob |-> b] \in Sweep
      BY <2>1, <2>2 DEF Sweep
    <2>4. sweep' \in [Sweeps -> Sweep]
      BY <2>1, <2>2, <2>3, SweepNextType DEF TypeOK
    <2> QED
      BY <1>2, <2>1, <2>4 DEF SweepObject, TypeOK, history, pushed
  <1>3. CASE SweepRow(g)
    <2>1. sweep[g].todo \in SUBSET Blobs
      BY DEF TypeOK, Sweep, Resting
    <2>2. sweep' \in [Sweeps -> Sweep]
      BY <1>3, <2>1, SweepNextType DEF SweepRow
    <2>3. rows' \in [Blobs -> Nat \cup {Absent}] /\ \A b \in Blobs : rows'[b] <= now
      BY <1>3, DeleteBlobRowType DEF SweepRow
    <2>4. sweep[g].blob \in Blobs
      BY <1>3 DEF SweepRow, TypeOK, Sweep, Resting
    <2>5. lost' \in [Sweeps -> SUBSET Blobs]
      BY <1>3, <2>4, LostByType DEF SweepRow
    <2> QED
      BY <1>3, <2>2, <2>3, <2>5 DEF SweepRow, TypeOK, pushed
  <1>4. CASE SweepAbort(g)
    <2>1. sweep' \in [Sweeps -> Sweep]
      BY <1>4 DEF SweepAbort, TypeOK, Sweep
    <2> QED
      BY <1>4, <2>1 DEF SweepAbort, TypeOK, stores, history, pushed
  <1> QED
    BY <1>1, <1>2, <1>3, <1>4 DEF Collect

LEMMA TypeNext == TypeOK /\ [Next]_vars => TypeOK'
  <1> SUFFICES ASSUME TypeOK, [Next]_vars PROVE TypeOK'
    OBVIOUS
  <1>1. ASSUME NEW c \in Clients, Abandon(c) PROVE TypeOK'
    <2>1. req' \in [Clients -> Request]
      BY <1>1, FinishType DEF Abandon
    <2> QED
      BY <1>1, <2>1 DEF Abandon, TypeOK, stores, history, pushed
  <1>2. CASE Tick
    <2>1. now \in Nat /\ now' = now + 1 /\ rows' = rows
      BY <1>2 DEF Tick, TypeOK, stores
    <2>2. \A b \in Blobs : rows[b] \in Nat \cup {-1} /\ rows[b] <= now
      BY DEF TypeOK, Absent
    <2>3. \A b \in Blobs : rows'[b] <= now'
      BY <2>1, <2>2
    <2>4. now' \in Nat
      BY <2>1
    <2>5. own' \in [Clients -> SUBSET Blobs]
      BY <1>2 DEF Tick, TypeOK
    <2> QED
      BY <1>2, <2>3, <2>4, <2>5 DEF Tick, TypeOK, stores
  <1>3. CASE UNCHANGED vars
    BY <1>3 DEF vars, TypeOK
  <1> QED
    BY <1>1, <1>2, <1>3, UploadType, ManifestType, DeleteType, CacheType, CollectType DEF Next

\* Every reachable state has its types, for any blobs, manifests, requests and
\* sweeps: in particular a request past its start knows its blob or its manifest.
THEOREM TypeCorrect == Spec => []TypeOK
  BY TypeInit, TypeNext, PTL DEF Spec

-----------------------------------------------------------------------------
(***************************************************************************)
(* The quota                                                               *)
(***************************************************************************)

\* A step that claims nothing new keeps the bound.
LEMMA ClaimsNoMore ==
    ASSUME ClaimedBounded, Claimed' \subseteq Claimed
    PROVE  ClaimedBounded'
  <1> SUFFICES ASSUME Quota > 0
               PROVE  /\ IsFiniteSet(Claimed')
                      /\ Cardinality(Claimed') <= Quota + Cardinality(Clients) - 1
    BY DEF ClaimedBounded
  <1>1. IsFiniteSet(Claimed) /\ Cardinality(Claimed) <= Quota + Cardinality(Clients) - 1
    BY DEF ClaimedBounded
  <1>2. IsFiniteSet(Claimed') /\ Cardinality(Claimed') <= Cardinality(Claimed)
    BY <1>1, FS_Subset
  <1>3. Cardinality(Claimed) \in Nat /\ Cardinality(Claimed') \in Nat /\ Cardinality(Clients) \in Nat
    BY <1>1, <1>2, FS_CardinalityType, ClientsAssumption
  <1> QED
    BY <1>1, <1>2, <1>3, NumberAssumption

\* A request that moves on claims nothing new as long as the blob it may record
\* from there is one already claimed.
LEMMA MovesOn ==
    ASSUME TypeOK, NEW c \in Clients, NEW q, req' = [req EXCEPT ![c] = q],
           Recorded' \subseteq Claimed, q.at \in Past => q.blob \in Claimed
    PROVE  Claimed' \subseteq Claimed
  <1>1. ASSUME NEW d \in Clients, req'[d].at \in Past PROVE req'[d].blob \in Claimed
    <2>1. CASE d = c
      BY <1>1, <2>1 DEF TypeOK
    <2>2. CASE d # c
      <3>1. req'[d] = req[d]
        BY <2>2 DEF TypeOK
      <3> QED
        BY <1>1, <3>1 DEF Claimed, InFlight, Blob
    <2> QED
      BY <2>1, <2>2
  <1>2. InFlight' \subseteq Claimed
    BY <1>1 DEF InFlight, Blob
  <1> QED
    BY <1>2 DEF Claimed

\* In particular when it goes to a stage that is not past the check, or ends.
LEMMA EndsNothing ==
    ASSUME TypeOK, NEW c \in Clients, Finish(c), Recorded' \subseteq Claimed
    PROVE  Claimed' \subseteq Claimed
  BY MovesOn DEF Finish, Idle, Past

LEMMA GoesNowhere ==
    ASSUME TypeOK, NEW c \in Clients, NEW s, Goto(c, s), s \notin Past, UNCHANGED rows
    PROVE  Claimed' \subseteq Claimed
  <1>1. req' = [req EXCEPT ![c] = [req[c] EXCEPT !.at = s]]
    BY DEF Goto
  <1>2. [req[c] EXCEPT !.at = s].at = s
    BY DEF TypeOK, Request, Idle, BlobRequest, ManifestRequest
  <1> QED
    BY <1>1, <1>2, MovesOn DEF Recorded, Claimed

LEMMA StartsNothing ==
    ASSUME TypeOK, NEW c \in Clients, NEW op, NEW s, NEW b, NEW m, NEW todo,
           Start(c, op, s, b, m, todo), s \notin Past, UNCHANGED rows
    PROVE  Claimed' \subseteq Claimed
  <1> DEFINE q == [Idle EXCEPT !.at = s, !.blob = b, !.manifest = m, !.todo = todo]
  <1>1. q.at = s
    BY DEF Idle
  <1> QED
    BY <1>1, MovesOn DEF Start, Recorded, Claimed

\* A request that passes the check claims one blob more than what is recorded and
\* what the other requests may still record.
LEMMA Passes ==
    ASSUME TypeOK, ClaimedBounded, FitsQuota, NEW c \in Clients, NEW s, Goto(c, s), UNCHANGED rows
    PROVE  ClaimedBounded'
  <1> SUFFICES ASSUME Quota > 0
               PROVE  /\ IsFiniteSet(Claimed')
                      /\ Cardinality(Claimed') <= Quota + Cardinality(Clients) - 1
    BY DEF ClaimedBounded
  <1> DEFINE others == Clients \ {c}
             image == {Blob(d) : d \in others}
             f == [d \in others |-> Blob(d)]
  <1>1. IsFiniteSet(Recorded)
    <2>1. IsFiniteSet(Claimed) /\ Recorded \in SUBSET Claimed
      BY DEF ClaimedBounded, Claimed
    <2> QED
      BY <2>1, FS_Subset
  <1>2. IsFiniteSet(others) /\ Cardinality(others) = Cardinality(Clients) - 1
    BY ClientsAssumption, FS_RemoveElement
  <1>3. IsFiniteSet(image) /\ Cardinality(image) <= Cardinality(others)
    <2>1. f \in Surjection(others, image)
      BY DEF Surjection
    <2> HIDE DEF f, others, image
    <2> QED
      BY <1>2, <2>1, FS_Surjection
  <1>4. IsFiniteSet(Recorded \cup image)
        /\ Cardinality(Recorded \cup image) <= Cardinality(Recorded) + Cardinality(image)
    <2> HIDE DEF image
    <2>1. Recorded \cap image \in SUBSET Recorded
      OBVIOUS
    <2>2. IsFiniteSet(Recorded \cap image)
      BY <1>1, <2>1, FS_Subset
    <2>3. Cardinality(Recorded \cap image) \in Nat /\ Cardinality(Recorded) \in Nat
          /\ Cardinality(image) \in Nat
      BY <1>1, <1>3, <2>2, FS_CardinalityType
    <2>4. /\ IsFiniteSet(Recorded \cup image)
          /\ Cardinality(Recorded \cup image) =
               Cardinality(Recorded) + Cardinality(image) - Cardinality(Recorded \cap image)
      BY <1>1, <1>3, FS_Union, Zenon
    <2> QED
      BY <2>3, <2>4
  <1>5. IsFiniteSet(Recorded \cup image \cup {Blob(c)})
        /\ Cardinality(Recorded \cup image \cup {Blob(c)}) <= Cardinality(Recorded \cup image) + 1
    <2> DEFINE all == Recorded \cup image
    <2>1. IsFiniteSet(all) /\ Cardinality(all) \in Nat
      BY <1>4, FS_CardinalityType
    <2>2. IsFiniteSet(all \cup {Blob(c)})
          /\ Cardinality(all \cup {Blob(c)}) = IF Blob(c) \in all THEN Cardinality(all) ELSE Cardinality(all) + 1
      <3> HIDE DEF all
      <3> QED
        BY <2>1, FS_AddElement
    <2>3. Cardinality(all \cup {Blob(c)}) <= Cardinality(all) + 1
      <3> HIDE DEF all
      <3> QED
        BY <2>1, <2>2
    <2> QED
      BY <2>2, <2>3
  <1>6. Claimed' \subseteq Recorded \cup image \cup {Blob(c)}
    <2>1. ASSUME NEW d \in Clients PROVE req'[d].blob = Blob(d)
      BY DEF Goto, TypeOK, Blob, Request, Idle, BlobRequest, ManifestRequest
    <2>2. InFlight' \subseteq image \cup {Blob(c)}
      BY <2>1 DEF InFlight, Blob
    <2> QED
      BY <2>2 DEF Claimed, Recorded
  <1>7. IsFiniteSet(Claimed')
        /\ Cardinality(Claimed') <= Cardinality(Recorded \cup image \cup {Blob(c)})
    <2> HIDE DEF image
    <2> QED
      BY <1>5, <1>6, FS_Subset
  <1>8. Cardinality(Recorded) + 1 <= Quota
    BY DEF FitsQuota, OrgStorageUsed
  <1>9. /\ Cardinality(Recorded) \in Nat /\ Cardinality(image) \in Nat
        /\ Cardinality(Clients) \in Nat /\ Cardinality(Recorded \cup image) \in Nat
        /\ Cardinality(Recorded \cup image \cup {Blob(c)}) \in Nat /\ Cardinality(Claimed') \in Nat
    <2> HIDE DEF image
    <2> QED
      BY <1>1, <1>3, <1>4, <1>5, <1>7, FS_CardinalityType, ClientsAssumption
  <1> HIDE DEF image, others
  <1> QED
    BY <1>2, <1>3, <1>4, <1>5, <1>7, <1>8, <1>9, NumberAssumption

LEMMA ClaimedInit == Init => ClaimedBounded
  <1> SUFFICES ASSUME Init, Quota > 0
               PROVE  IsFiniteSet(Claimed) /\ Cardinality(Claimed) <= Quota + Cardinality(Clients) - 1
    BY DEF ClaimedBounded
  <1>1. Recorded = {}
    BY DEF Init, Recorded
  <1>2. InFlight = {}
    BY DEF Init, InFlight, Idle, Past
  <1>3. Claimed = {}
    BY <1>1, <1>2 DEF Claimed
  <1> QED
    BY <1>3, FS_EmptySet, FS_CardinalityType, ClientsAssumption, NumberAssumption

LEMMA UploadClaims ==
    ASSUME TypeOK, ClaimedBounded, NEW c \in Clients, Upload(c)
    PROVE  ClaimedBounded'
  <1>1. CASE StartUpload(c)
    BY <1>1, StartsNothing, ClaimsNoMore DEF StartUpload, Past, stores
  <1>2. CASE UploadExists(c)
    <2>1. CASE rows[Blob(c)] = Absent
      BY <1>2, <2>1, GoesNowhere, ClaimsNoMore DEF UploadExists, Past, stores
    <2>2. CASE rows[Blob(c)] # Absent
      <3>1. Blob(c) \in Recorded
        BY <1>2, <2>2, BlobOf DEF UploadExists, BlobStages, Recorded
      <3>2. [req[c] EXCEPT !.at = "copy"].blob \in Claimed
        BY <1>2, <3>1, OfBlob DEF UploadExists, BlobStages, BlobRequest, Blob, Claimed
      <3>3. req' = [req EXCEPT ![c] = [req[c] EXCEPT !.at = "copy"]]
        BY <1>2, <2>2 DEF UploadExists, Goto
      <3> QED
        BY <1>2, <3>2, <3>3, MovesOn, ClaimsNoMore DEF UploadExists, stores, Recorded, Claimed
    <2> QED
      BY <2>1, <2>2
  <1>3. CASE UploadQuota(c)
    <2>1. CASE FitsQuota
      BY <1>3, <2>1, Passes DEF UploadQuota, stores
    <2>2. CASE ~FitsQuota
      BY <1>3, <2>2, EndsNothing, ClaimsNoMore DEF UploadQuota, stores, Recorded, Claimed
    <2> QED
      BY <2>1, <2>2
  <1>4. CASE UploadCopy(c)
    <2> DEFINE q == [req[c] EXCEPT !.at = "record", !.new = Pushing /\ rows[Blob(c)] = Absent]
    <2>1. Blob(c) \in Claimed
      BY <1>4 DEF UploadCopy, Claimed, InFlight, Past
    <2>2. q.blob \in Claimed
      BY <1>4, <2>1, OfBlob DEF UploadCopy, BlobStages, BlobRequest, Blob
    <2>3. req' = [req EXCEPT ![c] = q]
      BY <1>4 DEF UploadCopy
    <2> QED
      BY <1>4, <2>2, <2>3, MovesOn, ClaimsNoMore DEF UploadCopy, Recorded, Claimed
  <1>5. CASE UploadRecord(c)
    <2>1. Recorded' \subseteq Claimed
      BY <1>5 DEF UploadRecord, RecordBlob, Recorded, Claimed, InFlight, Past, TypeOK
    <2> QED
      BY <1>5, <2>1, EndsNothing, ClaimsNoMore DEF UploadRecord
  <1> QED
    BY <1>1, <1>2, <1>3, <1>4, <1>5 DEF Upload

LEMMA CacheClaims ==
    ASSUME TypeOK, ClaimedBounded, NEW c \in Clients, Cache(c)
    PROVE  ClaimedBounded'
  <1>1. CASE StartCache(c)
    BY <1>1, StartsNothing, ClaimsNoMore DEF StartCache, Past, stores
  <1>2. CASE CacheFetch(c)
    BY <1>2, GoesNowhere, EndsNothing, ClaimsNoMore
    DEF CacheFetch, Past, stores, Recorded, Claimed
  <1>3. CASE CacheStore(c)
    <2>1. CASE Quota > 0
      BY <1>3, <2>1, GoesNowhere, ClaimsNoMore DEF CacheStore, Past
    <2> QED
      BY <2>1 DEF ClaimedBounded
  <1>4. CASE CacheRecheck(c)
    <2>1. CASE FitsQuota
      BY <1>4, <2>1, Passes DEF CacheRecheck, stores
    <2>2. CASE ~FitsQuota
      BY <1>4, <2>2, GoesNowhere, ClaimsNoMore DEF CacheRecheck, Past, stores
    <2> QED
      BY <2>1, <2>2
  <1>5. CASE CacheEvict(c)
    BY <1>5, EndsNothing, ClaimsNoMore DEF CacheEvict, Recorded, Claimed
  <1>6. CASE CacheRecord(c)
    <2>1. Recorded' \subseteq Claimed
      BY <1>6 DEF CacheRecord, RecordBlob, Recorded, Claimed, InFlight, Past, TypeOK
    <2> QED
      BY <1>6, <2>1, EndsNothing, ClaimsNoMore DEF CacheRecord
  <1> QED
    BY <1>1, <1>2, <1>3, <1>4, <1>5, <1>6 DEF Cache

LEMMA DeleteClaims ==
    ASSUME TypeOK, ClaimedBounded, NEW c \in Clients, Delete(c)
    PROVE  ClaimedBounded'
  <1>1. CASE StartDelete(c)
    BY <1>1, StartsNothing, ClaimsNoMore DEF StartDelete, Past, stores
  <1>2. CASE DeleteReferenced(c)
    BY <1>2, GoesNowhere, EndsNothing, ClaimsNoMore
    DEF DeleteReferenced, Past, stores, Recorded, Claimed
  <1>3. CASE DeleteObject(c)
    BY <1>3, GoesNowhere, ClaimsNoMore DEF DeleteObject, Past
  <1>4. CASE DeleteRow(c)
    <2>1. Recorded' \subseteq Claimed
      BY <1>4 DEF DeleteRow, DeleteBlobRow, Recorded, Claimed, TypeOK
    <2> QED
      BY <1>4, <2>1, EndsNothing, ClaimsNoMore DEF DeleteRow
  <1> QED
    BY <1>1, <1>2, <1>3, <1>4 DEF Delete

LEMMA ManifestClaims ==
    ASSUME TypeOK, ClaimedBounded, NEW c \in Clients, Manifest(c)
    PROVE  ClaimedBounded'
  <1>1. CASE StartPut(c)
    BY <1>1, StartsNothing, ClaimsNoMore DEF StartPut, Past, stores
  <1>2. CASE PutCheck(c)
    <2>1. UNCHANGED rows /\ req[c] \in ManifestRequest
      BY <1>2, OfManifest DEF PutCheck, stores, ManifestStages
    <2>2. CASE Finish(c)
      BY <2>1, <2>2, EndsNothing, ClaimsNoMore DEF Recorded, Claimed
    <2>3. ASSUME NEW b, req' = [req EXCEPT ![c].todo = @ \ {b}] PROVE ClaimedBounded'
      <3> DEFINE q == [req[c] EXCEPT !.todo = @ \ {b}]
      <3>1. q.at \notin Past
        BY <2>1 DEF ManifestRequest, ManifestStages, Past
      <3>2. req' = [req EXCEPT ![c] = q]
        BY <2>3
      <3> QED
        BY <2>1, <3>1, <3>2, MovesOn, ClaimsNoMore DEF Recorded, Claimed
    <2>4. CASE Goto(c, "put")
      BY <2>1, <2>4, GoesNowhere, ClaimsNoMore DEF Past
    <2> QED
      BY <1>2, <2>2, <2>3, <2>4 DEF PutCheck
  <1>3. CASE PutManifest(c)
    BY <1>3, EndsNothing, ClaimsNoMore DEF PutManifest, Recorded, Claimed
  <1>4. CASE StoreManifest(c) \/ DeleteManifest(c)
    BY <1>4, ClaimsNoMore
    DEF StoreManifest, DeleteManifest, Claimed, Recorded, InFlight, Blob
  <1> QED
    BY <1>1, <1>2, <1>3, <1>4 DEF Manifest

LEMMA ClaimedNext == TypeOK /\ ClaimedBounded /\ [Next]_vars => ClaimedBounded'
  <1> SUFFICES ASSUME TypeOK, ClaimedBounded, [Next]_vars PROVE ClaimedBounded'
    OBVIOUS
  <1>1. ASSUME NEW c \in Clients, Abandon(c) PROVE ClaimedBounded'
    BY <1>1, EndsNothing, ClaimsNoMore DEF Abandon, stores, Recorded, Claimed
  <1>2. ASSUME NEW g \in Sweeps, Collect(g) PROVE ClaimedBounded'
    <2>1. CASE SweepRow(g)
      BY <2>1, ClaimsNoMore
      DEF SweepRow, DeleteBlobRow, Claimed, Recorded, InFlight, Blob, TypeOK
    <2>2. CASE SweepList(g) \/ SweepObject(g) \/ SweepAbort(g)
      BY <2>2, ClaimsNoMore
      DEF SweepList, SweepObject, SweepAbort, stores, Claimed, Recorded, InFlight, Blob
    <2> QED
      BY <1>2, <2>1, <2>2 DEF Collect
  <1>3. CASE Tick \/ UNCHANGED vars
    BY <1>3, ClaimsNoMore DEF Tick, vars, stores, Claimed, Recorded, InFlight, Blob
  <1> QED
    BY <1>1, <1>2, <1>3, UploadClaims, CacheClaims, DeleteClaims, ManifestClaims DEF Next

LEMMA ClaimedImplies == ClaimedBounded => QuotaOvershootBounded
  <1> SUFFICES ASSUME ClaimedBounded, Quota > 0
               PROVE  OrgStorageUsed <= Quota + Cardinality(Clients) - 1
    BY DEF QuotaOvershootBounded
  <1>1. IsFiniteSet(Claimed) /\ Cardinality(Claimed) <= Quota + Cardinality(Clients) - 1
    BY DEF ClaimedBounded
  <1>2. Recorded \in SUBSET Claimed
    BY DEF Claimed
  <1>3. IsFiniteSet(Recorded) /\ Cardinality(Recorded) <= Cardinality(Claimed)
    BY <1>1, <1>2, FS_Subset
  <1>4. /\ Cardinality(Claimed) \in Nat /\ Cardinality(Recorded) \in Nat
        /\ Cardinality(Clients) \in Nat
    BY <1>1, <1>3, FS_CardinalityType, ClientsAssumption
  <1> QED
    BY <1>1, <1>3, <1>4, NumberAssumption DEF OrgStorageUsed

\* However many uploads and downloads race, the recorded blobs exceed the quota by
\* at most one per request but the first.
THEOREM OvershootBounded == Spec => []QuotaOvershootBounded
  BY TypeInit, TypeNext, ClaimedInit, ClaimedNext, ClaimedImplies, PTL DEF Spec

-----------------------------------------------------------------------------
(***************************************************************************)
(* What a sweep has listed                                                 *)
(***************************************************************************)
\* One garbage collector process, which the deployment has unless `ruskery gc` is
\* run beside the server's loop.
OneSweeper == \A g, h \in Sweeps : g = h

NoDirectDelete == "delete_blob" \notin Ops

\* The blobs a sweep in progress has listed, up to the one whose row goes next.
Doomed == {b \in Blobs : \E g \in Sweeps : b \in sweep[g].todo \/ b = sweep[g].blob}

DeleteStages == {"referenced", "delete_object", "delete_row"}
NothingDeleted == \A c \in Clients : req[c].at \notin DeleteStages

DoomedExpired == \A b \in Doomed : Expired(b)
RowBesideList == \A g \in Sweeps : sweep[g].blob \notin sweep[g].todo

SweepSound == NothingDeleted /\ DoomedExpired /\ RowBesideList

-----------------------------------------------------------------------------
\* A row that is there keeps its age when another blob is recorded.
LEMMA RowKept ==
    ASSUME TypeOK, NEW b, RecordBlob(b), NEW a \in Blobs
    PROVE  /\ rows[a] # Absent => rows'[a] = rows[a]
           /\ rows'[a] = rows[a] \/ (rows[a] = Absent /\ rows'[a] = now)
  <1>1. rows' = [rows EXCEPT ![b] = IF rows[b] = Absent THEN now ELSE rows[b]]
    BY DEF RecordBlob
  <1>2. rows'[a] = IF a = b THEN (IF rows[b] = Absent THEN now ELSE rows[b]) ELSE rows[a]
    BY <1>1 DEF TypeOK
  <1> QED
    BY <1>2

\* Time alone makes no row younger.
LEMMA StaysExpired ==
    ASSUME TypeOK, TypeOK', NEW b \in Blobs, Expired(b), rows'[b] = rows[b], now <= now'
    PROVE  Expired(b)'
  <1>1. rows[b] \in Nat \cup {Absent} /\ now \in Nat /\ now' \in Nat
    BY DEF TypeOK
  <1> QED
    BY <1>1, NumberAssumption DEF Expired, Absent

LEMMA ListsStay ==
    ASSUME TypeOK, TypeOK', SweepSound, UNCHANGED sweep, now <= now',
           \A b \in Blobs : rows[b] # Absent => rows'[b] = rows[b]
    PROVE  DoomedExpired' /\ RowBesideList'
  <1>1. Doomed' = Doomed
    BY DEF Doomed
  <1>2. ASSUME NEW b \in Doomed PROVE Expired(b)'
    <2>1. b \in Blobs /\ Expired(b)
      BY DEF SweepSound, DoomedExpired, Doomed
    <2>2. rows'[b] = rows[b]
      BY <2>1 DEF Expired
    <2> QED
      BY <2>1, <2>2, StaysExpired
  <1> QED
    BY <1>1, <1>2 DEF SweepSound, DoomedExpired, RowBesideList

LEMMA NothingStarted ==
    ASSUME TypeOK, NothingDeleted, NEW c \in Clients, NEW q, req' = [req EXCEPT ![c] = q],
           q.at \notin DeleteStages
    PROVE  NothingDeleted'
  BY DEF NothingDeleted, TypeOK

\* A request goes on, starts or ends.
LEMMA MovesAside ==
    ASSUME TypeOK, NothingDeleted, NEW c \in Clients, NEW s, Goto(c, s), s \notin DeleteStages
    PROVE  NothingDeleted'
  <1>1. req' = [req EXCEPT ![c] = [req[c] EXCEPT !.at = s]]
    BY DEF Goto
  <1>2. [req[c] EXCEPT !.at = s].at = s
    BY DEF TypeOK, Request, Idle, BlobRequest, ManifestRequest
  <1> QED
    BY <1>1, <1>2, NothingStarted

LEMMA EndsAside ==
    ASSUME TypeOK, NothingDeleted, NEW c \in Clients, Finish(c)
    PROVE  NothingDeleted'
  BY NothingStarted DEF Finish, Idle, DeleteStages

LEMMA StartsAside ==
    ASSUME TypeOK, NothingDeleted, NEW c \in Clients, NEW op, NEW s, NEW b, NEW m, NEW todo,
           Start(c, op, s, b, m, todo), s \notin DeleteStages
    PROVE  NothingDeleted'
  <1> DEFINE q == [Idle EXCEPT !.at = s, !.blob = b, !.manifest = m, !.todo = todo]
  <1>1. q.at = s
    BY DEF Idle
  <1> QED
    BY <1>1, NothingStarted DEF Start

LEMMA SoundInit == Init => SweepSound
  BY NullAssumption
  DEF Init, SweepSound, NothingDeleted, DoomedExpired, RowBesideList, Doomed, Idle, Resting,
      DeleteStages

LEMMA SoundUpload ==
    ASSUME TypeOK, TypeOK', SweepSound, NEW c \in Clients, Upload(c)
    PROVE  SweepSound'
  <1>0. NothingDeleted
    BY DEF SweepSound
  <1>1. UNCHANGED <<now, sweep>>
    BY DEF Upload, StartUpload, UploadExists, UploadQuota, UploadCopy, UploadRecord
  <1>2. \A b \in Blobs : rows[b] # Absent => rows'[b] = rows[b]
    BY RowKept
    DEF Upload, StartUpload, UploadExists, UploadQuota, UploadCopy, UploadRecord, stores
  <1>3. now <= now'
    BY <1>1 DEF TypeOK
  <1>4. DoomedExpired' /\ RowBesideList'
    BY <1>1, <1>2, <1>3, ListsStay
  <1>5. NothingDeleted'
    <2>1. CASE StartUpload(c)
      BY <1>0, <2>1, StartsAside DEF StartUpload, DeleteStages
    <2>2. CASE UploadExists(c)
      BY <1>0, <2>2, MovesAside DEF UploadExists, DeleteStages
    <2>3. CASE UploadQuota(c)
      BY <1>0, <2>3, MovesAside, EndsAside DEF UploadQuota, DeleteStages
    <2>4. CASE UploadCopy(c)
      <3> DEFINE q == [req[c] EXCEPT !.at = "record", !.new = Pushing /\ rows[Blob(c)] = Absent]
      <3>1. req' = [req EXCEPT ![c] = q]
        BY <2>4 DEF UploadCopy
      <3>2. q.at = "record"
        BY <2>4, OfBlob DEF UploadCopy, BlobStages, BlobRequest
      <3> HIDE DEF q
      <3> QED
        BY <1>0, <3>1, <3>2, NothingStarted DEF DeleteStages
    <2>5. CASE UploadRecord(c)
      BY <1>0, <2>5, EndsAside DEF UploadRecord
    <2> QED
      BY <2>1, <2>2, <2>3, <2>4, <2>5 DEF Upload
  <1> QED
    BY <1>4, <1>5 DEF SweepSound

LEMMA SoundManifest ==
    ASSUME TypeOK, TypeOK', SweepSound, NEW c \in Clients, Manifest(c)
    PROVE  SweepSound'
  <1>0. NothingDeleted
    BY DEF SweepSound
  <1>1. UNCHANGED <<now, rows, sweep>>
    BY DEF Manifest, StartPut, PutCheck, PutManifest, StoreManifest, DeleteManifest, stores
  <1>2. now <= now'
    BY <1>1 DEF TypeOK
  <1>3. DoomedExpired' /\ RowBesideList'
    BY <1>1, <1>2, ListsStay
  <1>4. NothingDeleted'
    <2>1. CASE StartPut(c)
      BY <1>0, <2>1, StartsAside DEF StartPut, DeleteStages
    <2>2. CASE PutCheck(c)
      <3>1. ASSUME NEW b, req' = [req EXCEPT ![c].todo = @ \ {b}] PROVE NothingDeleted'
        <4> DEFINE q == [req[c] EXCEPT !.todo = @ \ {b}]
        <4>1. req' = [req EXCEPT ![c] = q]
          BY <3>1
        <4>2. q.at = "check"
          BY <2>2, OfManifest DEF PutCheck, ManifestStages, ManifestRequest
        <4> HIDE DEF q
        <4> QED
          BY <1>0, <4>1, <4>2, NothingStarted DEF DeleteStages
      <3> QED
        BY <1>0, <2>2, <3>1, MovesAside, EndsAside DEF PutCheck, DeleteStages
    <2>3. CASE PutManifest(c)
      BY <1>0, <2>3, EndsAside DEF PutManifest
    <2>4. CASE StoreManifest(c) \/ DeleteManifest(c)
      BY <1>0, <2>4 DEF StoreManifest, DeleteManifest, NothingDeleted
    <2> QED
      BY <2>1, <2>2, <2>3, <2>4 DEF Manifest
  <1> QED
    BY <1>3, <1>4 DEF SweepSound

\* Where direct deletes are off, none is under way.
LEMMA NoDelete ==
    ASSUME NoDirectDelete, NothingDeleted, NEW c \in Clients, Delete(c)
    PROVE  FALSE
  BY DEF Delete, StartDelete, Start, DeleteReferenced, DeleteObject, DeleteRow, NoDirectDelete,
         NothingDeleted, DeleteStages

LEMMA SoundCache ==
    ASSUME TypeOK, TypeOK', SweepSound, NEW c \in Clients, Cache(c)
    PROVE  SweepSound'
  <1>0. NothingDeleted
    BY DEF SweepSound
  <1>1. UNCHANGED <<now, sweep>>
    BY DEF Cache, StartCache, CacheFetch, CacheStore, CacheRecheck, CacheEvict, CacheRecord
  <1>2. \A b \in Blobs : rows[b] # Absent => rows'[b] = rows[b]
    BY RowKept
    DEF Cache, StartCache, CacheFetch, CacheStore, CacheRecheck, CacheEvict, CacheRecord, stores
  <1>3. now <= now'
    BY <1>1 DEF TypeOK
  <1>4. DoomedExpired' /\ RowBesideList'
    BY <1>1, <1>2, <1>3, ListsStay
  <1>5. NothingDeleted'
    <2>1. CASE StartCache(c)
      BY <1>0, <2>1, StartsAside DEF StartCache, DeleteStages
    <2>2. CASE CacheFetch(c)
      BY <1>0, <2>2, MovesAside, EndsAside DEF CacheFetch, DeleteStages
    <2>3. CASE CacheStore(c)
      BY <1>0, <2>3, MovesAside DEF CacheStore, DeleteStages
    <2>4. CASE CacheRecheck(c)
      BY <1>0, <2>4, MovesAside DEF CacheRecheck, DeleteStages
    <2>5. CASE CacheEvict(c) \/ CacheRecord(c)
      BY <1>0, <2>5, EndsAside DEF CacheEvict, CacheRecord
    <2> QED
      BY <2>1, <2>2, <2>3, <2>4, <2>5 DEF Cache
  <1> QED
    BY <1>4, <1>5 DEF SweepSound

\* What a sweep holds after it has changed its own place: with one sweeper, the
\* listed blobs are those of that place.
LEMMA OnlyDoomed ==
    ASSUME TypeOK, OneSweeper, NEW g \in Sweeps
    PROVE  Doomed = {b \in Blobs : b \in sweep[g].todo \/ b = sweep[g].blob}
  BY DEF OneSweeper, Doomed

LEMMA PlaceChanges ==
    ASSUME TypeOK, TypeOK', OneSweeper, NEW g \in Sweeps, NEW q,
           sweep' = [sweep EXCEPT ![g] = q], UNCHANGED now, q.blob \notin q.todo,
           \A b \in Blobs : b \in q.todo \/ b = q.blob => Expired(b) /\ rows'[b] = rows[b]
    PROVE  DoomedExpired' /\ RowBesideList'
  <1>1. sweep'[g] = q
    BY DEF TypeOK
  <1>2. RowBesideList'
    BY <1>1 DEF OneSweeper, RowBesideList
  <1>3. ASSUME NEW b \in Doomed' PROVE Expired(b)'
    <2>1. b \in Blobs /\ (b \in q.todo \/ b = q.blob)
      BY <1>1, <1>3 DEF Doomed, OneSweeper
    <2>2. now <= now'
      BY DEF TypeOK
    <2> QED
      BY <2>1, <2>2, StaysExpired
  <1> QED
    BY <1>2, <1>3 DEF DoomedExpired

LEMMA SweepFacts ==
    ASSUME TypeOK, NEW g \in Sweeps
    PROVE  /\ sweep[g].todo \in SUBSET Blobs
           /\ sweep[g].at = "row" => sweep[g].blob \in Blobs
           /\ Resting.todo = {} /\ Resting.blob = NoBlob
  BY DEF TypeOK, Sweep, Resting

\* A sweep that goes on with blobs of its list keeps to expired ones.
LEMMA GoesOn ==
    ASSUME TypeOK, TypeOK', OneSweeper, SweepSound, NEW g \in Sweeps,
           NEW todo \in SUBSET sweep[g].todo, SweepNext(g, todo), UNCHANGED now,
           \A b \in todo : rows'[b] = rows[b]
    PROVE  DoomedExpired' /\ RowBesideList'
  <1> DEFINE q == IF todo = {} THEN Resting ELSE [at |-> "object", todo |-> todo, blob |-> NoBlob]
  <1>1. q.todo = todo /\ q.blob = NoBlob
    BY DEF Resting
  <1>2. sweep' = [sweep EXCEPT ![g] = q]
    BY DEF SweepNext
  <1>3. todo \subseteq Blobs /\ todo \subseteq Doomed
    BY SweepFacts DEF Doomed
  <1>4. \A b \in todo : Expired(b)
    BY <1>3 DEF SweepSound, DoomedExpired
  <1> HIDE DEF q
  <1>5. \A b \in Blobs : b \in q.todo \/ b = q.blob => Expired(b) /\ rows'[b] = rows[b]
    BY <1>1, <1>4, NullAssumption
  <1>6. q.blob \notin q.todo
    BY <1>1, <1>3, NullAssumption
  <1> QED
    BY <1>2, <1>5, <1>6, PlaceChanges

LEMMA SoundCollect ==
    ASSUME TypeOK, TypeOK', OneSweeper, SweepSound, NEW g \in Sweeps, Collect(g)
    PROVE  SweepSound'
  <1>1. UNCHANGED <<now, req>>
    BY DEF Collect, SweepList, SweepObject, SweepRow, SweepAbort
  <1>2. NothingDeleted'
    BY <1>1 DEF SweepSound, NothingDeleted
  <1>3. CASE SweepList(g)
    <2> DEFINE q == [at |-> "object", todo |-> Unreferenced, blob |-> NoBlob]
    <2>1. sweep' = [sweep EXCEPT ![g] = q] /\ UNCHANGED rows
      BY <1>3 DEF SweepList, stores
    <2>2. q.todo = Unreferenced /\ q.blob = NoBlob
      OBVIOUS
    <2> HIDE DEF q
    <2>3. \A b \in Blobs : b \in q.todo \/ b = q.blob => Expired(b) /\ rows'[b] = rows[b]
      BY <2>1, <2>2, NullAssumption DEF Unreferenced
    <2>4. q.blob \notin q.todo
      BY <2>2, NullAssumption DEF Unreferenced
    <2>5. DoomedExpired' /\ RowBesideList'
      BY <1>1, <2>1, <2>3, <2>4, PlaceChanges
    <2> QED
      BY <1>2, <2>5 DEF SweepSound
  <1>4. CASE SweepObject(g)
    <2>1. PICK b \in sweep[g].todo :
            \/ sweep' = [sweep EXCEPT ![g] = [at |-> "row", todo |-> sweep[g].todo \ {b}, blob |-> b]]
            \/ SweepNext(g, sweep[g].todo \ {b})
      BY <1>4 DEF SweepObject
    <2>2. UNCHANGED rows
      BY <1>4 DEF SweepObject
    <2>3. CASE SweepNext(g, sweep[g].todo \ {b})
      <3>1. sweep[g].todo \ {b} \in SUBSET sweep[g].todo
        OBVIOUS
      <3> QED
        BY <1>1, <1>2, <2>2, <2>3, <3>1, GoesOn DEF SweepSound
    <2>4. CASE sweep' = [sweep EXCEPT ![g] = [at |-> "row", todo |-> sweep[g].todo \ {b}, blob |-> b]]
      <3> DEFINE q == [at |-> "row", todo |-> sweep[g].todo \ {b}, blob |-> b]
      <3>1. sweep' = [sweep EXCEPT ![g] = q]
        BY <2>4
      <3>2. q.todo = sweep[g].todo \ {b} /\ q.blob = b
        OBVIOUS
      <3> HIDE DEF q
      <3>3. \A a \in Blobs : a \in sweep[g].todo => Expired(a)
        BY DEF SweepSound, DoomedExpired, Doomed
      <3>4. \A a \in Blobs : a \in q.todo \/ a = q.blob => Expired(a) /\ rows'[a] = rows[a]
        BY <2>1, <2>2, <3>2, <3>3
      <3>5. DoomedExpired' /\ RowBesideList'
        BY <1>1, <3>1, <3>2, <3>4, PlaceChanges
      <3> QED
        BY <1>2, <3>5 DEF SweepSound
    <2> QED
      BY <2>1, <2>3, <2>4
  <1>5. CASE SweepRow(g)
    <2>1. sweep[g].todo \in SUBSET sweep[g].todo
      OBVIOUS
    <2>2. sweep[g].blob \notin sweep[g].todo
      BY DEF SweepSound, RowBesideList
    <2>3. \A b \in sweep[g].todo : rows'[b] = rows[b]
      BY <1>5, <2>2, SweepFacts DEF SweepRow, DeleteBlobRow, TypeOK
    <2>4. DoomedExpired' /\ RowBesideList'
      BY <1>1, <1>5, <2>1, <2>3, GoesOn DEF SweepRow
    <2> QED
      BY <1>2, <2>4 DEF SweepSound
  <1>6. CASE SweepAbort(g)
    <2>1. sweep' = [sweep EXCEPT ![g] = Resting]
      BY <1>6 DEF SweepAbort
    <2>2. /\ Resting.blob \notin Resting.todo
          /\ \A b \in Blobs : ~(b \in Resting.todo \/ b = Resting.blob)
      BY NullAssumption DEF Resting
    <2>3. DoomedExpired' /\ RowBesideList'
      BY <1>1, <2>1, <2>2, PlaceChanges
    <2> QED
      BY <1>2, <2>3 DEF SweepSound
  <1> QED
    BY <1>3, <1>4, <1>5, <1>6 DEF Collect

LEMMA SoundNext ==
    ASSUME OneSweeper, NoDirectDelete, TypeOK, TypeOK', SweepSound, [Next]_vars
    PROVE  SweepSound'
  <1>1. ASSUME NEW c \in Clients, Abandon(c) PROVE SweepSound'
    <2>1. NothingDeleted' /\ UNCHANGED <<now, sweep, rows>>
      BY <1>1, EndsAside DEF Abandon, SweepSound, stores
    <2>2. now <= now'
      BY <2>1 DEF TypeOK
    <2> QED
      BY <2>1, <2>2, ListsStay DEF SweepSound
  <1>2. CASE Tick \/ UNCHANGED vars
    <2>1. UNCHANGED <<sweep, rows, req>> /\ now <= now'
      BY <1>2 DEF Tick, vars, stores, TypeOK
    <2>2. NothingDeleted'
      BY <2>1 DEF SweepSound, NothingDeleted
    <2> QED
      BY <2>1, <2>2, ListsStay DEF SweepSound
  <1>3. ASSUME NEW c \in Clients, Delete(c) PROVE FALSE
    BY <1>3, NoDelete DEF SweepSound
  <1> QED
    BY <1>1, <1>2, <1>3, SoundUpload, SoundManifest, SoundCache, SoundCollect DEF Next

-----------------------------------------------------------------------------
(***************************************************************************)
(* What a sweep has listed, with any number of sweeps and direct deletes   *)
(***************************************************************************)
\* What a sweep has still to do, and has not lost, is expired.
ListedExpired == \A g \in Sweeps : \A b \in Pending(g) \ lost[g] : Expired(b)
ListSound == ListedExpired /\ RowBesideList

LEMMA PendingBlobs ==
    ASSUME TypeOK, NEW g \in Sweeps
    PROVE  /\ Pending(g) \subseteq Blobs
           /\ \A b \in Blobs : b \in Pending(g) <=> b \in sweep[g].todo \/ b = sweep[g].blob
  BY NullAssumption DEF TypeOK, Sweep, Resting, Pending

\* Nothing but the removal of a row disturbs the lists.
LEMMA ListsKept ==
    ASSUME TypeOK, TypeOK', ListSound, UNCHANGED <<sweep, lost>>, now <= now',
           \A b \in Blobs : rows[b] # Absent => rows'[b] = rows[b]
    PROVE  ListSound'
  <1>1. ASSUME NEW g \in Sweeps, NEW b \in Pending(g) \ lost[g] PROVE Expired(b)'
    <2>1. Expired(b) /\ b \in Blobs
      BY PendingBlobs DEF ListSound, ListedExpired
    <2>2. rows'[b] = rows[b]
      BY <2>1 DEF Expired
    <2> QED
      BY <2>1, <2>2, StaysExpired
  <1>2. \A g \in Sweeps : Pending(g)' = Pending(g)
    BY DEF Pending
  <1> QED
    BY <1>1, <1>2 DEF ListSound, ListedExpired, RowBesideList

\* A step of sweep g that removes nothing g has listed.
LEMMA ListMoves ==
    ASSUME TypeOK, TypeOK', ListSound, NEW g \in Sweeps, NEW q, sweep' = [sweep EXCEPT ![g] = q],
           UNCHANGED now, q.blob \notin q.todo,
           \A b \in Blobs \ lost'[g] : b \in q.todo \/ b = q.blob => Expired(b) /\ rows'[b] = rows[b],
           \A h \in Sweeps \ {g} : \A b \in Pending(h) \ lost'[h] :
                b \notin lost[h] /\ rows'[b] = rows[b]
    PROVE  ListSound'
  <1>1. sweep'[g] = q /\ \A h \in Sweeps \ {g} : sweep'[h] = sweep[h]
    BY DEF TypeOK
  <1>2. RowBesideList'
    BY <1>1 DEF ListSound, RowBesideList
  <1>3. now <= now'
    BY DEF TypeOK
  <1>4. ASSUME NEW b \in Pending(g)', b \notin lost'[g] PROVE Expired(b)'
    <2>1. b \in Blobs /\ (b \in q.todo \/ b = q.blob)
      BY <1>1, <1>4, NullAssumption DEF TypeOK, Sweep, Resting, Pending
    <2> QED
      BY <1>3, <1>4, <2>1, StaysExpired
  <1>5. ASSUME NEW h \in Sweeps \ {g}, NEW b \in Pending(h)', b \notin lost'[h] PROVE Expired(b)'
    <2>1. b \in Pending(h)
      BY <1>1, <1>5 DEF Pending
    <2>2. Expired(b) /\ b \in Blobs /\ rows'[b] = rows[b]
      BY <1>5, <2>1, PendingBlobs DEF ListSound, ListedExpired
    <2> QED
      BY <1>3, <2>2, StaysExpired
  <1>6. ListedExpired'
    BY <1>4, <1>5 DEF ListedExpired
  <1> QED
    BY <1>2, <1>6 DEF ListSound

LEMMA ListCollect ==
    ASSUME TypeOK, TypeOK', ListSound, NEW g \in Sweeps, Collect(g)
    PROVE  ListSound'
  <1>1. UNCHANGED now
    BY DEF Collect, SweepList, SweepObject, SweepRow, SweepAbort
  <1>2. \A b \in Blobs : (b \in sweep[g].todo \/ b = sweep[g].blob) /\ b \notin lost[g] => Expired(b)
    BY PendingBlobs DEF ListSound, ListedExpired
  <1>3. CASE SweepList(g)
    <2> DEFINE q == [at |-> "object", todo |-> Unreferenced, blob |-> NoBlob]
    <2>1. sweep' = [sweep EXCEPT ![g] = q] /\ UNCHANGED rows
      BY <1>3 DEF SweepList, stores
    <2>2. q.todo = Unreferenced /\ q.blob = NoBlob
      OBVIOUS
    <2>3. \A h \in Sweeps \ {g} : lost'[h] = lost[h]
      BY <1>3 DEF SweepList, TypeOK
    <2> HIDE DEF q
    <2>4. \A b \in Blobs : b \in q.todo \/ b = q.blob => Expired(b) /\ rows'[b] = rows[b]
      BY <2>1, <2>2, NullAssumption DEF Unreferenced
    <2>5. q.blob \notin q.todo
      BY <2>2, NullAssumption DEF Unreferenced
    <2> QED
      BY <1>1, <2>1, <2>3, <2>4, <2>5, ListMoves
  <1>4. ASSUME NEW todo, todo \subseteq sweep[g].todo, SweepNext(g, todo),
               \A b \in todo : rows'[b] = rows[b], lost'[g] = lost[g],
               \A h \in Sweeps \ {g} : \A b \in Pending(h) \ lost'[h] :
                    b \notin lost[h] /\ rows'[b] = rows[b]
        PROVE ListSound'
    <2> DEFINE q == IF todo = {} THEN Resting ELSE [at |-> "object", todo |-> todo, blob |-> NoBlob]
    <2>1. q.todo = todo /\ q.blob = NoBlob
      BY DEF Resting
    <2>2. sweep' = [sweep EXCEPT ![g] = q]
      BY <1>4 DEF SweepNext
    <2> HIDE DEF q
    <2>3. q.blob \notin q.todo
      BY <1>4, <2>1, SweepFacts, NullAssumption
    <2>4. \A b \in Blobs \ lost'[g] : b \in q.todo \/ b = q.blob => Expired(b) /\ rows'[b] = rows[b]
      BY <1>2, <1>4, <2>1, NullAssumption
    <2> QED
      BY <1>1, <1>4, <2>2, <2>3, <2>4, ListMoves
  <1>5. CASE SweepObject(g)
    <2>1. PICK b \in sweep[g].todo :
            \/ sweep' = [sweep EXCEPT ![g] = [at |-> "row", todo |-> sweep[g].todo \ {b}, blob |-> b]]
            \/ SweepNext(g, sweep[g].todo \ {b})
      BY <1>5 DEF SweepObject
    <2>2. UNCHANGED <<rows, lost>>
      BY <1>5 DEF SweepObject, history, pushed
    <2>3. CASE SweepNext(g, sweep[g].todo \ {b})
      BY <1>4, <2>2, <2>3
    <2>4. CASE sweep' = [sweep EXCEPT ![g] = [at |-> "row", todo |-> sweep[g].todo \ {b}, blob |-> b]]
      <3> DEFINE q == [at |-> "row", todo |-> sweep[g].todo \ {b}, blob |-> b]
      <3>1. sweep' = [sweep EXCEPT ![g] = q]
        BY <2>4
      <3>2. q.todo = sweep[g].todo \ {b} /\ q.blob = b
        OBVIOUS
      <3> HIDE DEF q
      <3>3. \A a \in Blobs \ lost'[g] : a \in q.todo \/ a = q.blob => Expired(a) /\ rows'[a] = rows[a]
        BY <1>2, <2>1, <2>2, <3>2
      <3> QED
        BY <1>1, <2>2, <3>1, <3>2, <3>3, ListMoves
    <2> QED
      BY <2>1, <2>3, <2>4
  <1>6. CASE SweepRow(g)
    <2> DEFINE b == sweep[g].blob
    <2>1. b \notin sweep[g].todo
      BY DEF ListSound, RowBesideList
    <2>2. \A a \in Blobs : a # b => rows'[a] = rows[a]
      BY <1>6 DEF SweepRow, DeleteBlobRow, TypeOK
    <2>3. /\ lost'[g] = lost[g]
          /\ \A h \in Sweeps \ {g} : lost'[h] = IF b \in Pending(h) THEN lost[h] \cup {b} ELSE lost[h]
      BY <1>6 DEF SweepRow, LostBy
    <2>4. \A h \in Sweeps \ {g} : \A a \in Pending(h) \ lost'[h] :
            a \notin lost[h] /\ rows'[a] = rows[a]
      BY <2>2, <2>3, PendingBlobs
    <2>5. \A a \in sweep[g].todo : rows'[a] = rows[a]
      BY <2>1, <2>2, SweepFacts
    <2>6. SweepNext(g, sweep[g].todo)
      BY <1>6 DEF SweepRow
    <2> HIDE DEF b
    <2> QED
      BY <1>4, <2>3, <2>4, <2>5, <2>6
  <1>7. CASE SweepAbort(g)
    <2>1. sweep' = [sweep EXCEPT ![g] = Resting] /\ UNCHANGED <<rows, lost>>
      BY <1>7 DEF SweepAbort, stores, history, pushed
    <2>2. /\ Resting.blob \notin Resting.todo
          /\ \A b \in Blobs : ~(b \in Resting.todo \/ b = Resting.blob)
      BY NullAssumption DEF Resting
    <2> QED
      BY <1>1, <2>1, <2>2, ListMoves
  <1> QED
    BY <1>3, <1>5, <1>6, <1>7 DEF Collect

LEMMA ListDelete ==
    ASSUME TypeOK, TypeOK', ListSound, NEW c \in Clients, DeleteRow(c)
    PROVE  ListSound'
  <1> DEFINE b == Blob(c)
  <1>1. UNCHANGED <<now, sweep>> /\ now <= now'
    BY DEF DeleteRow, TypeOK
  <1>2. \A a \in Blobs : a # b => rows'[a] = rows[a]
    BY DEF DeleteRow, DeleteBlobRow, TypeOK
  <1>3. \A g \in Sweeps : lost'[g] = IF b \in Pending(g) THEN lost[g] \cup {b} ELSE lost[g]
    BY DEF DeleteRow, LostBy
  <1>4. \A g \in Sweeps : Pending(g)' = Pending(g)
    BY <1>1 DEF Pending
  <1> HIDE DEF b
  <1>5. ASSUME NEW g \in Sweeps, NEW a \in Pending(g), a \notin lost'[g] PROVE Expired(a)'
    <2>1. a # b /\ a \notin lost[g] /\ a \in Blobs
      BY <1>3, <1>5, PendingBlobs
    <2>2. Expired(a)
      BY <2>1 DEF ListSound, ListedExpired
    <2> QED
      BY <1>1, <1>2, <2>1, <2>2, StaysExpired
  <1> QED
    BY <1>1, <1>4, <1>5 DEF ListSound, ListedExpired, RowBesideList

LEMMA ListNext ==
    ASSUME TypeOK, TypeOK', ListSound, [Next]_vars PROVE ListSound'
  <1>1. ASSUME UNCHANGED <<sweep, lost, now>>,
               \A b \in Blobs : rows[b] # Absent => rows'[b] = rows[b]
        PROVE ListSound'
    <2>1. now <= now'
      BY <1>1 DEF TypeOK
    <2> QED
      BY <1>1, <2>1, ListsKept
  <1>2. ASSUME NEW c \in Clients, Upload(c) \/ Cache(c) PROVE ListSound'
    <2>1. UNCHANGED <<sweep, lost, now>>
      BY <1>2 DEF Upload, StartUpload, UploadExists, UploadQuota, UploadCopy, UploadRecord, Cache,
          StartCache, CacheFetch, CacheStore, CacheRecheck, CacheEvict, CacheRecord, history
    <2>2. UNCHANGED rows \/ RecordBlob(Blob(c))
      BY <1>2 DEF Upload, StartUpload, UploadExists, UploadQuota, UploadCopy, UploadRecord, Cache,
          StartCache, CacheFetch, CacheStore, CacheRecheck, CacheEvict, CacheRecord, stores
    <2>3. \A b \in Blobs : rows[b] # Absent => rows'[b] = rows[b]
      BY <2>2, RowKept
    <2> QED
      BY <1>1, <2>1, <2>3
  <1>3. ASSUME NEW c \in Clients, Manifest(c) \/ Abandon(c) PROVE ListSound'
    <2>1. UNCHANGED <<sweep, lost, now, rows>>
      BY <1>3 DEF Manifest, StartPut, PutCheck, PutManifest, StoreManifest, DeleteManifest, Abandon,
          stores, history
    <2> QED
      BY <1>1, <2>1
  <1>4. ASSUME NEW c \in Clients, Delete(c), ~DeleteRow(c) PROVE ListSound'
    <2>1. UNCHANGED <<sweep, lost, now, rows>>
      BY <1>4 DEF Delete, StartDelete, DeleteReferenced, DeleteObject, stores, history
    <2> QED
      BY <1>1, <2>1
  <1>5. CASE Tick \/ UNCHANGED vars
    <2>1. UNCHANGED <<sweep, lost, rows>> /\ now <= now'
      BY <1>5 DEF Tick, vars, stores, TypeOK
    <2> QED
      BY <2>1, ListsKept
  <1> QED
    BY <1>2, <1>3, <1>4, <1>5, ListDelete, ListCollect DEF Next

LEMMA ListYoung ==
    ASSUME ListSound, TypeOK
    PROVE  \A g \in Sweeps :
             SweepRow(g) /\ sweep[g].blob \in Recorded \ lost[g] => Expired(sweep[g].blob)
  BY PendingBlobs DEF ListSound, ListedExpired, Recorded

\* With any number of garbage collector processes, requests and direct deletes: a sweep
\* removes a row younger than the grace period only where another has removed the row
\* that it had listed, and the blob was added anew before the sweep came to it.
THEOREM YoungKept == Spec => YoungOnlyIfReplaced
  <1>1. Init => ListSound
    BY NullAssumption DEF Init, ListSound, ListedExpired, RowBesideList, Pending, Resting
  <1>2. TypeOK /\ TypeOK' /\ ListSound /\ [Next]_vars => ListSound'
    BY ListNext
  <1>3. TypeOK /\ ListSound =>
          [\A g \in Sweeps :
             SweepRow(g) /\ sweep[g].blob \in Recorded \ lost[g] => Expired(sweep[g].blob)]_vars
    BY ListYoung
  <1> QED
    BY TypeInit, TypeNext, <1>1, <1>2, <1>3, PTL DEF Spec, YoungOnlyIfReplaced

-----------------------------------------------------------------------------
(***************************************************************************)
(* What a push has added                                                   *)
(***************************************************************************)
\* No download is taken back for the quota.
NothingEvicted == "cache" \notin Ops \/ Quota = 0

EvictStages == {"recheck", "evict"}
NoEviction ==
    \A c \in Clients :
        /\ req[c].at \notin EvictStages
        /\ "cache" \notin Ops => req[c].at \notin {"fetch", "store"}

InWindow(c) == now <= since[c] + Grace

PushesBegan == \A c \in Clients : since[c] <= now

\* What a push has added is there, and too young for a sweep to have listed it.
OwnKept ==
    \A c \in Clients : \A b \in own[c] : InWindow(c) /\ rows[b] >= since[c] /\ b \in objects

\* So is the object of an upload that is about to record it.
NewKept ==
    \A c \in Clients :
        req[c].at = "record" /\ req[c].new /\ InWindow(c) =>
            /\ Blob(c) \in objects
            /\ rows[Blob(c)] = Absent \/ rows[Blob(c)] >= since[c]

\* What a clean image references is there, and no sweep has it on its list.
CleanKept ==
    \A m \in clean :
        /\ m \in manifests
        /\ Refs[m] \subseteq Recorded \cap objects
        /\ Refs[m] \cap Doomed = {}

PushSound == PushesBegan /\ OwnKept /\ NewKept /\ CleanKept

-----------------------------------------------------------------------------
LEMMA NumbersOf ==
    ASSUME TypeOK, NEW c \in Clients, NEW b \in Blobs
    PROVE  /\ now \in Nat /\ since[c] \in Nat /\ Grace \in Nat
           /\ rows[b] \in Nat \cup {-1} /\ Absent = -1
           /\ own[c] \subseteq Blobs
  BY NumberAssumption DEF TypeOK, Absent

\* A row a push has added is too young for the lists.
LEMMA OwnNotDoomed ==
    ASSUME TypeOK, SweepSound, NEW c \in Clients, NEW b \in Blobs,
           InWindow(c), rows[b] = Absent \/ rows[b] >= since[c]
    PROVE  b \notin Doomed
  <1>1. ~Expired(b)
    BY NumbersOf DEF Expired, InWindow
  <1> QED
    BY <1>1 DEF SweepSound, DoomedExpired

\* A step that adds to the stores, and starts no new upload, disturbs nothing.
LEMMA OnlyAdds ==
    ASSUME TypeOK, SweepSound, PushSound, UNCHANGED <<now, own, since, sweep>>,
           objects \subseteq objects', clean' \subseteq clean, clean' \subseteq manifests',
           \A b \in Blobs : rows'[b] = rows[b] \/ (rows[b] = Absent /\ rows'[b] = now),
           \A c \in Clients : req'[c].at = "record" /\ req'[c].new => req'[c] = req[c]
    PROVE  PushSound'
  <1>1. PushesBegan'
    BY DEF PushSound, PushesBegan
  <1>2. OwnKept'
    <2> SUFFICES ASSUME NEW c \in Clients, NEW b \in own[c]
                 PROVE  InWindow(c)' /\ rows'[b] >= since[c] /\ b \in objects'
      BY DEF OwnKept
    <2>1. InWindow(c) /\ rows[b] >= since[c] /\ b \in objects
      BY DEF PushSound, OwnKept
    <2>2. b \in Blobs
      BY NumbersOf DEF TypeOK
    <2>3. rows[b] # Absent
      BY <2>1, <2>2, NumbersOf
    <2> QED
      BY <2>1, <2>2, <2>3 DEF InWindow
  <1>3. NewKept'
    <2> SUFFICES ASSUME NEW c \in Clients, req'[c].at = "record", req'[c].new, InWindow(c)'
                 PROVE  /\ req'[c].blob \in objects'
                        /\ rows'[req'[c].blob] = Absent \/ rows'[req'[c].blob] >= since'[c]
      BY DEF NewKept, Blob
    <2>1. req'[c] = req[c] /\ InWindow(c)
      BY DEF InWindow
    <2>2. Blob(c) \in objects /\ (rows[Blob(c)] = Absent \/ rows[Blob(c)] >= since[c])
      BY <2>1 DEF PushSound, NewKept
    <2>3. Blob(c) \in Blobs
      BY <2>1, BlobOf DEF BlobStages
    <2>4. since[c] <= now
      BY DEF PushSound, PushesBegan
    <2> QED
      BY <2>1, <2>2, <2>3, <2>4, NumbersOf DEF Blob
  <1>4. CleanKept'
    <2> SUFFICES ASSUME NEW m \in clean'
                 PROVE  /\ m \in manifests' /\ Refs[m] \subseteq Recorded' \cap objects'
                        /\ Refs[m] \cap Doomed' = {}
      BY DEF CleanKept
    <2>1. m \in manifests' /\ Refs[m] \subseteq Recorded \cap objects /\ Refs[m] \cap Doomed = {}
      BY DEF PushSound, CleanKept
    <2>2. Doomed' = Doomed
      BY DEF Doomed
    <2>3. Recorded \subseteq Recorded'
      BY NumbersOf DEF Recorded, TypeOK, Absent
    <2> QED
      BY <2>1, <2>2, <2>3
  <1> QED
    BY <1>1, <1>2, <1>3, <1>4 DEF PushSound

\* Nor does one that takes away only what a sweep has listed, and lists nothing
\* that a clean image references.
LEMMA OnlyDoomedGo ==
    ASSUME TypeOK, TypeOK', SweepSound, PushSound, UNCHANGED <<now, own, since, clean, manifests, req>>,
           objects \ Doomed \subseteq objects',
           \A b \in Blobs \ Doomed : rows'[b] = rows[b],
           \A b \in Doomed : rows'[b] = rows[b] \/ rows'[b] = Absent,
           Doomed' \subseteq Doomed \cup Unreferenced
    PROVE  PushSound'
  <1>1. PushesBegan'
    BY DEF PushSound, PushesBegan
  <1>2. OwnKept'
    <2> SUFFICES ASSUME NEW c \in Clients, NEW b \in own[c]
                 PROVE  InWindow(c)' /\ rows'[b] >= since[c] /\ b \in objects'
      BY DEF OwnKept
    <2>1. InWindow(c) /\ rows[b] >= since[c] /\ b \in objects
      BY DEF PushSound, OwnKept
    <2>2. b \in Blobs
      BY NumbersOf DEF TypeOK
    <2>3. b \notin Doomed
      BY <2>1, <2>2, OwnNotDoomed
    <2> QED
      BY <2>1, <2>2, <2>3 DEF InWindow
  <1>3. NewKept'
    <2> SUFFICES ASSUME NEW c \in Clients, req[c].at = "record", req[c].new, InWindow(c)'
                 PROVE  /\ Blob(c) \in objects'
                        /\ rows'[Blob(c)] = Absent \/ rows'[Blob(c)] >= since'[c]
      BY DEF NewKept, Blob
    <2>1. InWindow(c)
      BY DEF InWindow
    <2>2. Blob(c) \in objects /\ (rows[Blob(c)] = Absent \/ rows[Blob(c)] >= since[c])
      BY <2>1 DEF PushSound, NewKept
    <2>3. Blob(c) \in Blobs
      BY BlobOf DEF BlobStages
    <2>4. Blob(c) \notin Doomed
      BY <2>1, <2>2, <2>3, OwnNotDoomed
    <2> QED
      BY <2>2, <2>3, <2>4
  <1>4. CleanKept'
    <2> SUFFICES ASSUME NEW m \in clean
                 PROVE  /\ m \in manifests /\ Refs[m] \subseteq Recorded' \cap objects'
                        /\ Refs[m] \cap Doomed' = {}
      BY DEF CleanKept
    <2>1. m \in manifests /\ Refs[m] \subseteq Recorded \cap objects /\ Refs[m] \cap Doomed = {}
      BY DEF PushSound, CleanKept
    <2>2. Refs[m] \cap Unreferenced = {}
      BY <2>1 DEF Unreferenced, Referenced
    <2>3. Recorded \ Doomed \subseteq Recorded'
      BY DEF Recorded
    <2> QED
      BY <2>1, <2>2, <2>3
  <1> QED
    BY <1>1, <1>2, <1>3, <1>4 DEF PushSound

-----------------------------------------------------------------------------
\* The stages at which an object could be evicted are not reached.
LEMMA EvictInit == Init => NoEviction
  BY DEF Init, NoEviction, Idle, EvictStages

LEMMA EvictStep ==
    ASSUME TypeOK, NoEviction, NEW c \in Clients, NEW q, req' = [req EXCEPT ![c] = q],
           q.at \notin EvictStages, "cache" \notin Ops => q.at \notin {"fetch", "store"}
    PROVE  NoEviction'
  BY DEF NoEviction, TypeOK

LEMMA EvictGoto ==
    ASSUME TypeOK, NoEviction, NEW c \in Clients, NEW s, Goto(c, s), s \notin EvictStages,
           "cache" \notin Ops => s \notin {"fetch", "store"}
    PROVE  NoEviction'
  <1>1. req' = [req EXCEPT ![c] = [req[c] EXCEPT !.at = s]]
    BY DEF Goto
  <1>2. [req[c] EXCEPT !.at = s].at = s
    BY DEF TypeOK, Request, Idle, BlobRequest, ManifestRequest
  <1> QED
    BY <1>1, <1>2, EvictStep

LEMMA EvictFinish ==
    ASSUME TypeOK, NoEviction, NEW c \in Clients, Finish(c)
    PROVE  NoEviction'
  BY EvictStep DEF Finish, Idle, EvictStages

LEMMA EvictStart ==
    ASSUME TypeOK, NoEviction, NEW c \in Clients, NEW op, NEW s, NEW b, NEW m, NEW todo,
           Start(c, op, s, b, m, todo), s \notin EvictStages,
           s \in {"fetch", "store"} => op = "cache"
    PROVE  NoEviction'
  <1> DEFINE q == [Idle EXCEPT !.at = s, !.blob = b, !.manifest = m, !.todo = todo]
  <1>1. q.at = s
    BY DEF Idle
  <1> QED
    BY <1>1, EvictStep DEF Start

LEMMA EvictNext ==
    ASSUME NothingEvicted, NoDirectDelete, TypeOK, SweepSound, NoEviction, [Next]_vars
    PROVE  NoEviction'
  <1>1. ASSUME NEW c \in Clients, Upload(c) PROVE NoEviction'
    <2>1. CASE StartUpload(c)
      BY <2>1, EvictStart DEF StartUpload, EvictStages
    <2>2. CASE UploadExists(c)
      BY <2>2, EvictGoto DEF UploadExists, EvictStages
    <2>3. CASE UploadQuota(c)
      BY <2>3, EvictGoto, EvictFinish DEF UploadQuota, EvictStages
    <2>4. CASE UploadCopy(c)
      <3> DEFINE q == [req[c] EXCEPT !.at = "record", !.new = Pushing /\ rows[Blob(c)] = Absent]
      <3>1. req' = [req EXCEPT ![c] = q]
        BY <2>4 DEF UploadCopy
      <3>2. q.at = "record"
        BY <2>4, OfBlob DEF UploadCopy, BlobStages, BlobRequest
      <3> HIDE DEF q
      <3> QED
        BY <3>1, <3>2, EvictStep DEF EvictStages
    <2>5. CASE UploadRecord(c)
      BY <2>5, EvictFinish DEF UploadRecord
    <2> QED
      BY <1>1, <2>1, <2>2, <2>3, <2>4, <2>5 DEF Upload
  <1>2. ASSUME NEW c \in Clients, Manifest(c) PROVE NoEviction'
    <2>1. CASE StartPut(c)
      BY <2>1, EvictStart DEF StartPut, EvictStages
    <2>2. CASE PutCheck(c)
      <3>1. ASSUME NEW b, req' = [req EXCEPT ![c].todo = @ \ {b}] PROVE NoEviction'
        <4> DEFINE q == [req[c] EXCEPT !.todo = @ \ {b}]
        <4>1. req' = [req EXCEPT ![c] = q]
          BY <3>1
        <4>2. q.at = "check"
          BY <2>2, OfManifest DEF PutCheck, ManifestStages, ManifestRequest
        <4> HIDE DEF q
        <4> QED
          BY <4>1, <4>2, EvictStep DEF EvictStages
      <3> QED
        BY <2>2, <3>1, EvictGoto, EvictFinish DEF PutCheck, EvictStages
    <2>3. CASE PutManifest(c)
      BY <2>3, EvictFinish DEF PutManifest
    <2>4. CASE StoreManifest(c) \/ DeleteManifest(c)
      BY <2>4 DEF StoreManifest, DeleteManifest, NoEviction
    <2> QED
      BY <1>2, <2>1, <2>2, <2>3, <2>4 DEF Manifest
  <1>3. ASSUME NEW c \in Clients, Delete(c) PROVE NoEviction'
    BY <1>3, NoDelete DEF SweepSound
  <1>4. ASSUME NEW c \in Clients, Cache(c) PROVE NoEviction'
    <2>1. CASE StartCache(c)
      BY <2>1, EvictStart DEF StartCache, EvictStages
    <2>2. CASE CacheFetch(c)
      BY <2>2, EvictGoto, EvictFinish DEF CacheFetch, EvictStages, NoEviction
    <2>3. CASE CacheStore(c)
      <3>1. ~(Quota > 0)
        BY <2>3, NumberAssumption DEF CacheStore, NoEviction, NothingEvicted
      <3> QED
        BY <2>3, <3>1, EvictGoto DEF CacheStore, EvictStages
    <2>4. CASE CacheRecheck(c)
      BY <2>4 DEF CacheRecheck, NoEviction, EvictStages
    <2>5. CASE CacheEvict(c) \/ CacheRecord(c)
      BY <2>5, EvictFinish DEF CacheEvict, CacheRecord
    <2> QED
      BY <1>4, <2>1, <2>2, <2>3, <2>4, <2>5 DEF Cache
  <1>5. ASSUME NEW c \in Clients, Abandon(c) PROVE NoEviction'
    BY <1>5, EvictFinish DEF Abandon
  <1>6. ASSUME NEW g \in Sweeps, Collect(g) PROVE NoEviction'
    BY <1>6 DEF Collect, SweepList, SweepObject, SweepRow, SweepAbort, NoEviction
  <1>7. CASE Tick \/ UNCHANGED vars
    BY <1>7 DEF Tick, vars, NoEviction
  <1> QED
    BY <1>1, <1>2, <1>3, <1>4, <1>5, <1>6, <1>7 DEF Next

-----------------------------------------------------------------------------
\* The request that changes is not left about to record a new blob.
LEMMA NoneNew ==
    ASSUME TypeOK, NEW c \in Clients, NEW q, req' = [req EXCEPT ![c] = q],
           ~(q.at = "record" /\ q.new)
    PROVE  \A d \in Clients : req'[d].at = "record" /\ req'[d].new => req'[d] = req[d]
  BY DEF TypeOK

LEMMA NoneNewGoto ==
    ASSUME TypeOK, NEW c \in Clients, NEW s, Goto(c, s), s # "record"
    PROVE  \A d \in Clients : req'[d].at = "record" /\ req'[d].new => req'[d] = req[d]
  <1>1. req' = [req EXCEPT ![c] = [req[c] EXCEPT !.at = s]]
    BY DEF Goto
  <1>2. [req[c] EXCEPT !.at = s].at = s
    BY DEF TypeOK, Request, Idle, BlobRequest, ManifestRequest
  <1> QED
    BY <1>1, <1>2, NoneNew

LEMMA NoneNewFinish ==
    ASSUME TypeOK, NEW c \in Clients, Finish(c)
    PROVE  \A d \in Clients : req'[d].at = "record" /\ req'[d].new => req'[d] = req[d]
  BY NoneNew DEF Finish, Idle

LEMMA NoneNewStart ==
    ASSUME TypeOK, NEW c \in Clients, NEW op, NEW s, NEW b, NEW m, NEW todo,
           Start(c, op, s, b, m, todo)
    PROVE  \A d \in Clients : req'[d].at = "record" /\ req'[d].new => req'[d] = req[d]
  <1> DEFINE q == [Idle EXCEPT !.at = s, !.blob = b, !.manifest = m, !.todo = todo]
  <1>1. q.new = FALSE
    BY DEF Idle
  <1> QED
    BY <1>1, NoneNew DEF Start

LEMMA PushInit == Init => PushSound
  <1> SUFFICES ASSUME Init PROVE PushSound
    OBVIOUS
  <1>1. PushesBegan /\ OwnKept /\ CleanKept
    BY DEF Init, PushesBegan, OwnKept, CleanKept
  <1>2. NewKept
    BY DEF Init, NewKept, Idle
  <1> QED
    BY <1>1, <1>2 DEF PushSound

\* The clean images are manifests, so a step that leaves both leaves that.
LEMMA CleanAreManifests ==
    ASSUME PushSound
    PROVE  clean \subseteq manifests
  BY DEF PushSound, CleanKept

LEMMA PushCopy ==
    ASSUME TypeOK, TypeOK', SweepSound, PushSound, NEW c \in Clients, UploadCopy(c)
    PROVE  PushSound'
  <1> DEFINE new == Pushing /\ rows[Blob(c)] = Absent
             q == [req[c] EXCEPT !.at = "record", !.new = new]
  <1>1. Blob(c) \in Blobs /\ req[c] \in BlobRequest
    BY BlobOf, OfBlob DEF UploadCopy, BlobStages
  <1>2. q.at = "record" /\ q.new = new /\ q.blob = Blob(c)
    BY <1>1 DEF BlobRequest, Blob
  <1>3. req' = [req EXCEPT ![c] = q]
    BY DEF UploadCopy
  <1>4. req'[c] = q /\ \A d \in Clients : d # c => req'[d] = req[d]
    BY <1>3 DEF TypeOK
  <1>5. req'[c].new = new
    BY <1>2, <1>4
  <1>6. /\ UNCHANGED <<now, rows, manifests, sweep, own, clean>>
        /\ objects' = objects \cup {Blob(c)}
    BY DEF UploadCopy
  <1>7. \A d \in Clients : d # c => since'[d] = since[d]
    BY DEF UploadCopy, TypeOK
  <1>8. since'[c] = IF own[c] = {} /\ new THEN now ELSE since[c]
    BY <1>5 DEF UploadCopy, TypeOK
  <1> HIDE DEF q, new
  <1>9. PushesBegan'
    BY <1>6, <1>7, <1>8 DEF PushSound, PushesBegan, TypeOK
  <1>10. OwnKept'
    <2> SUFFICES ASSUME NEW d \in Clients, NEW b \in own[d]
                 PROVE  InWindow(d)' /\ rows'[b] >= since'[d] /\ b \in objects'
      BY <1>6 DEF OwnKept
    <2>1. since'[d] = since[d]
      BY <1>7, <1>8
    <2> QED
      BY <1>6, <2>1 DEF PushSound, OwnKept, InWindow
  <1>11. NewKept'
    <2> SUFFICES ASSUME NEW d \in Clients, req'[d].at = "record", req'[d].new, InWindow(d)'
                 PROVE  /\ req'[d].blob \in objects'
                        /\ rows'[req'[d].blob] = Absent \/ rows'[req'[d].blob] >= since'[d]
      BY DEF NewKept, Blob
    <2>1. CASE d = c
      <3>1. rows[Blob(c)] = Absent
        BY <1>5, <2>1 DEF new
      <3> QED
        BY <1>2, <1>4, <1>6, <2>1, <3>1
    <2>2. CASE d # c
      BY <1>4, <1>6, <1>7, <2>2 DEF PushSound, NewKept, InWindow, Blob
    <2> QED
      BY <2>1, <2>2
  <1>12. CleanKept'
    <2>1. Doomed' = Doomed /\ Recorded' = Recorded
      BY <1>6 DEF Doomed, Recorded
    <2> QED
      BY <1>6, <2>1 DEF PushSound, CleanKept
  <1> QED
    BY <1>9, <1>10, <1>11, <1>12 DEF PushSound

LEMMA PushRecord ==
    ASSUME TypeOK, TypeOK', SweepSound, PushSound, NEW c \in Clients, UploadRecord(c)
    PROVE  PushSound'
  <1>1. Blob(c) \in Blobs
    BY BlobOf DEF UploadRecord, BlobStages
  <1>2. /\ UNCHANGED <<now, objects, manifests, sweep, since, clean>>
        /\ RecordBlob(Blob(c)) /\ Finish(c)
    BY DEF UploadRecord
  <1>3. \A b \in Blobs : rows'[b] = rows[b] \/ (rows[b] = Absent /\ rows'[b] = now)
    BY <1>2, RowKept
  <1>4. \A d \in Clients : req'[d].at = "record" /\ req'[d].new => req'[d] = req[d]
    BY <1>2, NoneNewFinish
  <1>5. CASE UNCHANGED own
    BY <1>2, <1>3, <1>4, <1>5, OnlyAdds, CleanAreManifests
  <1>6. CASE /\ req[c].new /\ rows[Blob(c)] = Absent /\ InWindow(c)
             /\ own' = [own EXCEPT ![c] = @ \cup {Blob(c)}]
    <2>1. Blob(c) \in objects
      BY <1>6 DEF UploadRecord, PushSound, NewKept
    <2>2. rows'[Blob(c)] = now
      BY <1>1, <1>2, <1>6 DEF RecordBlob, TypeOK
    <2>3. now >= since[c]
      BY DEF PushSound, PushesBegan, TypeOK
    <2>4. OwnKept'
      <3> SUFFICES ASSUME NEW d \in Clients, NEW b \in own'[d]
                   PROVE  InWindow(d)' /\ rows'[b] >= since'[d] /\ b \in objects'
        BY DEF OwnKept
      <3>1. CASE b \in own[d]
        <4>1. InWindow(d) /\ rows[b] >= since[d] /\ b \in objects /\ b \in Blobs
          BY <3>1, NumbersOf DEF PushSound, OwnKept, TypeOK
        <4>2. rows[b] # Absent
          BY <4>1, NumbersOf
        <4> QED
          BY <1>2, <1>3, <4>1, <4>2 DEF InWindow
      <3>2. CASE b \notin own[d]
        <4>1. d = c /\ b = Blob(c)
          BY <1>6, <3>2 DEF TypeOK
        <4> QED
          BY <1>2, <1>6, <2>1, <2>2, <2>3, <4>1 DEF InWindow
      <3> QED
        BY <3>1, <3>2
    <2>5. NewKept'
      <3> SUFFICES ASSUME NEW d \in Clients, req'[d].at = "record", req'[d].new, InWindow(d)'
                   PROVE  /\ req'[d].blob \in objects'
                          /\ rows'[req'[d].blob] = Absent \/ rows'[req'[d].blob] >= since'[d]
        BY DEF NewKept, Blob
      <3>1. req'[d] = req[d] /\ InWindow(d)
        BY <1>2, <1>4 DEF InWindow
      <3>2. Blob(d) \in objects /\ (rows[Blob(d)] = Absent \/ rows[Blob(d)] >= since[d])
        BY <3>1 DEF PushSound, NewKept
      <3>3. Blob(d) \in Blobs
        BY <3>1, BlobOf DEF BlobStages
      <3>4. since[d] <= now
        BY DEF PushSound, PushesBegan
      <3> QED
        BY <1>2, <1>3, <3>1, <3>2, <3>3, <3>4, NumbersOf DEF Blob
    <2>6. CleanKept'
      <3>1. Doomed' = Doomed
        BY <1>2 DEF Doomed
      <3>2. Recorded \subseteq Recorded'
        BY <1>3, NumbersOf DEF Recorded, TypeOK, Absent
      <3> QED
        BY <1>2, <3>1, <3>2 DEF PushSound, CleanKept
    <2>7. PushesBegan'
      BY <1>2 DEF PushSound, PushesBegan
    <2> QED
      BY <2>4, <2>5, <2>6, <2>7 DEF PushSound
  <1> QED
    BY <1>5, <1>6 DEF UploadRecord, InWindow

LEMMA PushUpload ==
    ASSUME TypeOK, TypeOK', SweepSound, PushSound, NEW c \in Clients, Upload(c)
    PROVE  PushSound'
  <1>1. CASE StartUpload(c) \/ UploadExists(c) \/ UploadQuota(c)
    <2>1. UNCHANGED <<now, objects, rows, manifests, sweep, own, since, clean>>
      BY <1>1 DEF StartUpload, UploadExists, UploadQuota, stores, history, pushed
    <2>2. \A d \in Clients : req'[d].at = "record" /\ req'[d].new => req'[d] = req[d]
      <3>1. CASE StartUpload(c)
        BY <3>1, NoneNewStart DEF StartUpload
      <3>2. CASE UploadExists(c)
        BY <3>2, NoneNewGoto DEF UploadExists
      <3>3. CASE UploadQuota(c)
        BY <3>3, NoneNewGoto, NoneNewFinish DEF UploadQuota
      <3> QED
        BY <1>1, <3>1, <3>2, <3>3
    <2> QED
      BY <2>1, <2>2, OnlyAdds, CleanAreManifests
  <1> QED
    BY <1>1, PushCopy, PushRecord DEF Upload

LEMMA PushPut ==
    ASSUME TypeOK, TypeOK', SweepSound, PushSound, NEW c \in Clients, PutManifest(c)
    PROVE  PushSound'
  <1> DEFINE m == req[c].manifest
  <1>1. m \in Manifests
    BY OfManifest DEF PutManifest, ManifestStages, ManifestRequest
  <1>2. /\ UNCHANGED <<now, objects, rows, sweep, since>> /\ Finish(c)
        /\ manifests' = manifests \cup {m}
        /\ own' = [own EXCEPT ![c] = {}]
        /\ clean' = clean \/ (Refs[m] \subseteq own[c] /\ clean' = clean \cup {m})
    BY DEF PutManifest
  <1>3. \A d \in Clients : req'[d].at = "record" /\ req'[d].new => req'[d] = req[d]
    BY <1>2, NoneNewFinish
  <1>4. PushesBegan'
    BY <1>2 DEF PushSound, PushesBegan
  <1>5. OwnKept'
    <2> SUFFICES ASSUME NEW d \in Clients, NEW b \in own'[d]
                 PROVE  InWindow(d)' /\ rows'[b] >= since'[d] /\ b \in objects'
      BY DEF OwnKept
    <2>1. b \in own[d]
      BY <1>2 DEF TypeOK
    <2> QED
      BY <1>2, <2>1 DEF PushSound, OwnKept, InWindow
  <1>6. NewKept'
    BY <1>2, <1>3 DEF PushSound, NewKept, InWindow, Blob
  <1>7. CleanKept'
    <2> SUFFICES ASSUME NEW n \in clean'
                 PROVE  /\ n \in manifests' /\ Refs[n] \subseteq Recorded' \cap objects'
                        /\ Refs[n] \cap Doomed' = {}
      BY DEF CleanKept
    <2>1. Doomed' = Doomed /\ Recorded' = Recorded
      BY <1>2 DEF Doomed, Recorded
    <2>2. CASE n \in clean
      BY <1>2, <2>1, <2>2 DEF PushSound, CleanKept
    <2>3. CASE n \notin clean
      <3>1. n = m /\ Refs[m] \subseteq own[c]
        BY <1>2, <2>3
      <3>2. ASSUME NEW b \in own[c] PROVE b \in Recorded /\ b \in objects /\ b \notin Doomed
        <4>1. InWindow(c) /\ rows[b] >= since[c] /\ b \in objects /\ b \in Blobs
          BY NumbersOf DEF PushSound, OwnKept, TypeOK
        <4>2. b \notin Doomed
          BY <4>1, OwnNotDoomed
        <4>3. b \in Recorded
          BY <4>1, NumbersOf DEF Recorded
        <4> QED
          BY <4>1, <4>2, <4>3
      <3> HIDE DEF m
      <3> QED
        BY <1>2, <2>1, <3>1, <3>2
    <2> QED
      BY <2>2, <2>3
  <1> QED
    BY <1>4, <1>5, <1>6, <1>7 DEF PushSound

LEMMA PushManifest ==
    ASSUME TypeOK, TypeOK', SweepSound, PushSound, NEW c \in Clients, Manifest(c)
    PROVE  PushSound'
  <1>1. CASE StartPut(c)
    <2>1. UNCHANGED <<now, objects, rows, manifests, sweep, own, since, clean>>
      BY <1>1 DEF StartPut, stores, history, pushed
    <2>2. \A d \in Clients : req'[d].at = "record" /\ req'[d].new => req'[d] = req[d]
      BY <1>1, NoneNewStart DEF StartPut
    <2> QED
      BY <2>1, <2>2, OnlyAdds, CleanAreManifests
  <1>2. CASE PutCheck(c)
    <2>1. UNCHANGED <<now, objects, rows, manifests, sweep, own, since, clean>>
      BY <1>2 DEF PutCheck, stores, history, pushed
    <2>2. \A d \in Clients : req'[d].at = "record" /\ req'[d].new => req'[d] = req[d]
      <3>1. CASE Finish(c)
        BY <3>1, NoneNewFinish
      <3>2. CASE Goto(c, "put")
        BY <3>2, NoneNewGoto
      <3>3. ASSUME NEW b, req' = [req EXCEPT ![c].todo = @ \ {b}]
            PROVE  \A d \in Clients : req'[d].at = "record" /\ req'[d].new => req'[d] = req[d]
        <4> DEFINE q == [req[c] EXCEPT !.todo = @ \ {b}]
        <4>1. req' = [req EXCEPT ![c] = q]
          BY <3>3
        <4>2. q.at = "check"
          BY <1>2, OfManifest DEF PutCheck, ManifestStages, ManifestRequest
        <4> HIDE DEF q
        <4> QED
          BY <4>1, <4>2, NoneNew
      <3> QED
        BY <1>2, <3>1, <3>2, <3>3 DEF PutCheck
    <2> QED
      BY <2>1, <2>2, OnlyAdds, CleanAreManifests
  <1>3. CASE PutManifest(c)
    BY <1>3, PushPut
  <1>4. CASE StoreManifest(c)
    <2>1. /\ UNCHANGED <<now, objects, rows, req, sweep, own, since, clean>>
          /\ manifests \subseteq manifests'
      BY <1>4 DEF StoreManifest, history, pushed
    <2> QED
      BY <2>1, OnlyAdds, CleanAreManifests
  <1>5. CASE DeleteManifest(c)
    <2>1. /\ UNCHANGED <<now, objects, rows, req, sweep, own, since>>
          /\ clean' \subseteq clean /\ clean' \subseteq manifests'
      BY <1>5, CleanAreManifests DEF DeleteManifest
    <2> QED
      BY <2>1, OnlyAdds
  <1> QED
    BY <1>1, <1>2, <1>3, <1>4, <1>5 DEF Manifest

LEMMA PushCache ==
    ASSUME TypeOK, TypeOK', SweepSound, PushSound, NoEviction, NEW c \in Clients, Cache(c)
    PROVE  PushSound'
  <1>1. ~CacheEvict(c)
    BY DEF CacheEvict, NoEviction, EvictStages
  <1>2. /\ UNCHANGED <<now, manifests, sweep, own, since, clean>>
        /\ objects \subseteq objects'
    BY <1>1
    DEF Cache, StartCache, CacheFetch, CacheStore, CacheRecheck, CacheRecord, stores, history, pushed
  <1>3. \A b \in Blobs : rows'[b] = rows[b] \/ (rows[b] = Absent /\ rows'[b] = now)
    BY <1>1, RowKept
    DEF Cache, StartCache, CacheFetch, CacheStore, CacheRecheck, CacheRecord, stores
  <1>4. \A d \in Clients : req'[d].at = "record" /\ req'[d].new => req'[d] = req[d]
    <2>1. CASE StartCache(c)
      BY <2>1, NoneNewStart DEF StartCache
    <2>2. CASE CacheFetch(c)
      BY <2>2, NoneNewGoto, NoneNewFinish DEF CacheFetch
    <2>3. CASE CacheStore(c)
      BY <2>3, NoneNewGoto DEF CacheStore
    <2>4. CASE CacheRecheck(c)
      BY <2>4, NoneNewGoto DEF CacheRecheck
    <2>5. CASE CacheRecord(c)
      BY <2>5, NoneNewFinish DEF CacheRecord
    <2> QED
      BY <1>1, <2>1, <2>2, <2>3, <2>4, <2>5 DEF Cache
  <1> QED
    BY <1>2, <1>3, <1>4, OnlyAdds, CleanAreManifests

LEMMA PushCollect ==
    ASSUME TypeOK, TypeOK', OneSweeper, SweepSound, PushSound, NEW g \in Sweeps, Collect(g)
    PROVE  PushSound'
  <1>1. UNCHANGED <<now, own, since, clean, manifests, req>>
    BY DEF Collect, SweepList, SweepObject, SweepRow, SweepAbort, stores, history, pushed
  <1>2. sweep[g].todo \subseteq Doomed
    BY SweepFacts DEF Doomed
  <1>3. \A b \in Doomed' : b \in Blobs /\ (b \in sweep'[g].todo \/ b = sweep'[g].blob)
    BY DEF Doomed, OneSweeper
  <1>4. CASE SweepList(g)
    <2>1. sweep'[g].todo = Unreferenced /\ sweep'[g].blob = NoBlob /\ UNCHANGED <<objects, rows>>
      BY <1>4 DEF SweepList, stores, TypeOK
    <2>2. Doomed' \subseteq Unreferenced
      BY <1>3, <2>1, NullAssumption
    <2> QED
      BY <1>1, <2>1, <2>2, OnlyDoomedGo
  <1>5. CASE SweepObject(g)
    <2>1. PICK b \in sweep[g].todo :
            \/ /\ objects' = objects \ {b}
               /\ sweep' = [sweep EXCEPT ![g] =
                    [at |-> "row", todo |-> sweep[g].todo \ {b}, blob |-> b]]
            \/ SweepNext(g, sweep[g].todo \ {b}) /\ UNCHANGED objects
      BY <1>5 DEF SweepObject
    <2>2. b \in Doomed /\ UNCHANGED rows
      BY <1>2, <1>5 DEF SweepObject
    <2>3. objects \ Doomed \subseteq objects'
      BY <2>1, <2>2
    <2>4. sweep'[g].todo \subseteq sweep[g].todo /\ sweep'[g].blob \in {b, NoBlob}
      BY <2>1 DEF SweepNext, Resting, TypeOK
    <2>5. Doomed' \subseteq Doomed
      BY <1>2, <1>3, <2>2, <2>4, NullAssumption
    <2> QED
      BY <1>1, <2>2, <2>3, <2>5, OnlyDoomedGo
  <1>6. CASE SweepRow(g)
    <2>1. sweep[g].blob \in Doomed /\ UNCHANGED objects
      BY <1>6, SweepFacts DEF SweepRow, Doomed
    <2>2. \A b \in Blobs \ Doomed : rows'[b] = rows[b]
      BY <1>6, <2>1 DEF SweepRow, DeleteBlobRow, TypeOK
    <2>3. \A b \in Doomed : rows'[b] = rows[b] \/ rows'[b] = Absent
      BY <1>6 DEF SweepRow, DeleteBlobRow, TypeOK, Doomed
    <2>4. sweep'[g].todo \subseteq sweep[g].todo /\ sweep'[g].blob = NoBlob
      BY <1>6 DEF SweepRow, SweepNext, Resting, TypeOK
    <2>5. Doomed' \subseteq Doomed
      BY <1>2, <1>3, <2>4, NullAssumption
    <2> QED
      BY <1>1, <2>1, <2>2, <2>3, <2>5, OnlyDoomedGo
  <1>7. CASE SweepAbort(g)
    <2>1. sweep'[g] = Resting /\ UNCHANGED <<objects, rows>>
      BY <1>7 DEF SweepAbort, stores, TypeOK
    <2>2. Doomed' = {}
      BY <1>3, <2>1, NullAssumption DEF Resting
    <2> QED
      BY <1>1, <2>1, <2>2, OnlyDoomedGo
  <1> QED
    BY <1>4, <1>5, <1>6, <1>7 DEF Collect

LEMMA PushTick ==
    ASSUME TypeOK, TypeOK', PushSound, Tick
    PROVE  PushSound'
  <1>1. /\ now' = now + 1 /\ UNCHANGED <<objects, rows, manifests, req, sweep, since, clean>>
        /\ own' = [c \in Clients |-> IF now' <= since[c] + Grace THEN own[c] ELSE {}]
    BY DEF Tick, stores
  <1>2. ASSUME NEW c \in Clients, InWindow(c)' PROVE InWindow(c)
    BY <1>1, <1>2, NumberAssumption DEF InWindow, TypeOK
  <1>3. PushesBegan'
    BY <1>1 DEF PushSound, PushesBegan, TypeOK
  <1>4. OwnKept'
    <2> SUFFICES ASSUME NEW c \in Clients, NEW b \in own'[c]
                 PROVE  InWindow(c)' /\ rows'[b] >= since'[c] /\ b \in objects'
      BY DEF OwnKept
    <2>1. b \in own[c] /\ InWindow(c)'
      BY <1>1 DEF InWindow
    <2> QED
      BY <1>1, <2>1 DEF PushSound, OwnKept
  <1>5. NewKept'
    BY <1>1, <1>2 DEF PushSound, NewKept, Blob
  <1>6. CleanKept'
    BY <1>1 DEF PushSound, CleanKept, Doomed, Recorded
  <1> QED
    BY <1>3, <1>4, <1>5, <1>6 DEF PushSound

LEMMA PushNext ==
    ASSUME OneSweeper, NoDirectDelete, TypeOK, TypeOK', SweepSound, NoEviction, PushSound,
           [Next]_vars
    PROVE  PushSound'
  <1>1. ASSUME NEW c \in Clients, Abandon(c) PROVE PushSound'
    <2>1. UNCHANGED <<now, objects, rows, manifests, sweep, own, since, clean>>
      BY <1>1 DEF Abandon, stores, history, pushed
    <2>2. \A d \in Clients : req'[d].at = "record" /\ req'[d].new => req'[d] = req[d]
      BY <1>1, NoneNewFinish DEF Abandon
    <2> QED
      BY <2>1, <2>2, OnlyAdds, CleanAreManifests
  <1>2. CASE UNCHANGED vars
    BY <1>2, OnlyAdds, CleanAreManifests DEF vars
  <1>3. ASSUME NEW c \in Clients, Delete(c) PROVE FALSE
    BY <1>3, NoDelete DEF SweepSound
  <1> QED
    BY <1>1, <1>2, <1>3, PushUpload, PushManifest, PushCache, PushCollect, PushTick DEF Next

LEMMA PushImplies == PushSound => CleanImageIntact
  BY DEF PushSound, CleanKept, CleanImageIntact

\* The grace window protects a push: with one garbage collector process, no direct
\* deletes and no download taken back for the quota, an image pushed anew within
\* the grace period keeps its rows and its objects, through any number of pushes,
\* sweeps, downloads, abandoned requests and failing calls.
THEOREM ImageIntact ==
    OneSweeper /\ NoDirectDelete /\ NothingEvicted => (Spec => []CleanImageIntact)
  <1> SUFFICES ASSUME OneSweeper, NoDirectDelete, NothingEvicted
               PROVE  Spec => []CleanImageIntact
    OBVIOUS
  <1>1. TypeOK /\ TypeOK' /\ SweepSound /\ [Next]_vars => SweepSound'
    BY SoundNext
  <1>2. TypeOK /\ SweepSound /\ NoEviction /\ [Next]_vars => NoEviction'
    BY EvictNext
  <1>3. TypeOK /\ TypeOK' /\ SweepSound /\ NoEviction /\ PushSound /\ [Next]_vars => PushSound'
    BY PushNext
  <1> QED
    BY TypeInit, TypeNext, SoundInit, EvictInit, PushInit, PushImplies, <1>1, <1>2, <1>3, PTL
    DEF Spec
=============================================================================
