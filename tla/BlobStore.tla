----------------------------- MODULE BlobStore -----------------------------
(***************************************************************************)
(* The blobs of one organization: the objects in the bucket, the rows of   *)
(* the blobs table, the manifests that reference them, and everything that *)
(* adds or removes one: the last part of an upload                         *)
(* (src/src/registry/uploads.rs), the pull-through and import download     *)
(* (src/src/proxy.rs), a manifest push and delete                          *)
(* (src/src/registry/manifests.rs), a direct blob delete                   *)
(* (src/src/registry/blobs.rs) and the garbage collector (src/src/gc.rs).  *)
(*                                                                         *)
(* Every call to the bucket, and every SQLite statement or transaction, is *)
(* one atomic step.  Nothing makes the two stores agree but the order of   *)
(* the calls.  A blob takes one unit of the organization's quota.          *)
(***************************************************************************)
EXTENDS Integers, FiniteSets

CONSTANTS
    Blobs,      \* blob digests
    Manifests,  \* manifests, by digest
    Refs,       \* the blobs each manifest references
    NoBlob,     \* no blob in a request
    NoManifest, \* no manifest in a request
    Clients,    \* concurrent requests
    Sweeps,     \* garbage collector processes: the server's loop, `ruskery gc`
    Ops,        \* the kinds of request of the instance
    Grace,      \* config gc.grace_secs, in clock ticks
    Quota,      \* the organization's effective quota in blobs, 0 = unlimited
    MaxTime,    \* bound: the last clock tick
    MaxFaults   \* bound: failing calls and abandoned requests in one behaviour

Operations == {"upload", "put", "store", "delete_manifest", "delete_blob", "cache"}

ASSUME RefsAssumption == Refs \in [Manifests -> SUBSET Blobs]
ASSUME NullAssumption == NoBlob \notin Blobs /\ NoManifest \notin Manifests
ASSUME OpsAssumption == Ops \subseteq Operations
ASSUME ClientsAssumption == IsFiniteSet(Clients)
ASSUME NumberAssumption ==
    Grace \in Nat /\ Quota \in Nat /\ MaxTime \in Nat /\ MaxFaults \in Nat

Absent == -1

VARIABLES
    now,       \* the clock
    objects,   \* the blobs whose object is in the bucket, at its final key
    rows,      \* blobs table: created_at of a blob's row, or Absent
    manifests, \* manifests table, with manifest_blobs
    req,       \* the requests in flight, with their local variables
    sweep,     \* the sweeps in progress
    faults,    \* bound: faults so far
    own,       \* history: the blobs a client's push has added, while within Grace
    since,     \* history: when that push put its first object in the bucket
    clean,     \* history: manifests whose push added every blob of theirs
    lost       \* history: listed blobs of a sweep whose row another has removed since

vars == <<now, objects, rows, manifests, req, sweep, faults, own, since, clean, lost>>
stores == <<objects, rows, manifests>>
pushed == <<own, since, clean>>
history == <<pushed, lost>>

Idle == [at |-> "idle", blob |-> NoBlob, manifest |-> NoManifest, todo |-> {}, new |-> FALSE]
Resting == [at |-> "idle", todo |-> {}, blob |-> NoBlob]

BlobStages == {
    "exists", "quota", "copy", "record",                  \* upload
    "referenced", "delete_object", "delete_row",          \* blob delete
    "fetch", "store", "recheck", "evict", "cache_record"} \* cache_blob
ManifestStages == {"check", "put"}

BlobRequest == [at : BlobStages, blob : Blobs, manifest : {NoManifest}, todo : {{}}, new : BOOLEAN]
ManifestRequest == [at : ManifestStages, blob : {NoBlob}, manifest : Manifests,
                    todo : SUBSET Blobs, new : {FALSE}]
Request == {Idle} \cup BlobRequest \cup ManifestRequest

Sweep ==
    {Resting}
    \cup [at : {"object"}, todo : SUBSET Blobs, blob : {NoBlob}]
    \cup [at : {"row"}, todo : SUBSET Blobs, blob : Blobs]

Init ==
    /\ now = 0
    /\ objects = {} /\ manifests = {}
    /\ rows = [b \in Blobs |-> Absent]
    /\ req = [c \in Clients |-> Idle]
    /\ sweep = [g \in Sweeps |-> Resting]
    /\ faults = 0
    /\ own = [c \in Clients |-> {}] /\ since = [c \in Clients |-> 0]
    /\ clean = {}
    /\ lost = [g \in Sweeps |-> {}]

Blob(c) == req[c].blob
Recorded == {b \in Blobs : rows[b] # Absent}
Referenced == UNION {Refs[m] : m \in manifests}
OrgStorageUsed == Cardinality(Recorded)

\* The history is kept in the instances that push images.
Pushing == "put" \in Ops

\* A request for a blob, or for a manifest, starts at stage s.
Start(c, op, s, b, m, todo) ==
    /\ op \in Ops
    /\ req[c].at = "idle"
    /\ req' = [req EXCEPT ![c] = [Idle EXCEPT !.at = s, !.blob = b, !.manifest = m, !.todo = todo]]

Goto(c, s) == req' = [req EXCEPT ![c].at = s]
Finish(c) == req' = [req EXCEPT ![c] = Idle]

\* Mutant: it gets the end of its grace period for its created_at.
RecordBlobAhead(b) == rows' = [rows EXCEPT ![b] = IF @ = Absent THEN now + Grace ELSE @]
\* Mutant: ON CONFLICT DO UPDATE, to make a blob that is pushed again young.
RecordBlobAfresh(b) == rows' = [rows EXCEPT ![b] = now]
\* INSERT ... ON CONFLICT DO NOTHING: an existing row keeps its created_at.
RecordBlob(b) == rows' = [rows EXCEPT ![b] = IF @ = Absent THEN now ELSE @]

DeleteBlobRow(b) == rows' = [rows EXCEPT ![b] = Absent]

\* The blobs of its list that a sweep has not finished with.
Pending(g) == sweep[g].todo \cup ({sweep[g].blob} \ {NoBlob})
\* Of a row that goes, every other sweep that has listed it loses what it listed.
LostBy(b, others) == lost' = [g \in Sweeps |->
    IF g \in others /\ b \in Pending(g) THEN lost[g] \cup {b} ELSE lost[g]]

-----------------------------------------------------------------------------
(***************************************************************************)
(* Upload: the end of finish, once the bytes and their digest are right    *)
(***************************************************************************)
StartUpload(c) ==
    /\ \E b \in Blobs : Start(c, "upload", "exists", b, NoManifest, {})
    /\ UNCHANGED <<now, stores, sweep, faults, history>>

\* A blob the organization already has takes no quota.
UploadExists(c) ==
    /\ req[c].at = "exists"
    /\ Goto(c, IF rows[Blob(c)] = Absent THEN "quota" ELSE "copy")
    /\ UNCHANGED <<now, stores, sweep, faults, history>>

\* Mutant: the new blob is not counted.
FitsBeforeAdding == Quota = 0 \/ OrgStorageUsed <= Quota
FitsQuota == Quota = 0 \/ OrgStorageUsed + 1 <= Quota

UploadQuota(c) ==
    /\ req[c].at = "quota"
    /\ IF FitsQuota THEN Goto(c, "copy") ELSE Finish(c)
    /\ UNCHANGED <<now, stores, sweep, faults, history>>

\* The temporary object is copied to the blob's key.
UploadCopy(c) ==
    /\ req[c].at = "copy"
    /\ objects' = objects \cup {Blob(c)}
    /\ req' = [req EXCEPT ![c].at = "record", ![c].new = Pushing /\ rows[Blob(c)] = Absent]
    /\ since' = [since EXCEPT ![c] = IF own[c] = {} /\ req'[c].new THEN now ELSE @]
    /\ UNCHANGED <<now, rows, manifests, sweep, faults, own, clean, lost>>

UploadRecord(c) ==
    /\ req[c].at = "record"
    /\ RecordBlob(Blob(c))
    /\ Finish(c)
    /\ IF req[c].new /\ rows[Blob(c)] = Absent /\ now <= since[c] + Grace
       THEN own' = [own EXCEPT ![c] = @ \cup {Blob(c)}]
       ELSE UNCHANGED own
    /\ UNCHANGED <<now, objects, manifests, sweep, faults, since, clean, lost>>

-----------------------------------------------------------------------------
(***************************************************************************)
(* Manifests                                                               *)
(***************************************************************************)
StartPut(c) ==
    /\ \E m \in Manifests : Start(c, "put", "check", NoBlob, m, Refs[m])
    /\ UNCHANGED <<now, stores, sweep, faults, history>>

\* One blob_exists per referenced blob; a missing one is a 400.
PutCheck(c) ==
    /\ req[c].at = "check"
    /\ \/ \E b \in req[c].todo :
            IF rows[b] = Absent
            THEN Finish(c)
            ELSE req' = [req EXCEPT ![c].todo = @ \ {b}]
       \/ req[c].todo = {} /\ Goto(c, "put")
    /\ UNCHANGED <<now, stores, sweep, faults, history>>

\* put_manifest: one transaction, with the rows of manifest_blobs.
PutManifest(c) ==
    /\ req[c].at = "put"
    /\ manifests' = manifests \cup {req[c].manifest}
    /\ clean' = IF Refs[req[c].manifest] \subseteq own[c]
                THEN clean \cup {req[c].manifest} ELSE clean
    /\ own' = [own EXCEPT ![c] = {}]
    /\ Finish(c)
    /\ UNCHANGED <<now, objects, rows, sweep, faults, since, lost>>

\* store_manifest, of a mirrored or imported image: its blobs need not be there.
StoreManifest(c) ==
    /\ "store" \in Ops
    /\ req[c].at = "idle"
    /\ \E m \in Manifests : manifests' = manifests \cup {m}
    /\ UNCHANGED <<now, objects, rows, req, sweep, faults, history>>

\* delete_manifest: one transaction.
DeleteManifest(c) ==
    /\ "delete_manifest" \in Ops
    /\ req[c].at = "idle"
    /\ \E m \in manifests :
        /\ manifests' = manifests \ {m}
        /\ clean' = clean \ {m}
    /\ UNCHANGED <<now, objects, rows, req, sweep, faults, own, since, lost>>

-----------------------------------------------------------------------------
(***************************************************************************)
(* Direct delete of a blob                                                 *)
(***************************************************************************)
StartDelete(c) ==
    /\ \E b \in Recorded : Start(c, "delete_blob", "referenced", b, NoManifest, {})
    /\ UNCHANGED <<now, stores, sweep, faults, history>>

\* 409 while a manifest of the organization references it.
DeleteReferenced(c) ==
    /\ req[c].at = "referenced"
    /\ IF Blob(c) \in Referenced THEN Finish(c) ELSE Goto(c, "delete_object")
    /\ UNCHANGED <<now, stores, sweep, faults, history>>

\* The result of the bucket's delete is ignored.
DeleteObject(c) ==
    /\ req[c].at = "delete_object"
    /\ \/ objects' = objects \ {Blob(c)} /\ UNCHANGED faults
       \/ /\ faults < MaxFaults /\ faults' = faults + 1
          /\ UNCHANGED objects
    /\ Goto(c, "delete_row")
    /\ UNCHANGED <<now, rows, manifests, sweep, history>>

DeleteRow(c) ==
    /\ req[c].at = "delete_row"
    /\ DeleteBlobRow(Blob(c)) /\ LostBy(Blob(c), Sweeps)
    /\ Finish(c)
    /\ UNCHANGED <<now, objects, manifests, sweep, faults, pushed>>

-----------------------------------------------------------------------------
(***************************************************************************)
(* cache_blob: download of a blob the organization does not have           *)
(***************************************************************************)
StartCache(c) ==
    /\ \E b \in Blobs \ Recorded : Start(c, "cache", "fetch", b, NoManifest, {})
    /\ UNCHANGED <<now, stores, sweep, faults, history>>

\* The advertised length, when there is one, is checked against the quota.
CacheFetch(c) ==
    /\ req[c].at = "fetch"
    /\ \/ Goto(c, "store")
       \/ ~FitsQuota /\ Finish(c)
    /\ UNCHANGED <<now, stores, sweep, faults, history>>

\* stream_to_storage writes the object straight to its final key.
CacheStore(c) ==
    /\ req[c].at = "store"
    /\ objects' = objects \cup {Blob(c)}
    /\ Goto(c, IF Quota > 0 THEN "recheck" ELSE "cache_record")
    /\ UNCHANGED <<now, rows, manifests, sweep, faults, history>>

CacheRecheck(c) ==
    /\ req[c].at = "recheck"
    /\ Goto(c, IF FitsQuota THEN "cache_record" ELSE "evict")
    /\ UNCHANGED <<now, stores, sweep, faults, history>>

\* On a breach the object goes again, and nothing is recorded.
CacheEvict(c) ==
    /\ req[c].at = "evict"
    /\ \/ objects' = objects \ {Blob(c)} /\ UNCHANGED faults
       \/ /\ faults < MaxFaults /\ faults' = faults + 1
          /\ UNCHANGED objects
    /\ Finish(c)
    /\ UNCHANGED <<now, rows, manifests, sweep, history>>

CacheRecord(c) ==
    /\ req[c].at = "cache_record"
    /\ RecordBlob(Blob(c))
    /\ Finish(c)
    /\ UNCHANGED <<now, objects, manifests, sweep, faults, history>>

\* A call fails, the client hangs up, or the server stops: the request ends here.
Abandon(c) ==
    /\ req[c].at # "idle"
    /\ faults < MaxFaults /\ faults' = faults + 1
    /\ Finish(c)
    /\ UNCHANGED <<now, stores, sweep, history>>

-----------------------------------------------------------------------------
(***************************************************************************)
(* The garbage collector                                                   *)
(***************************************************************************)
\* Mutant: the cutoff lies in the future.
ExpiredAhead(b) == rows[b] # Absent /\ rows[b] < now + Grace
Expired(b) == rows[b] # Absent /\ rows[b] < now - Grace

Unreferenced == {b \in Blobs : Expired(b) /\ b \notin Referenced}

SweepList(g) ==
    /\ sweep[g].at = "idle"
    /\ Unreferenced # {}
    /\ sweep' = [sweep EXCEPT ![g] = [at |-> "object", todo |-> Unreferenced, blob |-> NoBlob]]
    /\ lost' = [lost EXCEPT ![g] = {}]
    /\ UNCHANGED <<now, stores, req, faults, pushed>>

\* Mutant: a sweep does not end with its list.
SweepNextStuck(g, todo) ==
    sweep' = [sweep EXCEPT ![g] = [at |-> "object", todo |-> todo, blob |-> NoBlob]]

\* On to the next blob of the list, or done.
SweepNext(g, todo) ==
    sweep' = [sweep EXCEPT ![g] =
        IF todo = {} THEN Resting ELSE [at |-> "object", todo |-> todo, blob |-> NoBlob]]

\* The object goes first; when that fails the row is kept for the next sweep.
SweepObject(g) ==
    /\ sweep[g].at = "object"
    /\ \E b \in sweep[g].todo :
        \/ /\ objects' = objects \ {b}
           /\ sweep' = [sweep EXCEPT ![g] =
                [at |-> "row", todo |-> sweep[g].todo \ {b}, blob |-> b]]
           /\ UNCHANGED faults
        \/ /\ faults < MaxFaults /\ faults' = faults + 1
           /\ SweepNext(g, sweep[g].todo \ {b})
           /\ UNCHANGED objects
    /\ UNCHANGED <<now, rows, manifests, req, history>>

SweepRow(g) ==
    /\ sweep[g].at = "row"
    /\ DeleteBlobRow(sweep[g].blob) /\ LostBy(sweep[g].blob, Sweeps \ {g})
    /\ SweepNext(g, sweep[g].todo)
    /\ UNCHANGED <<now, objects, manifests, req, faults, pushed>>

\* A failing delete_blob ends the sweep, and so does a restart.
SweepAbort(g) ==
    /\ sweep[g].at # "idle"
    /\ faults < MaxFaults /\ faults' = faults + 1
    /\ sweep' = [sweep EXCEPT ![g] = Resting]
    /\ UNCHANGED <<now, stores, req, history>>

-----------------------------------------------------------------------------
Tick ==
    /\ now < MaxTime
    /\ now' = now + 1
    /\ own' = [c \in Clients |-> IF now' <= since[c] + Grace THEN own[c] ELSE {}]
    /\ UNCHANGED <<stores, req, sweep, faults, since, clean, lost>>

Upload(c) ==
    StartUpload(c) \/ UploadExists(c) \/ UploadQuota(c) \/ UploadCopy(c) \/ UploadRecord(c)
Manifest(c) ==
    StartPut(c) \/ PutCheck(c) \/ PutManifest(c) \/ StoreManifest(c) \/ DeleteManifest(c)
Delete(c) == StartDelete(c) \/ DeleteReferenced(c) \/ DeleteObject(c) \/ DeleteRow(c)
Cache(c) ==
    \/ StartCache(c) \/ CacheFetch(c) \/ CacheStore(c)
    \/ CacheRecheck(c) \/ CacheEvict(c) \/ CacheRecord(c)
Collect(g) == SweepList(g) \/ SweepObject(g) \/ SweepRow(g) \/ SweepAbort(g)

Next ==
    \/ \E c \in Clients : Upload(c) \/ Manifest(c) \/ Delete(c) \/ Cache(c) \/ Abandon(c)
    \/ \E g \in Sweeps : Collect(g)
    \/ Tick

Spec == Init /\ [][Next]_vars

\* The sweeps go on: background calls run again after every interval, and the
\* calls run makes return.
FairSpec ==
    /\ Spec
    /\ \A g \in Sweeps : WF_vars(SweepList(g)) /\ WF_vars(SweepObject(g)) /\ WF_vars(SweepRow(g))

-----------------------------------------------------------------------------
(***************************************************************************)
(* Properties                                                              *)
(***************************************************************************)
TypeOK ==
    /\ now \in Nat /\ faults \in Nat
    /\ objects \in SUBSET Blobs /\ manifests \in SUBSET Manifests
    /\ rows \in [Blobs -> Nat \cup {Absent}] /\ \A b \in Blobs : rows[b] <= now
    /\ req \in [Clients -> Request]
    /\ sweep \in [Sweeps -> Sweep]
    /\ own \in [Clients -> SUBSET Blobs] /\ since \in [Clients -> Nat]
    /\ clean \in SUBSET Manifests /\ lost \in [Sweeps -> SUBSET Blobs]

\* The grace window protects an in-flight push (content.rs, unreferenced_blobs):
\* an image whose client uploaded every blob of it anew and pushed its manifest
\* within the grace period keeps its rows and its objects for as long as the
\* manifest is there, whatever sweeps, faults and other pushes do.
CleanImageIntact ==
    \A m \in clean : Refs[m] \subseteq Recorded \cap objects

\* "Blobs younger than this are never collected" (config.rs, GcConfig) holds of the
\* row that a sweep has listed, not of its blob: a sweep removes a younger row only
\* where another sweep or a direct delete has removed the one it listed, and the blob
\* was added anew before the sweep came to it.
YoungOnlyIfReplaced ==
    [][\A g \in Sweeps : SweepRow(g) /\ sweep[g].blob \in Recorded \ lost[g]
                           => Expired(sweep[g].blob)]_vars

\* "A blob is collectable once no manifest points at it" (gc.rs), and a blob
\* referenced by any manifest in the organization must not be removed (blobs.rs,
\* delete): no step takes the row of a referenced blob.
ReferencedKept == [][\A b \in Recorded \cap Referenced : rows'[b] # Absent]_vars

\* Uploads and downloads racing each other exceed the quota by at most one blob
\* per request but the first (uploads.rs, "slightly overshoot").
QuotaOvershootBounded ==
    Quota > 0 => OrgStorageUsed <= Quota + Cardinality(Clients) - 1

\* An expired blob that stays unreferenced is collected, through any finite number
\* of failing sweeps.
CollectedEventually == \A b \in Blobs : []<>(b \notin Unreferenced)
=============================================================================
