--------------------------- MODULE ManifestCache ---------------------------
(***************************************************************************)
(* The manifest read cache of ruskery (src/src/cache.rs) together with the *)
(* four request paths that read, fill and invalidate it: a client push, a  *)
(* client delete, a pull (src/src/registry/manifests.rs) and the store     *)
(* step of the pull-through cache and of the bulk importer                 *)
(* (src/src/proxy.rs).                                                     *)
(*                                                                         *)
(* A request is a tokio task.  Every SQLite statement or transaction, and  *)
(* every call that takes the cache's mutex, is one atomic step; any other  *)
(* request may run between two of them.                                    *)
(*                                                                         *)
(* Manifest bytes are determined by their digest, so what SQLite and the   *)
(* cache hold for a (repository, digest) pair is represented by the media  *)
(* type, the only part a second push of the same digest can change.        *)
(***************************************************************************)
EXTENDS Naturals, FiniteSets

CONSTANTS
    Repos,            \* repositories (ids); they exist throughout
    Digests,          \* manifest digests
    Tags,             \* tag names
    MediaTypes,       \* Content-Types a push may carry
    None,             \* "no row" / "no cache entry" / "no tag in the reference"
    Clients,          \* concurrent requests
    Proxied,          \* repositories of an org with a pull-through upstream
    WriteOps,         \* the writing requests of the instance, among the three below
    MaxWriters,       \* how many of them may be in flight at once
    MaxWrites,        \* bound: writing requests in one behaviour
    ManifestCapacity, \* config cache.manifest_capacity
    TagCapacity,      \* config cache.tag_capacity
    Faults            \* whether a statement may fail between a commit and the
                      \* cache update, or the client may hang up there

ASSUME NoneAssumption == None \notin Digests \cup Tags \cup MediaTypes
ASSUME ReposAssumption == Repos # {} /\ Proxied \subseteq Repos
ASSUME WriteOpsAssumption == WriteOps \subseteq {"push", "store", "delete"}
ASSUME BoundsAssumption ==
    /\ MaxWriters \in Nat /\ MaxWrites \in Nat
    /\ ManifestCapacity \in Nat \ {0} /\ TagCapacity \in Nat \ {0}
ASSUME FaultsAssumption == Faults \in BOOLEAN

Keys == Repos \X Digests
TagKeys == Repos \X Tags
Media == MediaTypes \cup {None}

VARIABLES
    mdb,      \* manifests table: the media type of a row, or None
    tdb,      \* tags table: the digest a tag points to, or None
    mcache,   \* Inner.manifests, the LRU map of manifests
    tcache,   \* Inner.tags, the LRU map of tag resolutions
    gen,      \* Inner.generation
    req,      \* the requests in flight, with their local variables
    fresh,    \* history: the media types a pull may still rightly serve
    skipped,  \* history: keys committed by a request that died before invalidating
    raced,    \* history: repositories whose writers have overlapped, or were not
              \* all pushes and deletes that returned
    writes    \* bound: writing requests started so far

vars == <<mdb, tdb, mcache, tcache, gen, req, fresh, skipped, raced, writes>>
cacheVars == <<mcache, tcache, gen>>
dbVars == <<mdb, tdb>>

Stages == {"idle",
    "retry",                                       \* get, after cache_manifest
    "tag_cache", "tag_db", "tag_fill",             \* serve_local: resolve the tag
    "manifest_cache", "manifest_db", "manifest_fill",
    "respond", "miss",
    "delete_lookup",                               \* delete by tag
    "commit", "upsert_tag", "invalidate", "put_tag", "invalidate_repo"}

Request == [op : {"none", "get", "push", "store", "delete"},
            at : Stages,
            repo : Repos, tag : Tags \cup {None}, digest : Digests \cup {None},
            media : Media, gen : Nat, old : Media,
            asked : {"local", "upstream"}]         \* where a pull has looked so far

Idle == [op |-> "none", at |-> "idle", repo |-> CHOOSE r \in Repos : TRUE,
         tag |-> None, digest |-> None, media |-> None, gen |-> 0, old |-> None,
         asked |-> "local"]

Init ==
    /\ mdb = [k \in Keys |-> None]
    /\ tdb = [k \in TagKeys |-> None]
    /\ mcache = [k \in Keys |-> None]
    /\ tcache = [k \in TagKeys |-> None]
    /\ gen = 0
    /\ req = [c \in Clients |-> Idle]
    /\ fresh = [c \in Clients |-> {}]
    /\ skipped = {} /\ raced = {}
    /\ writes = 0

Key(c) == <<req[c].repo, req[c].digest>>
TagKey(c) == <<req[c].repo, req[c].tag>>

(***************************************************************************)
(* The LRU maps.  Inserting a new key into a full map evicts another key:  *)
(* which one depends on the access order, and is left open.                *)
(***************************************************************************)
Cached(map) == {k \in DOMAIN map : map[k] # None}

LruPut(map, k, v, cap) ==
    IF map[k] # None \/ Cardinality(Cached(map)) < cap
    THEN {[map EXCEPT ![k] = v]}
    ELSE {[map EXCEPT ![k] = v, ![old] = None] : old \in Cached(map)}

(***************************************************************************)
(* Requests                                                                *)
(***************************************************************************)
Writing(c) == req[c].op \in {"push", "store", "delete"}
Writers == {c \in Clients : Writing(c)}

\* A request moves to stage s, keeping its other local variables.
Goto(c, s) == req' = [req EXCEPT ![c].at = s]
Finish(c) == /\ req' = [req EXCEPT ![c] = Idle]
             /\ fresh' = [fresh EXCEPT ![c] = {}]

\* A request has committed a change of key k and not invalidated the cache yet.
Dirty(c, k) ==
    /\ Writing(c) /\ Key(c) = k
    /\ req[c].at \in {"upsert_tag", "put_tag", "invalidate"}
    /\ req[c].op = "push" => req[c].at # "put_tag"

\* The values replaced by the commits that are still to be invalidated.
Overwritten(k) == {req[c].old : c \in {x \in Clients : Dirty(x, k)}}

\* What may rightly be served for k: the current row, or one whose replacement
\* has not returned to its client yet.
Servable(k) == {mdb[k]} \cup Overwritten(k)

\* A pull looks a key up.
StartLookup(c, k) == fresh' = [fresh EXCEPT ![c] = Servable(k)]

LookingUp == {"manifest_cache", "manifest_db", "manifest_fill", "respond"}

\* A row of key k changes to v: every pull in progress on k may serve v too.
Refresh(k, v) ==
    fresh' = [c \in Clients |->
        IF req[c].at \in LookingUp /\ Key(c) = k
        THEN fresh[c] \cup {v} ELSE fresh[c]]

-----------------------------------------------------------------------------
(***************************************************************************)
(* Pull: serve_local, and get around it                                    *)
(***************************************************************************)

\* A lookup by tag t, or by digest d, with the generation read before it starts.
GetOf(r, t, d, asked) ==
    [Idle EXCEPT !.op = "get", !.repo = r, !.tag = t, !.digest = d,
        !.gen = gen, !.asked = asked,
        !.at = IF t = None THEN "manifest_cache" ELSE "tag_cache"]

\* find_repo succeeded; snapshot the generation before any other read.
StartGet(c) ==
    /\ req[c].at = "idle"
    /\ \E r \in Repos :
        \/ \E d \in Digests :
            /\ req' = [req EXCEPT ![c] = GetOf(r, None, d, "local")]
            /\ StartLookup(c, <<r, d>>)
        \/ \E t \in Tags :
            /\ req' = [req EXCEPT ![c] = GetOf(r, t, None, "local")]
            /\ UNCHANGED fresh
    /\ UNCHANGED <<dbVars, cacheVars, skipped, raced, writes>>

\* serve_local again, now that cache_manifest has stored the upstream's manifest.
RetryGet(c) ==
    /\ req[c].at = "retry"
    /\ req' = [req EXCEPT ![c] = GetOf(req[c].repo, req[c].tag, req[c].digest, "upstream")]
    /\ IF req[c].tag = None THEN StartLookup(c, Key(c)) ELSE UNCHANGED fresh
    /\ UNCHANGED <<dbVars, cacheVars, skipped, raced, writes>>

\* The digest is known: go on to the manifest itself.
Resolve(c, d, s) ==
    /\ req' = [req EXCEPT ![c].digest = d, ![c].at = s]
    /\ StartLookup(c, <<req[c].repo, d>>)

GetTag(c) ==
    /\ req[c].at = "tag_cache"
    /\ \/ /\ tcache[TagKey(c)] # None
          /\ Resolve(c, tcache[TagKey(c)], "manifest_cache")
       \/ /\ tcache[TagKey(c)] = None
          /\ Goto(c, "tag_db")
          /\ UNCHANGED fresh
    /\ UNCHANGED <<dbVars, cacheVars, skipped, raced, writes>>

TagDigest(c) ==
    /\ req[c].at = "tag_db"
    /\ \/ /\ tdb[TagKey(c)] # None
          /\ req' = [req EXCEPT ![c].digest = tdb[TagKey(c)], ![c].at = "tag_fill"]
       \/ /\ tdb[TagKey(c)] = None
          /\ Goto(c, "miss")
    /\ UNCHANGED <<dbVars, cacheVars, fresh, skipped, raced, writes>>

PutTagIfCurrent(c) ==
    /\ req[c].at = "tag_fill"
    /\ IF gen = req[c].gen
       THEN tcache' \in LruPut(tcache, TagKey(c), req[c].digest, TagCapacity)
       ELSE UNCHANGED tcache
    /\ Resolve(c, req[c].digest, "manifest_cache")
    /\ UNCHANGED <<dbVars, mcache, gen, skipped, raced, writes>>

GetManifest(c) ==
    /\ req[c].at = "manifest_cache"
    /\ \/ /\ mcache[Key(c)] # None
          /\ req' = [req EXCEPT ![c].media = mcache[Key(c)], ![c].at = "respond"]
       \/ /\ mcache[Key(c)] = None
          /\ Goto(c, "manifest_db")
    /\ UNCHANGED <<dbVars, cacheVars, fresh, skipped, raced, writes>>

GetManifestByDigest(c) ==
    /\ req[c].at = "manifest_db"
    /\ \/ /\ mdb[Key(c)] # None
          /\ req' = [req EXCEPT ![c].media = mdb[Key(c)], ![c].at = "manifest_fill"]
       \/ /\ mdb[Key(c)] = None
          /\ Goto(c, "miss")
    /\ UNCHANGED <<dbVars, cacheVars, fresh, skipped, raced, writes>>

\* Mutant: the populate ignores the generation.
PutManifestUnchecked(c) ==
    /\ req[c].at = "manifest_fill"
    /\ mcache' \in LruPut(mcache, Key(c), req[c].media, ManifestCapacity)
    /\ Goto(c, "respond")
    /\ UNCHANGED <<dbVars, tcache, gen, fresh, skipped, raced, writes>>

PutManifestIfCurrent(c) ==
    /\ req[c].at = "manifest_fill"
    /\ IF gen = req[c].gen
       THEN mcache' \in LruPut(mcache, Key(c), req[c].media, ManifestCapacity)
       ELSE UNCHANGED mcache
    /\ Goto(c, "respond")
    /\ UNCHANGED <<dbVars, tcache, gen, fresh, skipped, raced, writes>>

\* 200 with the manifest.
Respond(c) ==
    /\ req[c].at = "respond"
    /\ Finish(c)
    /\ UNCHANGED <<dbVars, cacheVars, skipped, raced, writes>>

\* serve_local returned None.  404, unless the org mirrors an upstream that has
\* not been asked yet: then the manifest it returns is stored and looked up again.
NotFound(c) ==
    /\ req[c].at = "miss"
    /\ Finish(c)
    /\ UNCHANGED <<dbVars, cacheVars, skipped, raced, writes>>

CanWrite(op) ==
    /\ op \in WriteOps
    /\ Cardinality(Writers) < MaxWriters
    /\ writes < MaxWrites

\* cache_manifest: the upstream serves some manifest for a tag, or the one asked
\* for by digest (any other is refused).
FetchUpstream(c) ==
    /\ req[c].at = "miss"
    /\ req[c].repo \in Proxied /\ req[c].asked = "local"
    /\ CanWrite("store")
    /\ \E d \in Digests, m \in MediaTypes :
        /\ req[c].tag = None => d = req[c].digest
        /\ req' = [req EXCEPT ![c].op = "store", ![c].at = "commit",
                    ![c].digest = d, ![c].media = m, ![c].asked = "upstream"]
    /\ fresh' = [fresh EXCEPT ![c] = {}]
    /\ raced' = raced \cup {req[c].repo}
    /\ writes' = writes + 1
    /\ UNCHANGED <<dbVars, cacheVars, skipped>>

-----------------------------------------------------------------------------
(***************************************************************************)
(* Writers                                                                 *)
(***************************************************************************)
WriteOf(op, r, t, d, m) ==
    [Idle EXCEPT !.op = op, !.repo = r, !.tag = t, !.digest = d, !.media = m,
        !.at = IF d = None THEN "delete_lookup" ELSE "commit"]

StartWrite(c, op, r, t, d, m) ==
    /\ CanWrite(op)
    /\ req[c].at = "idle"
    /\ req' = [req EXCEPT ![c] = WriteOf(op, r, t, d, m)]
    /\ raced' = IF op = "store" \/ \E x \in Writers : req[x].repo = r
                THEN raced \cup {r} ELSE raced
    /\ writes' = writes + 1
    /\ UNCHANGED <<dbVars, cacheVars, fresh, skipped>>

\* manifests::put by tag or by digest, once its blobs are known to exist and the
\* repository is there.
StartPush(c) ==
    \E r \in Repos, t \in Tags \cup {None}, d \in Digests, m \in MediaTypes :
        StartWrite(c, "push", r, t, d, m)

\* The importer stores a manifest it has fetched.
StartStore(c) ==
    \E r \in Repos, t \in Tags \cup {None}, d \in Digests, m \in MediaTypes :
        StartWrite(c, "store", r, t, d, m)

\* manifests::delete by digest, or by a tag it resolves first.
StartDelete(c) ==
    \E r \in Repos :
        \/ \E d \in Digests : StartWrite(c, "delete", r, None, d, None)
        \/ \E t \in Tags : StartWrite(c, "delete", r, t, None, None)

DeleteLookup(c) ==
    /\ req[c].at = "delete_lookup"
    /\ \/ /\ tdb[TagKey(c)] # None
          /\ req' = [req EXCEPT ![c].digest = tdb[TagKey(c)], ![c].at = "commit"]
          /\ UNCHANGED fresh
       \/ /\ tdb[TagKey(c)] = None
          /\ Finish(c)
    /\ UNCHANGED <<dbVars, cacheVars, skipped, raced, writes>>

\* Mutant: media_type and digest are bound in the wrong order.
PutManifestSwapped(c) ==
    /\ req[c].at = "commit" /\ req[c].op \in {"push", "store"}
    /\ mdb' = [mdb EXCEPT ![Key(c)] = req[c].digest]
    /\ req' = [req EXCEPT ![c].old = mdb[Key(c)],
                ![c].at = IF req[c].tag = None THEN "invalidate" ELSE "upsert_tag"]
    /\ Refresh(Key(c), req[c].digest)
    /\ UNCHANGED <<tdb, cacheVars, skipped, raced, writes>>

\* put_manifest: one transaction.
PutManifest(c) ==
    /\ req[c].at = "commit" /\ req[c].op \in {"push", "store"}
    /\ mdb' = [mdb EXCEPT ![Key(c)] = req[c].media]
    /\ req' = [req EXCEPT ![c].old = mdb[Key(c)],
                ![c].at = IF req[c].tag = None THEN "invalidate" ELSE "upsert_tag"]
    /\ Refresh(Key(c), req[c].media)
    /\ UNCHANGED <<tdb, cacheVars, skipped, raced, writes>>

\* Mutant: the tags at the digest stay.
DeleteManifestOnly(c) ==
    /\ req[c].at = "commit" /\ req[c].op = "delete"
    /\ mdb' = [mdb EXCEPT ![Key(c)] = None]
    /\ req' = [req EXCEPT ![c].old = mdb[Key(c)], ![c].at = "invalidate"]
    /\ Refresh(Key(c), None)
    /\ UNCHANGED <<tdb, cacheVars, skipped, raced, writes>>

\* delete_manifest: one transaction removes the row and every tag at the digest.
DeleteManifest(c) ==
    /\ req[c].at = "commit" /\ req[c].op = "delete"
    /\ mdb' = [mdb EXCEPT ![Key(c)] = None]
    /\ tdb' = [k \in TagKeys |->
                IF k[1] = req[c].repo /\ tdb[k] = req[c].digest THEN None ELSE tdb[k]]
    /\ req' = [req EXCEPT ![c].old = mdb[Key(c)], ![c].at = "invalidate"]
    /\ Refresh(Key(c), None)
    /\ UNCHANGED <<cacheVars, skipped, raced, writes>>

\* A push drops the cached bytes before it sets the tag; store_manifest sets the
\* tag first.
UpsertTag(c) ==
    /\ req[c].at = "upsert_tag"
    /\ tdb' = [tdb EXCEPT ![TagKey(c)] = req[c].digest]
    /\ Goto(c, IF req[c].op = "push" THEN "invalidate" ELSE "put_tag")
    /\ UNCHANGED <<mdb, cacheVars, fresh, skipped, raced, writes>>

\* Mutant: the generation is not bumped.
DropWithoutBump(k) ==
    /\ mcache' = [mcache EXCEPT ![k] = None]
    /\ UNCHANGED gen

\* invalidate_manifest, under the cache's mutex.
DropManifest(k) ==
    /\ gen' = gen + 1
    /\ mcache' = [mcache EXCEPT ![k] = None]

\* What follows invalidate_manifest in each of the three callers.
InvalidateManifest(c) ==
    /\ req[c].at = "invalidate"
    /\ DropManifest(Key(c))
    /\ \/ /\ req[c].op = "push" /\ req[c].tag # None
          /\ Goto(c, "put_tag") /\ UNCHANGED fresh
       \/ /\ req[c].op = "delete"
          /\ Goto(c, "invalidate_repo") /\ UNCHANGED fresh
       \/ /\ req[c].op = "push" /\ req[c].tag = None
          /\ Finish(c)
       \/ /\ req[c].op = "store" /\ req[c].asked = "local"
          /\ Finish(c)
       \/ \* a pull that fetched from upstream runs serve_local once more
          /\ req[c].op = "store" /\ req[c].asked = "upstream"
          /\ req' = [req EXCEPT ![c].op = "get", ![c].at = "retry"]
          /\ UNCHANGED fresh
    /\ UNCHANGED <<dbVars, tcache, skipped, raced, writes>>

PutTag(c) ==
    /\ req[c].at = "put_tag"
    /\ tcache' \in LruPut(tcache, TagKey(c), req[c].digest, TagCapacity)
    /\ IF req[c].op = "push"
       THEN Finish(c)
       ELSE Goto(c, "invalidate") /\ UNCHANGED fresh
    /\ UNCHANGED <<dbVars, mcache, gen, skipped, raced, writes>>

\* Mutant: the resolutions of the repository stay cached.
KeepRepoTags(c) ==
    /\ req[c].at = "invalidate_repo"
    /\ gen' = gen + 1
    /\ Finish(c)
    /\ UNCHANGED <<dbVars, mcache, tcache, skipped, raced, writes>>

InvalidateRepoTags(c) ==
    /\ req[c].at = "invalidate_repo"
    /\ gen' = gen + 1
    /\ tcache' = [k \in TagKeys |-> IF k[1] = req[c].repo THEN None ELSE tcache[k]]
    /\ Finish(c)
    /\ UNCHANGED <<dbVars, mcache, skipped, raced, writes>>

(***************************************************************************)
(* A failing upsert_tag returns early through `?`.  A client that hangs up *)
(* makes the server drop its request at an await, the one for a statement  *)
(* that SQLite then still executes included.  Both leave the committed     *)
(* change without the invalidation that should follow it.  There is no     *)
(* await between a store's put_tag and its invalidation, and no client     *)
(* behind the importer's store.                                            *)
(***************************************************************************)
DieBeforeInvalidate(c) ==
    /\ Faults
    /\ Dirty(c, Key(c))
    /\ \/ req[c].at = "upsert_tag"
       \/ req[c].op \in {"push", "delete"}
       \/ req[c].at = "put_tag" /\ req[c].asked = "upstream"
    /\ skipped' = skipped \cup {Key(c)}
    /\ raced' = raced \cup {req[c].repo}
    /\ Finish(c)
    /\ UNCHANGED <<dbVars, cacheVars, writes>>

-----------------------------------------------------------------------------
Pull(c) ==
    \/ StartGet(c) \/ RetryGet(c) \/ GetTag(c) \/ TagDigest(c) \/ PutTagIfCurrent(c)
    \/ GetManifest(c) \/ GetManifestByDigest(c) \/ PutManifestIfCurrent(c)
    \/ Respond(c) \/ NotFound(c) \/ FetchUpstream(c)

Write(c) ==
    \/ StartPush(c) \/ StartStore(c) \/ StartDelete(c) \/ DeleteLookup(c)
    \/ PutManifest(c) \/ DeleteManifest(c) \/ UpsertTag(c)
    \/ InvalidateManifest(c) \/ PutTag(c) \/ InvalidateRepoTags(c)
    \/ DieBeforeInvalidate(c)

Next == \E c \in Clients : Pull(c) \/ Write(c)

Spec == Init /\ [][Next]_vars

-----------------------------------------------------------------------------
(***************************************************************************)
(* Properties                                                              *)
(***************************************************************************)

\* Every variable has the type the code gives it.
TypeOK ==
    /\ mdb \in [Keys -> Media]
    /\ tdb \in [TagKeys -> Digests \cup {None}]
    /\ mcache \in [Keys -> Media]
    /\ tcache \in [TagKeys -> Digests \cup {None}]
    /\ gen \in Nat
    /\ req \in [Clients -> Request]
    /\ fresh \in [Clients -> SUBSET Media]
    /\ skipped \in SUBSET Keys /\ raced \in SUBSET Repos
    /\ writes \in Nat

\* The generation counter does its work (cache.rs, "Coherency under
\* concurrency"): whatever races whatever, a cached manifest is the row SQLite
\* holds, or a row whose replacement has committed but has not come to its
\* invalidation.  In particular a deleted manifest is not cached once its
\* delete has returned.
ManifestCoherent ==
    \A k \in Keys \ skipped :
        mcache[k] # None => mcache[k] \in Servable(k)

\* A pull by digest never serves what had already been replaced, by a push or a
\* delete that had returned, when the pull looked the digest up.
FreshPull ==
    \A c \in Clients :
        req[c].at = "respond" /\ Key(c) \notin skipped => req[c].media \in fresh[c]

\* A cached tag resolution is what SQLite holds, unless a request that has
\* committed a change of that repository has not finished with the cache.
TagSettled(r) ==
    \A c \in Clients :
        Writing(c) /\ req[c].repo = r => req[c].at \in {"delete_lookup", "commit", "upsert_tag"}

TagsAgree(r) ==
    TagSettled(r) =>
        \A t \in Tags : tcache[<<r, t>>] # None => tcache[<<r, t>>] = tdb[<<r, t>>]

\* "The cache is always consistent with SQLite" (cache.rs:6) for the tags of a
\* repository that only pushes and deletes have written, one at a time, whatever
\* pulls ran beside them and filled the cache from old reads.
TagCoherentSerially == \A r \in Repos \ raced : TagsAgree(r)

\* There, a tag also points at a manifest the repository holds, as put sets it
\* after the row is committed and a delete removes the tags with the row.
NoDanglingTag ==
    \A k \in TagKeys : k[1] \notin raced /\ tdb[k] # None => mdb[<<k[1], tdb[k]>>] # None
=============================================================================
