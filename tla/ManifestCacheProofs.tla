------------------------ MODULE ManifestCacheProofs ------------------------
(***************************************************************************)
(* What the generation counter guarantees, for any number of repositories, *)
(* digests, tags, media types and concurrent requests, with failing and    *)
(* abandoned requests included: ManifestCoherent and FreshPull.            *)
(*                                                                         *)
(* And what it guarantees for the tags of a repository whose pushes and    *)
(* deletes come one at a time: TagCoherentSerially and NoDanglingTag.      *)
(* There a wrong resolution, cached or about to be, has a writer that has  *)
(* not finished with the cache (TagsCovered, FillCovered).                 *)
(***************************************************************************)
EXTENDS ManifestCache, TLAPS

\* No pull carries a generation from the future: it snapshots the counter, which
\* only grows.
GenBounded == \A c \in Clients : req[c].gen <= gen

\* A pull about to fill the cache in a current generation holds what the cache
\* may hold: the current row or one still to be invalidated.
FillCoherent ==
    \A c \in Clients :
        /\ req[c].at = "manifest_fill" /\ req[c].gen = gen /\ Key(c) \notin skipped
        => req[c].media \in Servable(Key(c))

\* Whatever a coherent cache holds may still be served by a pull in progress.
FreshCovers ==
    \A c \in Clients :
        req[c].at \in LookingUp => Servable(Key(c)) \subseteq fresh[c]

\* A pull that found a manifest found one it may serve.
FoundFresh ==
    \A c \in Clients :
        req[c].at \in {"manifest_fill", "respond"} /\ Key(c) \notin skipped
        => req[c].media \in fresh[c]

\* Which stages belong to which request, and what is known at each.
StageOf(q) ==
    /\ q.at \in LookingUp => q.op = "get" /\ q.digest # None
    /\ q.at \in {"commit", "upsert_tag", "invalidate", "put_tag", "invalidate_repo"}
       => q.op \in {"push", "store", "delete"} /\ q.digest # None
    /\ q.at \in {"tag_cache", "tag_db", "tag_fill", "delete_lookup", "upsert_tag", "put_tag"}
       => q.tag # None
    /\ q.at = "tag_fill" => q.digest # None
    /\ q.at \in {"tag_cache", "tag_db", "tag_fill", "retry", "miss"} => q.op = "get"
    /\ q.op = "get" /\ q.tag = None => q.digest # None

StageOK == \A c \in Clients : StageOf(req[c])

IInv ==
    /\ TypeOK /\ StageOK /\ GenBounded
    /\ ManifestCoherent /\ FillCoherent /\ FreshCovers /\ FoundFresh

-----------------------------------------------------------------------------
(***************************************************************************)
(* Types                                                                   *)
(***************************************************************************)

\* An insert into an LRU map yields maps of the same type.
LEMMA LruPutType ==
    ASSUME NEW D, NEW V, NEW map \in [D -> V], None \in V,
           NEW k, NEW v \in V, NEW cap,
           NEW new \in LruPut(map, k, v, cap)
    PROVE  new \in [D -> V]
  <1>1. CASE new = [map EXCEPT ![k] = v]
    BY <1>1
  <1>2. CASE \E old \in Cached(map) : new = [map EXCEPT ![k] = v, ![old] = None]
    BY <1>2
  <1> QED
    BY <1>1, <1>2 DEF LruPut

\* The initial record of a request slot is a request.
LEMMA IdleType == Idle \in Request
  BY ReposAssumption DEF Idle, Request, Stages, Media

\* A request whose record is replaced holds the new record.
LEMMA Assigned ==
    ASSUME TypeOK, NEW c \in Clients, NEW q, req' = [req EXCEPT ![c] = q]
    PROVE  req'[c] = q
  BY DEF TypeOK

\* Where a request starts.
LEMMA GetRecord ==
    ASSUME NEW r, NEW t, NEW d, NEW asked
    PROVE  /\ GetOf(r, t, d, asked).op = "get"
           /\ GetOf(r, t, d, asked).digest = d
           /\ GetOf(r, t, d, asked).tag = t
           /\ GetOf(r, t, d, asked).repo = r
           /\ GetOf(r, t, d, asked).gen = gen
           /\ t = None => GetOf(r, t, d, asked).at = "manifest_cache"
           /\ t # None => GetOf(r, t, d, asked).at = "tag_cache"
  BY DEF Idle, GetOf

LEMMA WriteRecord ==
    ASSUME NEW op, NEW r, NEW t, NEW d, NEW m
    PROVE  /\ WriteOf(op, r, t, d, m).op = op
           /\ WriteOf(op, r, t, d, m).digest = d
           /\ WriteOf(op, r, t, d, m).tag = t
           /\ WriteOf(op, r, t, d, m).gen = 0
           /\ d = None => WriteOf(op, r, t, d, m).at = "delete_lookup"
           /\ d # None => WriteOf(op, r, t, d, m).at = "commit"
  BY DEF Idle, WriteOf

LEMMA GetType ==
    ASSUME gen \in Nat, NEW r \in Repos, NEW t \in Tags \cup {None}, NEW d \in Digests \cup {None},
           NEW asked \in {"local", "upstream"}
    PROVE  GetOf(r, t, d, asked) \in Request
  <1>1. (IF t = None THEN "manifest_cache" ELSE "tag_cache") \in Stages
    BY DEF Stages
  <1> QED
    BY <1>1, IdleType DEF Request, GetOf

LEMMA WriteType ==
    ASSUME NEW op \in {"push", "store", "delete"}, NEW r \in Repos, NEW t \in Tags \cup {None},
           NEW d \in Digests \cup {None}, NEW m \in Media
    PROVE  WriteOf(op, r, t, d, m) \in Request
  <1>1. (IF d = None THEN "delete_lookup" ELSE "commit") \in Stages
    BY DEF Stages
  <1> QED
    BY <1>1, IdleType DEF Request, WriteOf

LEMMA TypeInit == Init => TypeOK
  BY IdleType DEF Init, TypeOK, Keys, TagKeys, Media


LEMMA ServableType ==
    ASSUME TypeOK, NEW k \in Keys
    PROVE  Servable(k) \in SUBSET Media
  BY DEF TypeOK, Servable, Overwritten, Request

\* A request that ends leaves its slot idle.
LEMMA FinishType ==
    ASSUME TypeOK, NEW c \in Clients, Finish(c)
    PROVE  req' \in [Clients -> Request] /\ fresh' \in [Clients -> SUBSET Media]
  BY IdleType DEF Finish, TypeOK

LEMMA TypeNext == TypeOK /\ StageOK /\ [Next]_vars => TypeOK'
  <1> SUFFICES ASSUME TypeOK, StageOK, [Next]_vars PROVE TypeOK'
    OBVIOUS
  <1> USE DEF cacheVars, dbVars
  <1>0. CASE UNCHANGED vars
    BY <1>0 DEF vars, TypeOK
  <1>a. ASSUME NEW c \in Clients, Pull(c) PROVE TypeOK'
    <2>1. CASE StartGet(c)
      <3>1. PICK r \in Repos : StartGet(c)!2!(r)
        BY <2>1 DEF StartGet
      <3>2. ASSUME NEW d \in Digests, StartGet(c)!2!(r)!1!(d) PROVE TypeOK'
        BY <2>1, <3>2, GetType, ServableType DEF StartGet, StartLookup, TypeOK, Keys
      <3>3. ASSUME NEW t \in Tags, StartGet(c)!2!(r)!2!(t) PROVE TypeOK'
        BY <2>1, <3>3, GetType DEF StartGet, TypeOK
      <3> QED
        BY <3>1, <3>2, <3>3
    <2>2. CASE RetryGet(c)
      <3>1. GetOf(req[c].repo, req[c].tag, req[c].digest, "upstream") \in Request
        BY GetType DEF TypeOK, Request
      <3>2. req' \in [Clients -> Request]
        BY <2>2, <3>1 DEF RetryGet, TypeOK
      <3>3. req[c].tag = None => Key(c) \in Keys
        BY <2>2 DEF RetryGet, TypeOK, StageOK, StageOf, Keys, Key, Request
      <3>4. fresh' \in [Clients -> SUBSET Media]
        BY <2>2, <3>3, ServableType DEF RetryGet, StartLookup, TypeOK
      <3> QED
        BY <2>2, <3>2, <3>4 DEF RetryGet, TypeOK
    <2>3. CASE GetTag(c)
      <3>1. TagKey(c) \in TagKeys
        BY <2>3 DEF GetTag, TypeOK, StageOK, StageOf, TagKey, TagKeys, Request
      <3>2. tcache[TagKey(c)] \in Digests \cup {None}
        BY <3>1 DEF TypeOK
      <3>3. req' \in [Clients -> Request]
        BY <2>3, <3>2 DEF GetTag, Goto, Resolve, TypeOK, Request, Stages
      <3>4. tcache[TagKey(c)] # None => <<req[c].repo, tcache[TagKey(c)]>> \in Keys
        BY <3>2 DEF TypeOK, Keys, Request
      <3>5. fresh' \in [Clients -> SUBSET Media]
        BY <2>3, <3>4, ServableType DEF GetTag, Resolve, StartLookup, TypeOK
      <3> QED
        BY <2>3, <3>3, <3>5 DEF GetTag, TypeOK
    <2>4. CASE TagDigest(c)
      <3>1. TagKey(c) \in TagKeys
        BY <2>4 DEF TagDigest, TypeOK, StageOK, StageOf, TagKey, TagKeys, Request
      <3>2. req' \in [Clients -> Request]
        BY <2>4, <3>1 DEF TagDigest, Goto, TypeOK, Request, Stages
      <3> QED
        BY <2>4, <3>2 DEF TagDigest, TypeOK
    <2>5. CASE PutTagIfCurrent(c)
      <3>1. Key(c) \in Keys /\ req[c].digest \in Digests
        BY <2>5 DEF PutTagIfCurrent, TypeOK, StageOK, StageOf, Key, Keys, Request
      <3>2. req' \in [Clients -> Request]
        BY <2>5, <3>1 DEF PutTagIfCurrent, Resolve, TypeOK, Request, Stages
      <3>3. fresh' \in [Clients -> SUBSET Media]
        BY <2>5, <3>1, ServableType DEF PutTagIfCurrent, Resolve, StartLookup, TypeOK, Key
      <3>4. tcache' \in [TagKeys -> Digests \cup {None}]
        BY <2>5, <3>1, LruPutType DEF PutTagIfCurrent, TypeOK
      <3> QED
        BY <2>5, <3>2, <3>3, <3>4 DEF PutTagIfCurrent, TypeOK
    <2>6. CASE GetManifest(c)
      <3>1. Key(c) \in Keys
        BY <2>6 DEF GetManifest, LookingUp, TypeOK, StageOK, StageOf, Key, Keys, Request
      <3>2. req' \in [Clients -> Request]
        BY <2>6, <3>1 DEF GetManifest, Goto, TypeOK, Request, Stages
      <3> QED
        BY <2>6, <3>2 DEF GetManifest, TypeOK
    <2>7. CASE GetManifestByDigest(c)
      <3>1. Key(c) \in Keys
        BY <2>7 DEF GetManifestByDigest, LookingUp, TypeOK, StageOK, StageOf, Key, Keys, Request
      <3>2. req' \in [Clients -> Request]
        <4>1. mdb[Key(c)] \in Media
          BY <3>1 DEF TypeOK
        <4> QED
          BY <2>7, <4>1, SMTT(30) DEF GetManifestByDigest, Goto, TypeOK, Request, Stages
      <3> QED
        BY <2>7, <3>2 DEF GetManifestByDigest, TypeOK
    <2>8. CASE PutManifestIfCurrent(c)
      <3>1. req' \in [Clients -> Request]
        BY <2>8 DEF PutManifestIfCurrent, Goto, TypeOK, Request, Stages
      <3>2. req[c].media \in Media /\ None \in Media
        BY DEF TypeOK, Request, Media
      <3>3. mcache' \in [Keys -> Media]
        BY <2>8, <3>2, LruPutType DEF PutManifestIfCurrent, TypeOK
      <3> QED
        BY <2>8, <3>1, <3>3 DEF PutManifestIfCurrent, TypeOK
    <2>9. CASE Respond(c)
      BY <2>9, FinishType DEF Respond, TypeOK
    <2>10. CASE NotFound(c)
      BY <2>10, FinishType DEF NotFound, TypeOK
    <2>11. CASE FetchUpstream(c)
      <3>1. req' \in [Clients -> Request]
        BY <2>11 DEF FetchUpstream, TypeOK, Request, Stages, Media
      <3>2. req[c].repo \in Repos
        BY DEF TypeOK, Request
      <3>3. raced' \in SUBSET Repos
        BY <2>11, <3>2 DEF FetchUpstream, TypeOK
      <3> QED
        BY <2>11, <3>1, <3>3 DEF FetchUpstream, TypeOK
    <2> QED
      BY <1>a, <2>1, <2>2, <2>3, <2>4, <2>5, <2>6, <2>7, <2>8, <2>9, <2>10, <2>11 DEF Pull
  <1>b. ASSUME NEW c \in Clients, Write(c) PROVE TypeOK'
    <2>1. ASSUME NEW op \in {"push", "store", "delete"}, NEW r \in Repos, NEW t \in Tags \cup {None},
                 NEW d \in Digests \cup {None}, NEW m \in Media, StartWrite(c, op, r, t, d, m)
          PROVE  TypeOK'
      <3>1. WriteOf(op, r, t, d, m) \in Request
        BY WriteType
      <3> QED
        BY <2>1, <3>1 DEF StartWrite, TypeOK
    <2>2. CASE StartPush(c)
      BY <2>1, <2>2 DEF StartPush, Media
    <2>3. CASE StartStore(c)
      BY <2>1, <2>3 DEF StartStore, Media
    <2>4. CASE StartDelete(c)
      BY <2>1, <2>4 DEF StartDelete, Media
    <2>5. CASE DeleteLookup(c)
      <3>1. TagKey(c) \in TagKeys
        BY <2>5 DEF DeleteLookup, TypeOK, StageOK, StageOf, TagKey, TagKeys, Request
      <3>2. CASE tdb[TagKey(c)] # None
        <4>1. req' \in [Clients -> Request]
          BY <2>5, <3>1, <3>2 DEF DeleteLookup, TypeOK, Request, Stages
        <4> QED
          BY <2>5, <3>2, <4>1 DEF DeleteLookup, TypeOK
      <3>3. CASE tdb[TagKey(c)] = None
        BY <2>5, <3>3, FinishType DEF DeleteLookup, TypeOK
      <3> QED
        BY <3>2, <3>3
    <2>6. CASE PutManifest(c)
      <3>1. Key(c) \in Keys
        BY <2>6 DEF PutManifest, TypeOK, StageOK, StageOf, Key, Keys, Request
      <3>2. req' \in [Clients -> Request]
        BY <2>6, <3>1 DEF PutManifest, TypeOK, Request, Stages
      <3>3. mdb' \in [Keys -> Media] /\ fresh' \in [Clients -> SUBSET Media]
        BY <2>6 DEF PutManifest, Refresh, TypeOK, Request
      <3> QED
        BY <2>6, <3>2, <3>3 DEF PutManifest, TypeOK
    <2>7. CASE DeleteManifest(c)
      <3>1. Key(c) \in Keys
        BY <2>7 DEF DeleteManifest, TypeOK, StageOK, StageOf, Key, Keys, Request
      <3>2. req' \in [Clients -> Request]
        BY <2>7, <3>1 DEF DeleteManifest, TypeOK, Request, Stages
      <3>3. mdb' \in [Keys -> Media] /\ fresh' \in [Clients -> SUBSET Media]
        BY <2>7 DEF DeleteManifest, Refresh, TypeOK, Media
      <3>4. tdb' \in [TagKeys -> Digests \cup {None}]
        BY <2>7 DEF DeleteManifest, TypeOK
      <3> QED
        BY <2>7, <3>2, <3>3, <3>4 DEF DeleteManifest, TypeOK
    <2>8. CASE UpsertTag(c)
      <3>1. req' \in [Clients -> Request]
        BY <2>8 DEF UpsertTag, Goto, TypeOK, Request, Stages
      <3>2. tdb' \in [TagKeys -> Digests \cup {None}]
        BY <2>8 DEF UpsertTag, TypeOK, Request
      <3> QED
        BY <2>8, <3>1, <3>2 DEF UpsertTag, TypeOK
    <2>9. CASE InvalidateManifest(c)
      <3>0. gen' \in Nat /\ mcache' \in [Keys -> Media]
        <4>1. gen' \in Nat
          BY <2>9 DEF InvalidateManifest, DropManifest, TypeOK
        <4>2. mcache' = [mcache EXCEPT ![Key(c)] = None] /\ None \in Media
          BY <2>9 DEF InvalidateManifest, DropManifest, Media
        <4>3. mcache' \in [Keys -> Media]
          BY <4>2 DEF TypeOK
        <4> QED
          BY <4>1, <4>3
      <3>1. CASE Finish(c)
        BY <2>9, <3>0, <3>1, FinishType DEF InvalidateManifest, DropManifest, TypeOK
      <3>2. CASE fresh' = fresh /\ \E s \in {"put_tag", "invalidate_repo"} : Goto(c, s)
        <4>1. PICK s \in {"put_tag", "invalidate_repo"} : Goto(c, s)
          BY <3>2
        <4>2. [req[c] EXCEPT !.at = s] \in Request
          BY DEF TypeOK, Request, Stages
        <4>3. req' \in [Clients -> Request]
          BY <4>1, <4>2 DEF Goto, TypeOK
        <4> QED
          BY <2>9, <3>0, <3>2, <4>3 DEF InvalidateManifest, DropManifest, TypeOK
      <3>3. CASE fresh' = fresh /\ req' = [req EXCEPT ![c].op = "get", ![c].at = "retry"]
        <4>1. ASSUME NEW q \in Request PROVE [q EXCEPT !.op = "get", !.at = "retry"] \in Request
          BY DEF Request, Stages
        <4>2. req' \in [Clients -> Request]
          BY <3>3, <4>1 DEF TypeOK
        <4> QED
          BY <2>9, <3>0, <3>3, <4>2 DEF InvalidateManifest, DropManifest, TypeOK
      <3> QED
        BY <2>9, <3>1, <3>2, <3>3 DEF InvalidateManifest, DropManifest
    <2>10. CASE PutTag(c)
      <3>1. req' \in [Clients -> Request] /\ fresh' \in [Clients -> SUBSET Media]
        <4>1. CASE Finish(c)
          BY <4>1, FinishType
        <4>2. CASE Goto(c, "invalidate") /\ fresh' = fresh
          BY <4>2 DEF Goto, TypeOK, Request, Stages
        <4> QED
          BY <2>10, <4>1, <4>2 DEF PutTag
      <3>2. req[c].digest \in Digests \cup {None}
        BY DEF TypeOK, Request
      <3>3. tcache' \in [TagKeys -> Digests \cup {None}]
        BY <2>10, <3>2, LruPutType DEF PutTag, TypeOK
      <3> QED
        BY <2>10, <3>1, <3>3 DEF PutTag, TypeOK
    <2>11. CASE InvalidateRepoTags(c)
      BY <2>11, FinishType DEF InvalidateRepoTags, TypeOK
    <2>12. CASE DieBeforeInvalidate(c)
      <3>1. Key(c) \in Keys
        BY <2>12 DEF DieBeforeInvalidate, Dirty, TypeOK, StageOK, StageOf, Key, Keys, Request
      <3>2. req[c].repo \in Repos
        BY DEF TypeOK, Request
      <3>3. raced' \in SUBSET Repos
        BY <2>12, <3>2 DEF DieBeforeInvalidate, TypeOK
      <3> QED
        BY <2>12, <3>1, <3>3, FinishType DEF DieBeforeInvalidate, TypeOK
    <2> QED
      BY <1>b, <2>2, <2>3, <2>4, <2>5, <2>6, <2>7, <2>8, <2>9, <2>10, <2>11, <2>12 DEF Write
  <1> QED
    BY <1>0, <1>a, <1>b DEF Next

\* A step of c leaves the other requests' records alone.
LEMMA OtherRequests ==
    ASSUME TypeOK, NEW c \in Clients, Pull(c) \/ Write(c), NEW x \in Clients, x # c
    PROVE  req'[x] = req[x]
  <1>1. CASE Pull(c)
    BY <1>1 DEF Pull, StartGet, RetryGet, GetTag, TagDigest, PutTagIfCurrent, GetManifest,
      GetManifestByDigest, PutManifestIfCurrent, Respond, NotFound, FetchUpstream,
      Resolve, Goto, Finish, TypeOK
  <1>2. CASE Write(c)
    BY <1>2 DEF Write, StartPush, StartStore, StartDelete, StartWrite, DeleteLookup,
      PutManifest, DeleteManifest, UpsertTag, InvalidateManifest, DropManifest, PutTag,
      InvalidateRepoTags, DieBeforeInvalidate, Goto, Finish, TypeOK
  <1> QED
    BY <1>1, <1>2

LEMMA StageInit == Init => StageOK
  BY DEF Init, StageOK, StageOf, Idle, LookingUp

LEMMA StageNext == TypeOK /\ StageOK /\ [Next]_vars => StageOK'
  <1> SUFFICES ASSUME TypeOK, StageOK, [Next]_vars PROVE StageOK'
    OBVIOUS
  <1>0. CASE UNCHANGED vars
    BY <1>0 DEF vars, StageOK
  <1>1. ASSUME NEW c \in Clients, Pull(c) \/ Write(c), StageOf(req'[c]) PROVE StageOK'
    BY <1>1, OtherRequests DEF StageOK
  <1>r. ASSUME NEW c \in Clients, NEW r, req' = [req EXCEPT ![c] = r], StageOf(r)
        PROVE  StageOf(req'[c])
    BY <1>r DEF TypeOK
  <1>2. StageOf(Idle)
    BY DEF StageOf, Idle, LookingUp
  <1>3. ASSUME NEW c \in Clients, Finish(c) PROVE StageOf(req'[c])
    BY <1>2, <1>3 DEF Finish, TypeOK
  <1> USE DEF StageOf, LookingUp
  <1>a. ASSUME NEW c \in Clients, Pull(c) PROVE StageOf(req'[c])
    <2> req[c] \in Request /\ StageOf(req[c])
      BY DEF TypeOK, StageOK
    <2>1. CASE StartGet(c)
      <3>1. ASSUME NEW r, NEW d \in Digests PROVE StageOf(GetOf(r, None, d, "local"))
        BY NoneAssumption, GetRecord
      <3>2. ASSUME NEW r, NEW t \in Tags PROVE StageOf(GetOf(r, t, None, "local"))
        BY NoneAssumption, GetRecord
      <3> HIDE DEF StageOf
      <3> QED
        BY <2>1, <3>1, <3>2, <1>r DEF StartGet
    <2>2. CASE RetryGet(c)
      <3>1. \A r, t, d : (t = None => d # None) => StageOf(GetOf(r, t, d, "upstream"))
        BY GetRecord
      <3>2. StageOf(GetOf(req[c].repo, req[c].tag, req[c].digest, "upstream"))
        BY <2>2, <3>1 DEF RetryGet
      <3> HIDE DEF StageOf
      <3> QED
        BY <2>2, <3>2, <1>r DEF RetryGet
    <2>3. CASE GetTag(c)
      BY <2>3 DEF GetTag, Resolve, Goto, TypeOK, Request
    <2>4. CASE TagDigest(c)
      BY <2>4 DEF TagDigest, Goto, TypeOK, Request
    <2>5. CASE PutTagIfCurrent(c)
      BY <2>5 DEF PutTagIfCurrent, Resolve, TypeOK, Request
    <2>6. CASE GetManifest(c)
      BY <2>6 DEF GetManifest, Goto, TypeOK, Request
    <2>7. CASE GetManifestByDigest(c)
      BY <2>7 DEF GetManifestByDigest, Goto, TypeOK, Request
    <2>8. CASE PutManifestIfCurrent(c)
      BY <2>8 DEF PutManifestIfCurrent, Goto, TypeOK, Request
    <2>9. CASE Respond(c)
      BY <2>9, <1>3 DEF Respond
    <2>10. CASE NotFound(c)
      BY <2>10, <1>3 DEF NotFound
    <2>11. CASE FetchUpstream(c)
      BY <2>11, NoneAssumption DEF FetchUpstream, TypeOK, Request
    <2> QED
      BY <1>a, <2>1, <2>2, <2>3, <2>4, <2>5, <2>6, <2>7, <2>8, <2>9, <2>10, <2>11 DEF Pull
  <1>b. ASSUME NEW c \in Clients, Write(c) PROVE StageOf(req'[c])
    <2> req[c] \in Request /\ StageOf(req[c])
      BY DEF TypeOK, StageOK
    <2>1. CASE StartPush(c) \/ StartStore(c) \/ StartDelete(c)
      <3>1. ASSUME NEW op \in {"push", "store", "delete"}, NEW r, NEW t, NEW d, NEW m,
                   d = None => t # None, StartWrite(c, op, r, t, d, m)
            PROVE  StageOf(req'[c])
        <4>1. StageOf(WriteOf(op, r, t, d, m))
          BY <3>1, WriteRecord
        <4> HIDE DEF StageOf
        <4> QED
          BY <3>1, <4>1, <1>r DEF StartWrite
      <3> HIDE DEF StageOf
      <3> QED
        BY <2>1, <3>1, NoneAssumption DEF StartPush, StartStore, StartDelete
    <2>2. CASE DeleteLookup(c)
      BY <2>2, <1>3 DEF DeleteLookup, TypeOK, Request, Writing
    <2>3. CASE PutManifest(c)
      BY <2>3 DEF PutManifest, TypeOK, Request
    <2>4. CASE DeleteManifest(c)
      BY <2>4 DEF DeleteManifest, TypeOK, Request
    <2>5. CASE UpsertTag(c)
      BY <2>5 DEF UpsertTag, Goto, TypeOK, Request
    <2>6. CASE InvalidateManifest(c)
      <3>1. CASE Finish(c)
        BY <3>1, <1>3
      <3>2. CASE ~Finish(c)
        <4>1. CASE \E s \in {"put_tag", "invalidate_repo"} :
                     Goto(c, s) /\ (s = "put_tag" => req[c].tag # None)
          BY <2>6, <4>1 DEF InvalidateManifest, DropManifest, Goto, TypeOK, Request
        <4>2. CASE req'[c] = [req[c] EXCEPT !.op = "get", !.at = "retry"]
          BY <2>6, <4>2 DEF InvalidateManifest, DropManifest, Request
        <4> QED
          BY <2>6, <3>2, <4>1, <4>2 DEF InvalidateManifest, DropManifest, TypeOK
      <3> QED
        BY <3>1, <3>2
    <2>7. CASE PutTag(c)
      BY <2>7, <1>3 DEF PutTag, Goto, TypeOK, Request
    <2>8. CASE InvalidateRepoTags(c) \/ DieBeforeInvalidate(c)
      BY <2>8, <1>3 DEF InvalidateRepoTags, DieBeforeInvalidate
    <2> QED
      BY <1>b, <2>1, <2>2, <2>3, <2>4, <2>5, <2>6, <2>7, <2>8 DEF Write
  <1> QED
    BY <1>0, <1>1, <1>a, <1>b DEF Next

\* Every variable keeps its type, in every behaviour.
THEOREM TypeCorrect == Spec => [](TypeOK /\ StageOK)
  <1>1. Init => TypeOK /\ StageOK
    BY TypeInit, StageInit
  <1>2. TypeOK /\ StageOK /\ [Next]_vars => TypeOK' /\ StageOK'
    BY TypeNext, StageNext
  <1> QED
    BY <1>1, <1>2, PTL DEF Spec

-----------------------------------------------------------------------------
(***************************************************************************)
(* What a step does to Servable                                            *)
(***************************************************************************)

\* A step that commits nothing, and leaves c to invalidate what it had to before,
\* changes nothing of what may be served.
LEMMA ServableKept ==
    ASSUME NEW c \in Clients, mdb' = mdb,
           \A x \in Clients : x # c => req'[x] = req[x],
           NEW k, Dirty(c, k) <=> Dirty(c, k)', Dirty(c, k) => req'[c].old = req[c].old
    PROVE  Servable(k)' = Servable(k)
  <1>1. \A x \in Clients : Dirty(x, k) <=> Dirty(x, k)'
    BY DEF Dirty, Writing, Key
  <1>2. \A x \in Clients : Dirty(x, k) => req'[x].old = req[x].old
    OBVIOUS
  <1>3. Overwritten(k)' = Overwritten(k)
    BY <1>1, <1>2 DEF Overwritten
  <1> QED
    BY <1>3 DEF Servable

\* Nor can a request that comes to its invalidation add anything.
LEMMA ServableShrinks ==
    ASSUME NEW c \in Clients, mdb' = mdb,
           \A x \in Clients : x # c => req'[x] = req[x],
           NEW k, ~Dirty(c, k)'
    PROVE  Servable(k)' \subseteq Servable(k)
  <1>1. \A x \in Clients : Dirty(x, k)' => x # c /\ Dirty(x, k) /\ req'[x].old = req[x].old
    BY DEF Dirty, Writing, Key
  <1>2. Overwritten(k)' \subseteq Overwritten(k)
    BY <1>1 DEF Overwritten
  <1> QED
    BY <1>2 DEF Servable

\* The steps that end a request's debt to the cache, and those that begin one.
Settles(c) == InvalidateManifest(c) \/ DieBeforeInvalidate(c)
Commits(c) == PutManifest(c) \/ DeleteManifest(c)

\* A lookup starts with the current generation.
LEMMA GetStarts ==
    ASSUME TypeOK, NEW c \in Clients, StartGet(c) \/ RetryGet(c)
    PROVE  req'[c].at \in {"manifest_cache", "tag_cache"} /\ req'[c].gen = gen
  <1>1. ASSUME NEW r, NEW t, NEW d, NEW asked,
               req' = [req EXCEPT ![c] = GetOf(r, t, d, asked)]
        PROVE  req'[c].at \in {"manifest_cache", "tag_cache"} /\ req'[c].gen = gen
    <2>1. req'[c] = GetOf(r, t, d, asked)
      BY <1>1, Assigned
    <2>2. GetOf(r, t, d, asked).at \in {"manifest_cache", "tag_cache"}
      <3>1. CASE t = None
        BY <3>1, GetRecord
      <3>2. CASE t # None
        BY <3>2, GetRecord
      <3> QED
        BY <3>1, <3>2
    <2>3. GetOf(r, t, d, asked).gen = gen
      BY GetRecord
    <2> QED
      BY <2>1, <2>2, <2>3, Zenon
  <1>2. CASE StartGet(c)
    <2>1. PICK r \in Repos : StartGet(c)!2!(r)
      BY <1>2 DEF StartGet
    <2>2. ASSUME NEW d \in Digests, StartGet(c)!2!(r)!1!(d)
          PROVE  req'[c].at \in {"manifest_cache", "tag_cache"} /\ req'[c].gen = gen
      BY <1>1, <2>2
    <2>3. ASSUME NEW t \in Tags, StartGet(c)!2!(r)!2!(t)
          PROVE  req'[c].at \in {"manifest_cache", "tag_cache"} /\ req'[c].gen = gen
      BY <1>1, <2>3
    <2> QED
      BY <2>1, <2>2, <2>3
  <1>3. CASE RetryGet(c)
    <2>1. PICK r, t, d : req' = [req EXCEPT ![c] = GetOf(r, t, d, "upstream")]
      BY <1>3 DEF RetryGet
    <2> QED
      BY <1>1, <2>1
  <1> QED
    BY <1>2, <1>3

\* A step of a pull leaves what may be served as it is.
LEMMA PullServable ==
    ASSUME TypeOK, StageOK, NEW c \in Clients, Pull(c), NEW k
    PROVE  Servable(k)' = Servable(k)
  <1>1. \A x \in Clients : x # c => req'[x] = req[x]
    BY OtherRequests
  <1>2. mdb' = mdb
    BY DEF Pull, StartGet, RetryGet, GetTag, TagDigest, PutTagIfCurrent, GetManifest,
      GetManifestByDigest, PutManifestIfCurrent, Respond, NotFound, FetchUpstream, dbVars
  <1>3. ~Dirty(c, k)
    BY DEF Dirty, Writing, Pull, StartGet, RetryGet, GetTag, TagDigest, PutTagIfCurrent,
      GetManifest, GetManifestByDigest, PutManifestIfCurrent, Respond, NotFound, FetchUpstream
  <1>4. req'[c].at \notin {"upsert_tag", "put_tag", "invalidate"}
    <2>1. CASE StartGet(c) \/ RetryGet(c)
      BY <2>1, GetStarts
    <2>2. CASE GetTag(c) \/ TagDigest(c) \/ PutTagIfCurrent(c)
      BY <2>2 DEF GetTag, TagDigest, PutTagIfCurrent, Goto, Resolve, TypeOK, Request
    <2>3. CASE GetManifest(c) \/ GetManifestByDigest(c) \/ PutManifestIfCurrent(c)
      BY <2>3 DEF GetManifest, GetManifestByDigest, PutManifestIfCurrent, Goto, TypeOK, Request
    <2>4. CASE Respond(c) \/ NotFound(c)
      BY <2>4 DEF Respond, NotFound, Finish, Idle, TypeOK
    <2>5. CASE FetchUpstream(c)
      BY <2>5 DEF FetchUpstream, TypeOK, Request
    <2> QED
      BY <2>1, <2>2, <2>3, <2>4, <2>5 DEF Pull
  <1> QED
    BY <1>1, <1>2, <1>3, <1>4, ServableKept DEF Dirty

\* A writer's step adds to what may be served only when it commits, and takes
\* away only what it invalidates.
LEMMA WriteServable ==
    ASSUME TypeOK, StageOK, NEW c \in Clients, Write(c), ~Commits(c), NEW k
    PROVE  /\ Servable(k)' \subseteq Servable(k)
           /\ k # Key(c) \/ ~Settles(c) => Servable(k)' = Servable(k)
  <1>1. \A x \in Clients : x # c => req'[x] = req[x]
    BY OtherRequests
  <1>i. Idle.at = "idle"
    BY DEF Idle
  <1>2. CASE StartPush(c) \/ StartStore(c) \/ StartDelete(c)
    <2>1. ~Dirty(c, k) /\ mdb' = mdb
      BY <1>2 DEF Dirty, StartPush, StartStore, StartDelete, StartWrite, dbVars
    <2>2. req'[c].at \in {"commit", "delete_lookup"}
      <3>1. \A op, r, t, d, m : StartWrite(c, op, r, t, d, m) => req'[c].at \in {"commit", "delete_lookup"}
        BY WriteRecord DEF StartWrite, TypeOK
      <3> QED
        BY <1>2, <3>1 DEF StartPush, StartStore, StartDelete
    <2> QED
      BY <1>1, <2>1, <2>2, ServableKept DEF Dirty
  <1>3. CASE DeleteLookup(c) \/ InvalidateRepoTags(c)
    <2>1. ~Dirty(c, k) /\ mdb' = mdb
      BY <1>3 DEF Dirty, DeleteLookup, InvalidateRepoTags, dbVars
    <2>2. req'[c].at \in {"commit", "idle"}
      BY <1>3, <1>i DEF DeleteLookup, InvalidateRepoTags, Finish, TypeOK, Request
    <2> QED
      BY <1>1, <2>1, <2>2, ServableKept DEF Dirty
  <1>4. CASE UpsertTag(c)
    <2>1. mdb' = mdb /\ \E s \in {"invalidate", "put_tag"} :
            req'[c] = [req[c] EXCEPT !.at = s] /\ (req[c].op = "push" => s = "invalidate")
      BY <1>4 DEF UpsertTag, Goto, TypeOK
    <2>2. Dirty(c, k) <=> Dirty(c, k)'
      BY <1>4, <2>1 DEF UpsertTag, Dirty, Writing, Key, TypeOK, Request
    <2>3. req'[c].old = req[c].old
      BY <2>1 DEF TypeOK, Request
    <2> QED
      BY <1>1, <2>1, <2>2, <2>3, ServableKept
  <1>5. CASE PutTag(c)
    <2>0. mdb' = mdb
      BY <1>5 DEF PutTag, dbVars
    <2>1. CASE req[c].op = "push"
      <3>1. ~Dirty(c, k) /\ req'[c] = Idle
        BY <1>5, <2>1 DEF PutTag, Dirty, Finish, TypeOK
      <3> QED
        BY <1>1, <1>i, <2>0, <3>1, ServableKept DEF Dirty
    <2>2. CASE req[c].op # "push"
      <3>1. req'[c] = [req[c] EXCEPT !.at = "invalidate"] /\ req[c].at = "put_tag"
        BY <1>5, <2>2 DEF PutTag, Goto, TypeOK
      <3>2. Dirty(c, k) <=> Dirty(c, k)'
        BY <2>2, <3>1 DEF Dirty, Writing, Key, TypeOK, Request
      <3>3. req'[c].old = req[c].old
        BY <3>1 DEF TypeOK, Request
      <3> QED
        BY <1>1, <2>0, <3>2, <3>3, ServableKept
    <2> QED
      BY <2>1, <2>2
  <1>6. CASE Settles(c)
    <2>0. mdb' = mdb
      BY <1>6 DEF Settles, InvalidateManifest, DieBeforeInvalidate, dbVars
    <2>1. req'[c].at \in {"idle", "retry", "invalidate_repo"} \/ (req'[c].op = "push" /\ req'[c].at = "put_tag")
      <3>1. CASE req' = [req EXCEPT ![c] = Idle]
        <4>1. req'[c] = Idle
          BY <3>1, Assigned
        <4> QED
          BY <4>1, <1>i
      <3>2. ASSUME NEW s, Goto(c, s) PROVE req'[c].at = s /\ req'[c].op = req[c].op
        BY <3>2 DEF Goto, TypeOK, Request
      <3>3. ASSUME req' = [req EXCEPT ![c].op = "get", ![c].at = "retry"] PROVE req'[c].at = "retry"
        BY <3>3 DEF TypeOK, Request
      <3> QED
        BY <1>6, <3>1, <3>2, <3>3 DEF Settles, InvalidateManifest, DieBeforeInvalidate, Finish
    <2>2. ~Dirty(c, k)'
      BY <2>1 DEF Dirty
    <2>3. k # Key(c) => ~Dirty(c, k)
      BY DEF Dirty
    <2> QED
      BY <1>1, <1>6, <2>0, <2>2, <2>3, ServableKept, ServableShrinks
  <1> QED
    BY <1>2, <1>3, <1>4, <1>5, <1>6 DEF Write, Commits, Settles

\* A commit replaces the row by a new value and keeps the old one servable until
\* its invalidation.
LEMMA CommitServable ==
    ASSUME TypeOK, StageOK, NEW c \in Clients, Commits(c), NEW k \in Keys
    PROVE  /\ Servable(k) \subseteq Servable(k)'
           /\ Servable(k)' \subseteq Servable(k) \cup (IF k = Key(c) THEN {mdb'[Key(c)]} ELSE {})
  <1>1. \A x \in Clients : x # c => req'[x] = req[x]
    BY OtherRequests DEF Commits, Write
  <1>2. ~Dirty(c, k)
    BY DEF Commits, PutManifest, DeleteManifest, Dirty
  <1>3. /\ Key(c) \in Keys
        /\ \E v : mdb' = [mdb EXCEPT ![Key(c)] = v]
        /\ req'[c].old = mdb[Key(c)] /\ Key(c)' = Key(c)
        /\ req'[c].at \in {"invalidate", "upsert_tag"} /\ Writing(c)'
    BY DEF Commits, PutManifest, DeleteManifest, TypeOK, StageOK, StageOf, Request, Key, Keys, Writing
  <1>4. Dirty(c, k)' <=> k = Key(c)
    BY <1>3 DEF Dirty
  <1>5. \A x \in Clients : x # c => (Dirty(x, k) <=> Dirty(x, k)') /\ req'[x].old = req[x].old
    BY <1>1 DEF Dirty, Writing, Key
  <1>6. Overwritten(k)' = Overwritten(k) \cup (IF k = Key(c) THEN {mdb[Key(c)]} ELSE {})
    BY <1>2, <1>3, <1>4, <1>5 DEF Overwritten
  <1>7. k # Key(c) => mdb'[k] = mdb[k]
    BY <1>3 DEF TypeOK
  <1> QED
    BY <1>6, <1>7 DEF Servable

-----------------------------------------------------------------------------
(***************************************************************************)
(* The cache is coherent                                                   *)
(***************************************************************************)

\* The step leaves the cached manifests alone.
LEMMA CacheUntouched ==
    ASSUME TypeOK, StageOK, NEW c \in Clients, Pull(c) \/ Write(c),
           ~PutManifestIfCurrent(c), ~InvalidateManifest(c)
    PROVE  mcache' = mcache
  BY DEF Pull, Write, StartGet, RetryGet, GetTag, TagDigest, PutTagIfCurrent, GetManifest,
    GetManifestByDigest, Respond, NotFound, FetchUpstream, StartPush, StartStore, StartDelete,
    StartWrite, DeleteLookup, PutManifest, DeleteManifest, UpsertTag, PutTag,
    InvalidateRepoTags, DieBeforeInvalidate, cacheVars

\* The generation never goes back, and a pull's snapshot of it is the value it had.
LEMMA GenStep ==
    ASSUME TypeOK, StageOK, NEW c \in Clients, Pull(c) \/ Write(c)
    PROVE  /\ gen' \in {gen, gen + 1}
           /\ InvalidateManifest(c) => gen' = gen + 1
           /\ req'[c].gen \in {req[c].gen, gen, 0}
  <1>1. CASE Pull(c)
    <2>1. gen' = gen /\ ~InvalidateManifest(c)
      BY <1>1 DEF Pull, StartGet, RetryGet, GetTag, TagDigest, PutTagIfCurrent, GetManifest,
        GetManifestByDigest, PutManifestIfCurrent, Respond, NotFound, FetchUpstream,
        cacheVars, InvalidateManifest
    <2>2. CASE StartGet(c) \/ RetryGet(c)
      BY <2>1, <2>2, GetStarts
    <2>3. CASE GetTag(c) \/ TagDigest(c) \/ PutTagIfCurrent(c) \/ FetchUpstream(c)
      <3>1. req'[c].gen = req[c].gen
        <4>1. CASE GetTag(c)
          BY <4>1 DEF GetTag, Goto, Resolve, TypeOK, Request
        <4>2. CASE TagDigest(c)
          BY <4>2 DEF TagDigest, Goto, TypeOK, Request
        <4>3. CASE PutTagIfCurrent(c)
          BY <4>3 DEF PutTagIfCurrent, Resolve, TypeOK, Request
        <4>4. CASE FetchUpstream(c)
          BY <4>4 DEF FetchUpstream, TypeOK, Request
        <4> QED
          BY <2>3, <4>1, <4>2, <4>3, <4>4
      <3> QED
        BY <2>1, <3>1
    <2>4. CASE GetManifest(c) \/ GetManifestByDigest(c) \/ PutManifestIfCurrent(c)
      <3>1. req'[c].gen = req[c].gen
        BY <2>4 DEF GetManifest, GetManifestByDigest, PutManifestIfCurrent, Goto, TypeOK, Request
      <3> QED
        BY <2>1, <3>1
    <2>5. CASE Respond(c) \/ NotFound(c)
      <3>1. req'[c].gen = 0
        BY <2>5 DEF Respond, NotFound, Finish, Idle, TypeOK
      <3> QED
        BY <2>1, <3>1
    <2> QED
      BY <1>1, <2>2, <2>3, <2>4, <2>5 DEF Pull
  <1>2. CASE Write(c)
    <2>1. gen' \in {gen, gen + 1} /\ (InvalidateManifest(c) => gen' = gen + 1)
      BY <1>2 DEF Write, StartPush, StartStore, StartDelete, StartWrite, DeleteLookup, PutManifest,
        DeleteManifest, UpsertTag, InvalidateManifest, DropManifest, PutTag, InvalidateRepoTags,
        DieBeforeInvalidate, cacheVars
    <2>2. CASE StartPush(c) \/ StartStore(c) \/ StartDelete(c)
      <3>1. \A op, r, t, d, m : StartWrite(c, op, r, t, d, m) => req'[c].gen = 0
        BY WriteRecord DEF StartWrite, TypeOK
      <3>2. req'[c].gen = 0
        BY <2>2, <3>1 DEF StartPush, StartStore, StartDelete
      <3> QED
        BY <2>1, <3>2
    <2>f. CASE Finish(c)
      <3>1. req'[c].gen = 0
        BY <2>f DEF Finish, Idle, TypeOK
      <3> QED
        BY <2>1, <3>1
    <2>3. CASE ~Finish(c) /\ ~(StartPush(c) \/ StartStore(c) \/ StartDelete(c))
      <3>1. CASE DeleteLookup(c) \/ PutManifest(c) \/ DeleteManifest(c)
        BY <2>1, <2>3, <3>1 DEF DeleteLookup, PutManifest, DeleteManifest, TypeOK, Request
      <3>2. CASE UpsertTag(c) \/ PutTag(c) \/ InvalidateRepoTags(c) \/ DieBeforeInvalidate(c)
        BY <2>1, <2>3, <3>2 DEF UpsertTag, PutTag, InvalidateRepoTags, DieBeforeInvalidate, Goto, TypeOK, Request
      <3>3. CASE InvalidateManifest(c)
        <4>1. req'[c].gen = req[c].gen
          BY <2>3, <3>3 DEF InvalidateManifest, DropManifest, Goto, TypeOK, Request
        <4> QED
          BY <2>1, <4>1
      <3> QED
        BY <1>2, <2>3, <3>1, <3>2, <3>3 DEF Write
    <2> QED
      BY <2>2, <2>f, <2>3
  <1> QED
    BY <1>1, <1>2

\* Keys are only ever added to skipped, by a request that dies.
LEMMA SkippedStep ==
    ASSUME TypeOK, StageOK, NEW c \in Clients, Pull(c) \/ Write(c)
    PROVE  /\ skipped \subseteq skipped'
           /\ DieBeforeInvalidate(c) => Key(c) \in skipped'
  BY DEF Pull, Write, StartGet, RetryGet, GetTag, TagDigest, PutTagIfCurrent, GetManifest,
    GetManifestByDigest, PutManifestIfCurrent, Respond, NotFound, FetchUpstream, StartPush,
    StartStore, StartDelete, StartWrite, DeleteLookup, PutManifest, DeleteManifest, UpsertTag,
    InvalidateManifest, DropManifest, PutTag, InvalidateRepoTags, DieBeforeInvalidate

\* What could be served before a step can be served after it, but for what the
\* step invalidates, or leaves in skipped.
LEMMA ServableStep ==
    ASSUME TypeOK, StageOK, NEW c \in Clients, Pull(c) \/ Write(c), NEW k \in Keys,
           k \notin skipped', ~(InvalidateManifest(c) /\ k = Key(c))
    PROVE  Servable(k) \subseteq Servable(k)'
  <1>1. CASE Pull(c)
    BY <1>1, PullServable
  <1>2. CASE Write(c) /\ Commits(c)
    BY <1>2, CommitServable
  <1>3. CASE Write(c) /\ ~Commits(c)
    <2>1. k # Key(c) \/ ~Settles(c)
      BY SkippedStep DEF Settles
    <2> QED
      BY <1>3, <2>1, WriteServable
  <1> QED
    BY <1>1, <1>2, <1>3

LEMMA GenNext ==
    ASSUME TypeOK, TypeOK', StageOK, GenBounded, [Next]_vars
    PROVE  GenBounded'
  <1>1. CASE UNCHANGED vars
    BY <1>1 DEF vars, GenBounded
  <1>2. ASSUME NEW c \in Clients, Pull(c) \/ Write(c) PROVE GenBounded'
    <2>1. gen \in Nat /\ gen <= gen'
      BY <1>2, GenStep DEF TypeOK
    <2>2. \A x \in Clients : req[x].gen \in Nat /\ req[x].gen <= gen
      BY DEF TypeOK, Request, GenBounded
    <2>3. req'[c].gen <= gen
      BY <1>2, <2>1, <2>2, GenStep
    <2>4. \A x \in Clients : x # c => req'[x].gen = req[x].gen
      BY <1>2, OtherRequests
    <2>5. gen' \in Nat /\ \A x \in Clients : req'[x].gen \in Nat
      BY DEF TypeOK, Request
    <2> QED
      BY <2>1, <2>2, <2>3, <2>4, <2>5 DEF GenBounded
  <1> QED
    BY <1>1, <1>2 DEF Next

LEMMA CoherentNext ==
    ASSUME TypeOK, TypeOK', StageOK, ManifestCoherent, FillCoherent, [Next]_vars
    PROVE  ManifestCoherent'
  <1>1. CASE UNCHANGED vars
    BY <1>1 DEF vars, ManifestCoherent, Servable, Overwritten, Dirty, Writing, Key
  <1>2. ASSUME NEW c \in Clients, Pull(c) \/ Write(c), NEW k \in Keys,
               k \notin skipped', mcache'[k] # None
        PROVE  mcache'[k] \in Servable(k)'
    <2>0. k \notin skipped
      BY <1>2, SkippedStep
    <2>1. CASE InvalidateManifest(c)
      <3>1. mcache' = [mcache EXCEPT ![Key(c)] = None]
        BY <2>1 DEF InvalidateManifest, DropManifest
      <3>2. k # Key(c) /\ mcache'[k] = mcache[k]
        BY <1>2, <3>1 DEF TypeOK
      <3> QED
        BY <1>2, <2>0, <3>2, ServableStep DEF ManifestCoherent
    <2>2. CASE PutManifestIfCurrent(c)
      <3>1. mcache' = mcache \/ (gen = req[c].gen /\ mcache' \in LruPut(mcache, Key(c), req[c].media, ManifestCapacity))
        BY <2>2 DEF PutManifestIfCurrent
      <3>2. \/ mcache'[k] = mcache[k]
            \/ mcache'[k] = None
            \/ k = Key(c) /\ mcache'[k] = req[c].media /\ gen = req[c].gen
        BY <3>1 DEF LruPut, TypeOK
      <3>3. mcache'[k] \in Servable(k)
        BY <1>2, <2>0, <2>2, <3>2 DEF ManifestCoherent, FillCoherent, PutManifestIfCurrent
      <3>4. ~InvalidateManifest(c)
        BY <2>2 DEF PutManifestIfCurrent, InvalidateManifest
      <3> QED
        BY <1>2, <3>3, <3>4, ServableStep
    <2>3. CASE ~InvalidateManifest(c) /\ ~PutManifestIfCurrent(c)
      BY <1>2, <2>0, <2>3, CacheUntouched, ServableStep DEF ManifestCoherent
    <2> QED
      BY <2>1, <2>2, <2>3
  <1> QED
    BY <1>1, <1>2 DEF Next, ManifestCoherent

\* The stages a request can be in after each of its steps that look nothing up.
LEMMA StageAfter ==
    ASSUME TypeOK, StageOK, NEW c \in Clients, Pull(c) \/ Write(c)
    PROVE  /\ req'[c].at \in LookingUp =>
                Pull(c) /\ ~Respond(c) /\ ~NotFound(c) /\ ~FetchUpstream(c) /\ ~TagDigest(c)
           /\ req'[c].at = "manifest_fill" => GetManifestByDigest(c)
  <1>1. CASE Write(c)
    <2>0. Idle.at = "idle"
      BY DEF Idle
    <2>1. CASE StartPush(c) \/ StartStore(c) \/ StartDelete(c)
      <3>1. \A op, r, t, d, m : StartWrite(c, op, r, t, d, m) => req'[c].at \in {"commit", "delete_lookup"}
        BY WriteRecord DEF StartWrite, TypeOK
      <3> QED
        BY <2>1, <3>1 DEF StartPush, StartStore, StartDelete, LookingUp
    <2>2. CASE Finish(c)
      BY <2>0, <2>2 DEF Finish, LookingUp, TypeOK
    <2>3. CASE DeleteLookup(c) \/ PutManifest(c) \/ DeleteManifest(c)
      BY <2>2, <2>3 DEF DeleteLookup, PutManifest, DeleteManifest, LookingUp, TypeOK, Request
    <2>4. CASE UpsertTag(c) \/ PutTag(c) \/ InvalidateRepoTags(c) \/ DieBeforeInvalidate(c)
      BY <2>2, <2>4 DEF UpsertTag, PutTag, InvalidateRepoTags, DieBeforeInvalidate, Goto, LookingUp, TypeOK, Request
    <2>5. CASE InvalidateManifest(c)
      BY <2>2, <2>5 DEF InvalidateManifest, DropManifest, Goto, LookingUp, TypeOK, Request
    <2> QED
      BY <1>1, <2>1, <2>3, <2>4, <2>5 DEF Write
  <1>2. CASE Pull(c)
    <2>1. CASE StartGet(c) \/ RetryGet(c)
      <3>1. req'[c].at \in {"manifest_cache", "tag_cache"}
        BY <2>1, GetStarts
      <3>2. req[c].at \in {"idle", "retry"}
        BY <2>1 DEF StartGet, RetryGet
      <3> QED
        BY <1>2, <3>1, <3>2 DEF Respond, NotFound, FetchUpstream, TagDigest
    <2>2. CASE GetTag(c) \/ PutTagIfCurrent(c)
      <3>1. req'[c].at # "manifest_fill"
        BY <2>2 DEF GetTag, PutTagIfCurrent, Resolve, Goto, TypeOK, Request
      <3>2. req[c].at \in {"tag_cache", "tag_fill"}
        BY <2>2 DEF GetTag, PutTagIfCurrent
      <3> QED
        BY <1>2, <3>1, <3>2 DEF Respond, NotFound, FetchUpstream, TagDigest
    <2>3. CASE TagDigest(c) \/ FetchUpstream(c)
      <3>1. TagDigest(c) => req'[c].at \in {"tag_fill", "miss"}
        BY DEF TagDigest, Goto, TypeOK, Request
      <3>2. FetchUpstream(c) => req'[c].at = "commit"
        BY DEF FetchUpstream, TypeOK, Request
      <3> QED
        BY <2>3, <3>1, <3>2 DEF LookingUp
    <2>4. CASE GetManifest(c) \/ PutManifestIfCurrent(c) \/ GetManifestByDigest(c)
      <3>1. req'[c].at = "manifest_fill" => GetManifestByDigest(c)
        BY <2>4 DEF GetManifest, PutManifestIfCurrent, Goto, TypeOK, Request
      <3>2. req[c].at \in {"manifest_cache", "manifest_db", "manifest_fill"}
        BY <2>4 DEF GetManifest, PutManifestIfCurrent, GetManifestByDigest
      <3> QED
        BY <1>2, <3>1, <3>2 DEF Respond, NotFound, FetchUpstream, TagDigest
    <2>5. CASE Respond(c) \/ NotFound(c)
      BY <2>5 DEF Respond, NotFound, Finish, LookingUp, TypeOK, Idle
    <2> QED
      BY <1>2, <2>1, <2>2, <2>3, <2>4, <2>5 DEF Pull
  <1> QED
    BY <1>1, <1>2

\* Only the read from SQLite brings a pull to the point of filling the cache.
LEMMA ReachesFill ==
    ASSUME TypeOK, StageOK, NEW c \in Clients, Pull(c) \/ Write(c), req'[c].at = "manifest_fill"
    PROVE  GetManifestByDigest(c)
  BY StageAfter

\* A pull reaches the end of its lookup from the stage before, keeping its key, or
\* looks its key up now.
LEMMA ReachesLookup ==
    ASSUME TypeOK, StageOK, NEW c \in Clients, Pull(c) \/ Write(c), req'[c].at \in LookingUp
    PROVE  /\ Pull(c)
           /\ \/ req[c].at \in LookingUp /\ Key(c)' = Key(c) /\ fresh'[c] = fresh[c]
              \/ fresh'[c] = Servable(Key(c)')
  <1>1. Pull(c) /\ ~Respond(c) /\ ~NotFound(c) /\ ~FetchUpstream(c) /\ ~TagDigest(c)
    BY StageAfter DEF LookingUp
  <1>2. CASE GetManifest(c)
    <2>1. req[c].at \in LookingUp /\ fresh' = fresh
      BY <1>2 DEF GetManifest, LookingUp
    <2>2. Key(c)' = Key(c)
      BY <1>2 DEF GetManifest, Goto, Key, TypeOK, Request
    <2> QED
      BY <1>1, <2>1, <2>2
  <1>3. CASE GetManifestByDigest(c)
    <2>1. req[c].at \in LookingUp /\ fresh' = fresh
      BY <1>3 DEF GetManifestByDigest, LookingUp
    <2>2. Key(c)' = Key(c)
      BY <1>3 DEF GetManifestByDigest, Goto, Key, TypeOK, Request
    <2> QED
      BY <1>1, <2>1, <2>2
  <1>4. CASE PutManifestIfCurrent(c)
    <2>1. req[c].at \in LookingUp /\ fresh' = fresh
      BY <1>4 DEF PutManifestIfCurrent, LookingUp
    <2>2. Key(c)' = Key(c)
      BY <1>4 DEF PutManifestIfCurrent, Goto, Key, TypeOK, Request
    <2> QED
      BY <1>1, <2>1, <2>2
  <1>5. ASSUME NEW d, NEW s, Resolve(c, d, s) PROVE fresh'[c] = Servable(Key(c)')
    <2>1. Key(c)' = <<req[c].repo, d>>
      BY <1>5 DEF Resolve, Key, TypeOK, Request
    <2> QED
      BY <1>5, <2>1 DEF Resolve, StartLookup, TypeOK
  <1>6. CASE GetTag(c)
    <2>1. CASE Goto(c, "tag_db")
      BY <2>1 DEF Goto, LookingUp, TypeOK, Request
    <2> QED
      BY <1>1, <1>5, <1>6, <2>1 DEF GetTag
  <1>7. CASE PutTagIfCurrent(c)
    BY <1>1, <1>5, <1>7 DEF PutTagIfCurrent
  <1>8. ASSUME NEW r, NEW t, NEW d, NEW asked, t = None,
               req' = [req EXCEPT ![c] = GetOf(r, t, d, asked)], StartLookup(c, <<r, d>>)
        PROVE  fresh'[c] = Servable(Key(c)')
    <2>1. req'[c] = GetOf(r, t, d, asked)
      BY <1>8, Assigned
    <2>2. Key(c)' = <<r, d>>
      BY <2>1, GetRecord DEF Key
    <2> QED
      BY <1>8, <2>2 DEF StartLookup, TypeOK
  <1>9. ASSUME NEW r, NEW t, NEW d, NEW asked, t # None,
               req' = [req EXCEPT ![c] = GetOf(r, t, d, asked)]
        PROVE  FALSE
    <2>1. req'[c] = GetOf(r, t, d, asked)
      BY <1>9, Assigned
    <2> QED
      BY <1>9, <2>1, GetRecord DEF LookingUp
  <1>10. CASE StartGet(c)
    <2>1. PICK r \in Repos : StartGet(c)!2!(r)
      BY <1>10 DEF StartGet
    <2>2. ASSUME NEW d \in Digests, StartGet(c)!2!(r)!1!(d) PROVE fresh'[c] = Servable(Key(c)')
      BY <1>8, <2>2
    <2>3. ASSUME NEW t \in Tags, StartGet(c)!2!(r)!2!(t) PROVE FALSE
      BY <1>9, <2>3, NoneAssumption
    <2> QED
      BY <1>1, <2>1, <2>2, <2>3
  <1>11. CASE RetryGet(c)
    <2>1. PICK r, t, d : /\ r = req[c].repo /\ t = req[c].tag /\ d = req[c].digest
                         /\ req' = [req EXCEPT ![c] = GetOf(r, t, d, "upstream")]
      BY <1>11 DEF RetryGet
    <2>2. t = None
      BY <1>9, <2>1
    <2>3. StartLookup(c, <<r, d>>)
      BY <1>11, <2>1, <2>2 DEF RetryGet, Key
    <2> QED
      BY <1>1, <1>8, <2>1, <2>2, <2>3
  <1> QED
    BY <1>1, <1>2, <1>3, <1>4, <1>6, <1>7, <1>10, <1>11 DEF Pull

LEMMA FillNext ==
    ASSUME TypeOK, TypeOK', StageOK, StageOK', GenBounded, FillCoherent, [Next]_vars
    PROVE  FillCoherent'
  <1>1. CASE UNCHANGED vars
    BY <1>1 DEF vars, FillCoherent, Servable, Overwritten, Dirty, Writing, Key
  <1>2. ASSUME NEW c \in Clients, Pull(c) \/ Write(c), NEW x \in Clients,
               req'[x].at = "manifest_fill", req'[x].gen = gen', Key(x)' \notin skipped'
        PROVE  req'[x].media \in Servable(Key(x))'
    <2>k. PICK k \in Keys : k = Key(x)'
      BY <1>2 DEF TypeOK, StageOK, StageOf, Key, Keys, Request, LookingUp
    <2> SUFFICES req'[x].media \in Servable(k)'
      BY <2>k DEF Servable, Overwritten
    <2>1. CASE x = c
      <3>1. GetManifestByDigest(c)
        BY <1>2, <2>1, ReachesFill
      <3>2. Key(c)' = Key(c) /\ req'[c].media = mdb[Key(c)] /\ mdb' = mdb
        BY <1>2, <2>1, <3>1 DEF GetManifestByDigest, Goto, Key, TypeOK, Request, dbVars
      <3> QED
        BY <2>1, <2>k, <3>2 DEF Servable
    <2>2. CASE x # c
      <3>1. req'[x] = req[x] /\ Key(x)' = Key(x)
        BY <1>2, <2>2, OtherRequests DEF Key
      <3>2. gen' = gen /\ ~InvalidateManifest(c)
        BY <1>2, <3>1, GenStep DEF GenBounded, TypeOK, Request
      <3>3. req[x].media \in Servable(Key(x))
        BY <1>2, <3>1, <3>2, SkippedStep DEF FillCoherent
      <3>4. Servable(k) \subseteq Servable(k)'
        BY <1>2, <2>k, <3>2, ServableStep
      <3> QED
        BY <2>k, <3>1, <3>3, <3>4
    <2> QED
      BY <2>1, <2>2
  <1> QED
    BY <1>1, <1>2 DEF Next, FillCoherent

\* A pull holds a manifest once it has found one in the cache or in SQLite.
LEMMA FoundBy ==
    ASSUME TypeOK, StageOK, NEW c \in Clients, Pull(c), req'[c].at \in {"manifest_fill", "respond"}
    PROVE  \/ GetManifest(c) /\ mcache[Key(c)] # None
           \/ GetManifestByDigest(c)
           \/ PutManifestIfCurrent(c)
  <1>1. ~Respond(c) /\ ~NotFound(c) /\ ~FetchUpstream(c) /\ ~TagDigest(c)
    BY StageAfter DEF LookingUp
  <1>2. ~StartGet(c) /\ ~RetryGet(c)
    BY GetStarts
  <1>3. ~GetTag(c) /\ ~PutTagIfCurrent(c)
    BY DEF GetTag, PutTagIfCurrent, Resolve, Goto, TypeOK, Request
  <1>4. GetManifest(c) => mcache[Key(c)] # None
    BY DEF GetManifest, Goto, TypeOK, Request
  <1> QED
    BY <1>1, <1>2, <1>3, <1>4 DEF Pull

\* What a step does to what the other pulls may serve.
LEMMA FreshOther ==
    ASSUME TypeOK, StageOK, NEW c \in Clients, Pull(c) \/ Write(c), NEW x \in Clients, x # c
    PROVE  /\ fresh[x] \subseteq fresh'[x]
           /\ Commits(c) /\ req[x].at \in LookingUp /\ Key(x) = Key(c) => mdb'[Key(c)] \in fresh'[x]
  <1>1. CASE Commits(c)
    <2>1. Key(c) \in Keys /\ \E v : mdb' = [mdb EXCEPT ![Key(c)] = v] /\ Refresh(Key(c), v)
      BY <1>1 DEF Commits, PutManifest, DeleteManifest, TypeOK, StageOK, StageOf, Request, Key, Keys
    <2> QED
      BY <2>1 DEF Refresh, TypeOK
  <1>2. CASE ~Commits(c)
    <2>1. CASE Pull(c)
      BY <1>2, <2>1 DEF Pull, StartGet, RetryGet, GetTag, TagDigest, PutTagIfCurrent, GetManifest,
        GetManifestByDigest, PutManifestIfCurrent, Respond, NotFound, FetchUpstream,
        StartLookup, Resolve, Finish, TypeOK
    <2>2. CASE Write(c)
      BY <1>2, <2>2 DEF Write, Commits, StartPush, StartStore, StartDelete, StartWrite, DeleteLookup,
        UpsertTag, InvalidateManifest, DropManifest, PutTag, InvalidateRepoTags, DieBeforeInvalidate, Finish, TypeOK
    <2> QED
      BY <2>1, <2>2
  <1> QED
    BY <1>1, <1>2

LEMMA FreshNext ==
    ASSUME TypeOK, TypeOK', StageOK, StageOK', FreshCovers, [Next]_vars
    PROVE  FreshCovers'
  <1>1. CASE UNCHANGED vars
    BY <1>1 DEF vars, FreshCovers, Servable, Overwritten, Dirty, Writing, Key
  <1>2. ASSUME NEW c \in Clients, Pull(c) \/ Write(c), NEW x \in Clients, req'[x].at \in LookingUp
        PROVE  Servable(Key(x))' \subseteq fresh'[x]
    <2>k. PICK k \in Keys : k = Key(x)'
      BY <1>2 DEF TypeOK, StageOK, StageOf, Key, Keys, Request
    <2> SUFFICES Servable(k)' \subseteq fresh'[x]
      BY <2>k DEF Servable, Overwritten
    <2>1. CASE x = c
      <3>1. Pull(c) /\ Servable(k)' = Servable(k)
        BY <1>2, <2>1, ReachesLookup, PullServable
      <3>2. CASE req[c].at \in LookingUp /\ Key(c)' = Key(c) /\ fresh'[c] = fresh[c]
        BY <2>1, <2>k, <3>1, <3>2 DEF FreshCovers
      <3>3. CASE fresh'[c] = Servable(Key(c)')
        BY <2>1, <2>k, <3>1, <3>3
      <3> QED
        BY <1>2, <2>1, <3>2, <3>3, ReachesLookup
    <2>2. CASE x # c
      <3>1. req[x].at \in LookingUp /\ Key(x) = k
        BY <1>2, <2>2, <2>k, OtherRequests DEF Key
      <3>2. Servable(k) \subseteq fresh[x] /\ fresh[x] \subseteq fresh'[x]
        BY <1>2, <2>2, <3>1, FreshOther DEF FreshCovers
      <3>3. CASE Commits(c)
        BY <1>2, <2>2, <3>1, <3>2, <3>3, CommitServable, FreshOther
      <3>4. CASE ~Commits(c)
        BY <1>2, <3>2, <3>4, PullServable, WriteServable
      <3> QED
        BY <3>3, <3>4
    <2> QED
      BY <2>1, <2>2
  <1> QED
    BY <1>1, <1>2 DEF Next, FreshCovers

LEMMA FoundNext ==
    ASSUME TypeOK, TypeOK', StageOK, StageOK', ManifestCoherent, FreshCovers, FoundFresh, [Next]_vars
    PROVE  FoundFresh'
  <1>1. CASE UNCHANGED vars
    BY <1>1 DEF vars, FoundFresh, Key
  <1>2. ASSUME NEW c \in Clients, Pull(c) \/ Write(c), NEW x \in Clients,
               req'[x].at \in {"manifest_fill", "respond"}, Key(x)' \notin skipped'
        PROVE  req'[x].media \in fresh'[x]
    <2>1. CASE x = c
      <3>1. Pull(c)
        BY <1>2, <2>1, ReachesLookup DEF LookingUp
      <3>2. \/ GetManifest(c) /\ mcache[Key(c)] # None
            \/ GetManifestByDigest(c)
            \/ PutManifestIfCurrent(c)
        BY <1>2, <2>1, <3>1, FoundBy
      <3>3. CASE GetManifest(c) /\ mcache[Key(c)] # None
        <4>1. /\ Key(c) \in Keys /\ req[c].at \in LookingUp
              /\ Key(c)' = Key(c) /\ skipped' = skipped /\ fresh' = fresh
              /\ req'[c].media = mcache[Key(c)]
          BY <3>3 DEF GetManifest, Key, TypeOK, StageOK, StageOf, LookingUp, Keys, Request
        <4> QED
          BY <1>2, <2>1, <3>3, <4>1 DEF ManifestCoherent, FreshCovers
      <3>4. CASE GetManifestByDigest(c)
        <4>1. /\ req[c].at \in LookingUp /\ fresh' = fresh
              /\ req'[c].at = "manifest_fill" => req'[c].media = mdb[Key(c)]
              /\ req'[c].at # "respond"
          BY <3>4 DEF GetManifestByDigest, Goto, TypeOK, LookingUp, Request
        <4> QED
          BY <1>2, <2>1, <4>1 DEF FreshCovers, Servable
      <3>5. CASE PutManifestIfCurrent(c)
        <4>1. /\ Key(c)' = Key(c) /\ skipped' = skipped /\ fresh' = fresh
              /\ req'[c].media = req[c].media /\ req[c].at = "manifest_fill"
          BY <3>5 DEF PutManifestIfCurrent, Goto, Key, TypeOK, Request
        <4> QED
          BY <1>2, <2>1, <4>1 DEF FoundFresh
      <3> QED
        BY <3>2, <3>3, <3>4, <3>5
    <2>2. CASE x # c
      <3>1. req'[x] = req[x] /\ Key(x)' = Key(x)
        BY <1>2, <2>2, OtherRequests DEF Key
      <3>2. req[x].media \in fresh[x]
        BY <1>2, <3>1, SkippedStep DEF FoundFresh
      <3> QED
        BY <1>2, <2>2, <3>1, <3>2, FreshOther
    <2> QED
      BY <2>1, <2>2
  <1> QED
    BY <1>1, <1>2 DEF Next, FoundFresh

LEMMA InvInit == Init => IInv
  <1> SUFFICES ASSUME Init PROVE IInv
    OBVIOUS
  <1>1. TypeOK /\ StageOK
    BY TypeInit, StageInit
  <1>2. \A c \in Clients : req[c].at = "idle" /\ req[c].gen = 0 /\ gen = 0
    BY DEF Init, Idle
  <1>3. ManifestCoherent
    BY DEF Init, ManifestCoherent
  <1>4. GenBounded /\ FillCoherent /\ FreshCovers /\ FoundFresh
    BY <1>2 DEF GenBounded, FillCoherent, FreshCovers, FoundFresh, LookingUp
  <1> QED
    BY <1>1, <1>3, <1>4 DEF IInv

LEMMA InvNext == IInv /\ [Next]_vars => IInv'
  <1> SUFFICES ASSUME IInv, [Next]_vars PROVE IInv'
    OBVIOUS
  <1>1. TypeOK' /\ StageOK'
    BY TypeNext, StageNext DEF IInv
  <1> QED
    BY <1>1, GenNext, CoherentNext, FillNext, FreshNext, FoundNext DEF IInv

\* A cached manifest is the row SQLite holds, or one whose replacement has
\* committed and not come to its invalidation, whatever requests race.
THEOREM CacheCoherent == Spec => []ManifestCoherent
  <1>1. IInv => ManifestCoherent
    BY DEF IInv
  <1> QED
    BY InvInit, InvNext, <1>1, PTL DEF Spec

\* No pull answers with a manifest that had already been replaced or deleted, by a
\* request that had returned, when it looked the digest up.
THEOREM PullsAreFresh == Spec => []FreshPull
  <1>1. IInv => FreshPull
    BY DEF IInv, FoundFresh, FreshPull
  <1> QED
    BY InvInit, InvNext, <1>1, PTL DEF Spec

-----------------------------------------------------------------------------
(***************************************************************************)
(* The tags of a repository that is not raced                              *)
(***************************************************************************)
\* A request has changed the resolution of tag key k and not put the cache right.
Pending(c, k) ==
    /\ req[c].repo = k[1]
    /\ \/ req[c].op = "push" /\ req[c].tag = k[2] /\ req[c].at \in {"invalidate", "put_tag"}
       \/ req[c].op = "delete" /\ req[c].at \in {"invalidate", "invalidate_repo"}

\* A repository that has not been raced has one writer at most: a push or a delete.
Alone ==
    \A c \in Writers :
        req[c].repo \notin raced =>
            /\ req[c].op # "store"
            /\ \A d \in Writers : req[d].repo = req[c].repo => d = c

DeleteStages == {"delete_lookup", "commit", "invalidate", "invalidate_repo"}
DeletePath == \A c \in Clients : req[c].op = "delete" => req[c].at \in DeleteStages

\* There, what a push has written is still there when it goes on: the row when it
\* comes to its tag, and the tag when it comes to the cache.
PushKept ==
    \A c \in Clients :
        req[c].op = "push" /\ req[c].repo \notin raced =>
            /\ req[c].media # None
            /\ req[c].at = "upsert_tag" => mdb[Key(c)] # None
            /\ req[c].at \in {"invalidate", "put_tag"} /\ req[c].tag # None
               => tdb[TagKey(c)] = req[c].digest

\* A cached resolution is the tag's, or its writer has not finished with the cache.
TagsCovered ==
    \A k \in TagKeys :
        k[1] \notin raced /\ tcache[k] # None =>
            tcache[k] = tdb[k] \/ \E c \in Clients : Pending(c, k)

\* So is the resolution a pull is about to cache, as long as its generation is
\* current; the writer's first call to the cache ends that.
FillCovered ==
    \A c \in Clients :
        req[c].at = "tag_fill" /\ req[c].gen = gen /\ req[c].repo \notin raced =>
            \/ req[c].digest = tdb[TagKey(c)]
            \/ \E d \in Clients : req[d].at = "invalidate" /\ Pending(d, TagKey(c))

TagInv ==
    /\ Alone /\ DeletePath /\ PushKept
    /\ TagsCovered /\ FillCovered /\ NoDanglingTag

-----------------------------------------------------------------------------
LEMMA StartsAs ==
    ASSUME NEW op, NEW r, NEW t, NEW d, NEW m
    PROVE  /\ WriteOf(op, r, t, d, m).repo = r
           /\ WriteOf(op, r, t, d, m).media = m
           /\ WriteOf(op, r, t, d, m).op = op
  BY DEF Idle, WriteOf

\* A writer begins a step, in a repository that is raced or has no other writer.
Begins(c) ==
    /\ req'[c].at \in {"commit", "delete_lookup"}
    /\ req'[c].op = "push" => req'[c].media # None
    /\ \/ req'[c].repo \in raced'
       \/ req'[c].op # "store" /\ \A d \in Writers : req[d].repo # req'[c].repo

\* Or it goes on with what it is writing.
GoesOn(c) ==
    /\ Writing(c)
    /\ req'[c].op = req[c].op /\ req'[c].repo = req[c].repo
    /\ req'[c].tag = req[c].tag /\ req'[c].media = req[c].media
    /\ req[c].at # "delete_lookup" => req'[c].digest = req[c].digest

LEMMA FinishEnds ==
    ASSUME TypeOK, NEW c \in Clients, Finish(c)
    PROVE  req'[c] = Idle /\ ~Writing(c)'
  BY DEF Finish, Writing, Idle, TypeOK

LEMMA GetsOnly ==
    ASSUME TypeOK, NEW c \in Clients, StartGet(c) \/ RetryGet(c)
    PROVE  req'[c].op = "get"
  <1>1. ASSUME NEW r, NEW t, NEW d, NEW asked, req' = [req EXCEPT ![c] = GetOf(r, t, d, asked)]
        PROVE  req'[c].op = "get"
    <2>1. req'[c] = GetOf(r, t, d, asked)
      BY <1>1, Assigned
    <2> QED
      BY <2>1, GetRecord
  <1>2. CASE StartGet(c)
    <2>1. PICK r \in Repos : StartGet(c)!2!(r)
      BY <1>2 DEF StartGet
    <2>2. PICK t, d : req' = [req EXCEPT ![c] = GetOf(r, t, d, "local")]
      BY <2>1
    <2> QED
      BY <1>1, <2>2
  <1>3. CASE RetryGet(c)
    BY <1>1, <1>3 DEF RetryGet
  <1> QED
    BY <1>2, <1>3

LEMMA WriterStep ==
    ASSUME TypeOK, StageOK, NEW c \in Clients, Pull(c) \/ Write(c), Writing(c)'
    PROVE  Begins(c) \/ GoesOn(c)
  <1>0. req[c] \in Request /\ StageOf(req[c])
    BY DEF TypeOK, StageOK
  <1>f. ~Finish(c)
    BY FinishEnds
  <1>1. CASE Pull(c)
    <2>1. CASE FetchUpstream(c)
      BY <2>1 DEF FetchUpstream, Begins, TypeOK, Request
    <2>2. ~StartGet(c) /\ ~RetryGet(c)
      BY GetsOnly DEF Writing
    <2>3. CASE ~FetchUpstream(c) /\ ~StartGet(c) /\ ~RetryGet(c)
      <3>1. req[c].op = "get" /\ req'[c].op = req[c].op
        BY <1>0, <1>1, <1>f, <2>3
        DEF Pull, GetTag, TagDigest, PutTagIfCurrent, GetManifest, GetManifestByDigest,
            PutManifestIfCurrent, Respond, NotFound, Resolve, Goto, TypeOK, Request, StageOf,
            LookingUp
      <3> QED
        BY <3>1 DEF Writing
    <2> QED
      BY <2>1, <2>2, <2>3
  <1>2. CASE Write(c)
    <2>1. ASSUME NEW op, NEW r \in Repos, NEW t, NEW d, NEW m, StartWrite(c, op, r, t, d, m),
                 op = "push" => m # None
          PROVE  Begins(c)
      <3>1. req'[c] = WriteOf(op, r, t, d, m)
        BY <2>1, Assigned DEF StartWrite
      <3>2. req'[c].repo = r /\ req'[c].media = m /\ req'[c].op = op
        BY <3>1, StartsAs
      <3>3. req'[c].at \in {"commit", "delete_lookup"}
        BY <3>1, WriteRecord
      <3>4. raced' = IF op = "store" \/ \E x \in Writers : req[x].repo = r
                     THEN raced \cup {r} ELSE raced
        BY <2>1 DEF StartWrite
      <3> QED
        BY <2>1, <3>2, <3>3, <3>4 DEF Begins
    <2>2. CASE StartPush(c) \/ StartStore(c) \/ StartDelete(c)
      BY <2>1, <2>2, NoneAssumption DEF StartPush, StartStore, StartDelete
    <2>3. CASE DeleteLookup(c)
      BY <1>0, <1>f, <2>3 DEF DeleteLookup, GoesOn, Writing, TypeOK, Request, StageOf
    <2>4. CASE PutManifest(c) \/ DeleteManifest(c)
      BY <2>4 DEF PutManifest, DeleteManifest, GoesOn, Writing, TypeOK, Request
    <2>5. CASE UpsertTag(c) \/ PutTag(c)
      BY <1>0, <1>f, <2>5 DEF UpsertTag, PutTag, Goto, GoesOn, Writing, TypeOK, Request, StageOf
    <2>6. CASE InvalidateManifest(c)
      <3>1. req'[c].op # "get"
        BY DEF Writing
      <3> QED
        BY <1>0, <1>f, <2>6, <3>1 DEF InvalidateManifest, Goto, GoesOn, Writing, TypeOK, Request
    <2>7. ~InvalidateRepoTags(c) /\ ~DieBeforeInvalidate(c)
      BY <1>f DEF InvalidateRepoTags, DieBeforeInvalidate
    <2> QED
      BY <1>2, <2>2, <2>3, <2>4, <2>5, <2>6, <2>7 DEF Write
  <1> QED
    BY <1>1, <1>2

\* How a writer comes to each of its stages.
LEMMA WriterStage ==
    ASSUME TypeOK, StageOK, NEW c \in Clients, Pull(c) \/ Write(c), GoesOn(c)
    PROVE  /\ req'[c].at = "upsert_tag" => PutManifest(c)
           /\ req'[c].op = "push" /\ req'[c].at = "invalidate" /\ req'[c].tag # None => UpsertTag(c)
           /\ req'[c].op = "push" /\ req'[c].at = "put_tag" =>
                InvalidateManifest(c) /\ req[c].tag # None
           /\ req'[c].op = "delete" /\ req[c].at \in DeleteStages => req'[c].at \in DeleteStages
  <1>0. req[c] \in Request /\ StageOf(req[c]) /\ Writing(c)'
    BY DEF TypeOK, StageOK, GoesOn, Writing
  <1>f. ~Finish(c)
    BY <1>0, FinishEnds
  <1>1. CASE Pull(c)
    <2>1. req'[c].at = "commit"
      <3>1. CASE FetchUpstream(c)
        BY <3>1 DEF FetchUpstream, TypeOK, Request
      <3>2. ~StartGet(c) /\ ~RetryGet(c)
        BY <1>0, GetsOnly DEF Writing
      <3>3. CASE ~FetchUpstream(c) /\ ~StartGet(c) /\ ~RetryGet(c)
        BY <1>0, <1>1, <1>f, <3>3
        DEF Pull, GetTag, TagDigest, PutTagIfCurrent, GetManifest, GetManifestByDigest, GoesOn, Writing,
            PutManifestIfCurrent, Respond, NotFound, Resolve, Goto, TypeOK, Request, StageOf,
            LookingUp
      <3> QED
        BY <3>1, <3>2, <3>3
    <2> QED
      BY <2>1 DEF DeleteStages
  <1>2. CASE Write(c)
    <2>1. CASE StartPush(c) \/ StartStore(c) \/ StartDelete(c)
      <3>1. \A op, r, t, d, m :
              StartWrite(c, op, r, t, d, m) => req'[c].at \in {"commit", "delete_lookup"}
        BY WriteRecord DEF StartWrite, TypeOK
      <3> QED
        BY <2>1, <3>1 DEF StartPush, StartStore, StartDelete, DeleteStages
    <2>2. CASE DeleteLookup(c)
      <3>1. req'[c].at = "commit"
        BY <1>0, <1>f, <2>2 DEF DeleteLookup, TypeOK, Request
      <3> QED
        BY <3>1 DEF DeleteStages
    <2>3. CASE PutManifest(c)
      BY <1>0, <2>3 DEF PutManifest, TypeOK, Request
    <2>4. CASE DeleteManifest(c)
      <3>1. req'[c].at = "invalidate" /\ req'[c].op = "delete"
        BY <1>0, <2>4 DEF DeleteManifest, TypeOK, Request
      <3> QED
        BY <3>1 DEF DeleteStages
    <2>5. CASE UpsertTag(c)
      <3>1. /\ req[c].op = "push" => req'[c].at = "invalidate"
            /\ req[c].op # "push" => req'[c].at = "put_tag"
            /\ req[c].at = "upsert_tag"
        BY <1>0, <2>5 DEF UpsertTag, Goto, TypeOK, Request
      <3> QED
        BY <2>5, <3>1 DEF GoesOn, DeleteStages
    <2>6. CASE InvalidateManifest(c)
      <3>1. \/ req[c].op = "push" /\ req[c].tag # None /\ req'[c].at = "put_tag"
            \/ req[c].op = "delete" /\ req'[c].at = "invalidate_repo"
            \/ req'[c].op = "get"
        BY <1>0, <1>f, <2>6 DEF InvalidateManifest, Goto, TypeOK, Request
      <3> QED
        BY <1>0, <2>6, <3>1 DEF GoesOn, Writing, DeleteStages
    <2>7. CASE PutTag(c)
      <3>1. req[c].op # "push" /\ req'[c].at = "invalidate" /\ req[c].at = "put_tag"
        BY <1>0, <1>f, <2>7 DEF PutTag, Goto, TypeOK, Request
      <3> QED
        BY <3>1 DEF GoesOn, DeleteStages
    <2>8. ~InvalidateRepoTags(c) /\ ~DieBeforeInvalidate(c)
      BY <1>f DEF InvalidateRepoTags, DieBeforeInvalidate
    <2> QED
      BY <1>2, <2>1, <2>2, <2>3, <2>4, <2>5, <2>6, <2>7, <2>8 DEF Write
  <1> QED
    BY <1>1, <1>2

\* Which steps change what.
LEMMA TablesStep ==
    ASSUME TypeOK, StageOK, NEW c \in Clients, Pull(c) \/ Write(c)
    PROVE  /\ raced \subseteq raced'
           /\ mdb' = mdb \/ PutManifest(c) \/ DeleteManifest(c)
           /\ tdb' = tdb \/ UpsertTag(c) \/ DeleteManifest(c)
           /\ tcache' = tcache \/ PutTagIfCurrent(c) \/ PutTag(c) \/ InvalidateRepoTags(c)
           /\ gen' = gen \/ InvalidateManifest(c) \/ InvalidateRepoTags(c)
  <1>1. CASE Pull(c)
    BY <1>1 DEF Pull, StartGet, RetryGet, GetTag, TagDigest, PutTagIfCurrent, GetManifest,
      GetManifestByDigest, PutManifestIfCurrent, Respond, NotFound, FetchUpstream, cacheVars, dbVars
  <1>2. CASE Write(c)
    BY <1>2 DEF Write, StartPush, StartStore, StartDelete, StartWrite, DeleteLookup, PutManifest,
      DeleteManifest, UpsertTag, InvalidateManifest, DropManifest, PutTag, InvalidateRepoTags,
      DieBeforeInvalidate, cacheVars, dbVars
  <1> QED
    BY <1>1, <1>2

\* The keys of a request that reads or writes the tables.
LEMMA KeysOf ==
    ASSUME TypeOK, StageOK, NEW c \in Clients
    PROVE  /\ req[c].repo \in Repos
           /\ PutManifest(c) \/ DeleteManifest(c) => Key(c) \in Keys
           /\ UpsertTag(c) \/ PutTag(c) \/ PutTagIfCurrent(c) =>
                TagKey(c) \in TagKeys /\ req[c].digest \in Digests
           /\ UpsertTag(c) \/ PutTag(c) \/ PutManifest(c) \/ DeleteManifest(c) => Writing(c)
  <1>1. req[c] \in Request /\ StageOf(req[c])
    BY DEF TypeOK, StageOK
  <1> QED
    BY <1>1 DEF PutManifest, DeleteManifest, UpsertTag, PutTag, PutTagIfCurrent, StageOf, Request,
         Key, Keys, TagKey, TagKeys, Writing

-----------------------------------------------------------------------------
\* The other writer of an unraced repository is the same one.
LEMMA SameWriter ==
    ASSUME Alone, NEW c \in Clients, NEW d \in Clients, Writing(c), Writing(d),
           req[c].repo = req[d].repo, req[c].repo \notin raced
    PROVE  c = d
  BY DEF Alone, Writers

LEMMA AloneNext ==
    ASSUME TypeOK, StageOK, Alone, NEW c \in Clients, Pull(c) \/ Write(c)
    PROVE  Alone'
  <1>1. \A x \in Clients : x # c => req'[x] = req[x]
    BY OtherRequests
  <1>2. raced \subseteq raced'
    BY TablesStep
  <1> SUFFICES ASSUME NEW x \in Clients, Writing(x)', req'[x].repo \notin raced'
               PROVE  /\ req'[x].op # "store"
                      /\ \A d \in Clients : Writing(d)' /\ req'[d].repo = req'[x].repo => d = x
    BY DEF Alone, Writers
  <1>3. ASSUME NEW y \in Clients, Writing(y)' PROVE y = c \/ Writing(y)
    BY <1>1, <1>3 DEF Writing
  <1>4. CASE x = c /\ GoesOn(c)
    BY <1>1, <1>2, <1>3, <1>4 DEF Alone, Writers, GoesOn
  <1>5. CASE x = c /\ Begins(c)
    BY <1>1, <1>3, <1>5 DEF Begins, Writers
  <1>6. CASE x # c
    <2>1. Writing(x) /\ req'[x] = req[x] /\ req[x].repo \notin raced
      BY <1>1, <1>2, <1>3, <1>6
    <2>2. ASSUME Writing(c)', req'[c].repo = req'[x].repo PROVE FALSE
      <3>1. CASE Begins(c)
        BY <2>1, <2>2, <3>1 DEF Begins, Writers
      <3>2. CASE GoesOn(c)
        BY <1>6, <2>1, <2>2, <3>2, SameWriter DEF GoesOn
      <3> QED
        BY <2>2, <3>1, <3>2, WriterStep
    <2> QED
      BY <1>1, <1>3, <2>1, <2>2 DEF Alone, Writers
  <1> QED
    BY <1>4, <1>5, <1>6, WriterStep

LEMMA DeletePathNext ==
    ASSUME TypeOK, StageOK, DeletePath, NEW c \in Clients, Pull(c) \/ Write(c)
    PROVE  DeletePath'
  <1> SUFFICES ASSUME NEW x \in Clients, req'[x].op = "delete"
               PROVE  req'[x].at \in DeleteStages
    BY DEF DeletePath
  <1>1. CASE x # c
    BY <1>1, OtherRequests DEF DeletePath
  <1>2. CASE x = c
    <2>1. Writing(c)'
      BY <1>2 DEF Writing
    <2>2. CASE Begins(c)
      BY <1>2, <2>2 DEF Begins, DeleteStages
    <2>3. CASE GoesOn(c)
      BY <1>2, <2>3, WriterStage DEF DeletePath, GoesOn
    <2> QED
      BY <2>1, <2>2, <2>3, WriterStep
  <1> QED
    BY <1>1, <1>2

\* A step of another request leaves alone what an unraced repository's writer
\* has written.
LEMMA OthersRows ==
    ASSUME TypeOK, StageOK, Alone, NEW c \in Clients, Pull(c) \/ Write(c),
           NEW x \in Clients, x # c, Writing(x), req[x].repo \notin raced, NEW e
    PROVE  /\ mdb'[<<req[x].repo, e>>] = mdb[<<req[x].repo, e>>]
           /\ e \in Tags => tdb'[<<req[x].repo, e>>] = tdb[<<req[x].repo, e>>]
  <1> DEFINE k == <<req[x].repo, e>>
  <1>1. ASSUME Writing(c) PROVE req[c].repo # req[x].repo
    BY <1>1, SameWriter
  <1>2. CASE PutManifest(c)
    <2>1. Key(c) # k
      BY <1>1, <1>2, KeysOf DEF Key
    <2> QED
      BY <1>2, <2>1 DEF PutManifest, TypeOK
  <1>3. CASE DeleteManifest(c)
    <2>1. Key(c) # k /\ k[1] # req[c].repo
      BY <1>1, <1>3, KeysOf DEF Key
    <2>2. mdb' = [mdb EXCEPT ![Key(c)] = None]
      BY <1>3 DEF DeleteManifest
    <2>3. tdb' = [q \in TagKeys |->
                    IF q[1] = req[c].repo /\ tdb[q] = req[c].digest THEN None ELSE tdb[q]]
      BY <1>3 DEF DeleteManifest
    <2>4. mdb'[k] = mdb[k]
      BY <2>1, <2>2 DEF TypeOK
    <2>5. ASSUME e \in Tags PROVE tdb'[k] = tdb[k]
      <3>1. k \in TagKeys
        BY <2>5 DEF TypeOK, Request, TagKeys
      <3> QED
        BY <2>1, <2>3, <3>1
    <2> QED
      BY <2>4, <2>5
  <1>4. CASE UpsertTag(c)
    <2>1. TagKey(c) # k
      BY <1>1, <1>4, KeysOf DEF TagKey
    <2> QED
      BY <1>4, <2>1 DEF UpsertTag, TypeOK
  <1>5. CASE mdb' = mdb /\ tdb' = tdb
    BY <1>5
  <1> QED
    BY <1>2, <1>3, <1>4, <1>5, TablesStep

LEMMA PushKeptNext ==
    ASSUME TypeOK, StageOK, Alone, PushKept, NEW c \in Clients, Pull(c) \/ Write(c)
    PROVE  PushKept'
  <1> SUFFICES ASSUME NEW x \in Clients, req'[x].op = "push", req'[x].repo \notin raced'
               PROVE  /\ req'[x].media # None
                      /\ req'[x].at = "upsert_tag" => mdb'[<<req'[x].repo, req'[x].digest>>] # None
                      /\ req'[x].at \in {"invalidate", "put_tag"} /\ req'[x].tag # None
                         => tdb'[<<req'[x].repo, req'[x].tag>>] = req'[x].digest
    BY DEF PushKept, Key, TagKey
  <1>0. raced \subseteq raced' /\ Writing(x)'
    BY TablesStep DEF Writing
  <1>1. CASE x # c
    <2>1. req'[x] = req[x] /\ req[x].repo \notin raced /\ Writing(x)
      BY <1>0, <1>1, OtherRequests DEF Writing
    <2>2. /\ mdb'[<<req[x].repo, req[x].digest>>] = mdb[<<req[x].repo, req[x].digest>>]
          /\ req[x].tag \in Tags =>
               tdb'[<<req[x].repo, req[x].tag>>] = tdb[<<req[x].repo, req[x].tag>>]
      BY <1>1, <2>1, OthersRows
    <2>3. req[x].tag \in Tags \cup {None}
      BY DEF TypeOK, Request
    <2> QED
      BY <2>1, <2>2, <2>3 DEF PushKept, Key, TagKey
  <1>2. CASE x = c /\ Begins(c)
    BY <1>2 DEF Begins
  <1>3. CASE x = c /\ GoesOn(c)
    <2>0. req[c] \in Request /\ StageOf(req[c])
      BY DEF TypeOK, StageOK
    <2>1. /\ req[c].op = "push" /\ req[c].repo \notin raced
          /\ req'[c].repo = req[c].repo /\ req'[c].tag = req[c].tag
          /\ req'[c].media = req[c].media /\ req[c].media # None
      BY <1>0, <1>3 DEF GoesOn, PushKept
    <2>2. CASE req'[c].at = "upsert_tag"
      <3>1. PutManifest(c) /\ Key(c) \in Keys
        BY <1>3, <2>2, WriterStage, KeysOf
      <3>2. req'[c].digest = req[c].digest
        BY <1>3, <3>1 DEF GoesOn, PutManifest
      <3>3. mdb'[Key(c)] = req[c].media
        BY <3>1 DEF PutManifest, TypeOK
      <3> QED
        BY <1>3, <2>1, <2>2, <3>2, <3>3 DEF Key
    <2>3. CASE req'[c].at = "invalidate" /\ req'[c].tag # None
      <3>1. UpsertTag(c) /\ TagKey(c) \in TagKeys
        BY <1>3, <2>3, WriterStage, KeysOf
      <3>2. req'[c].digest = req[c].digest
        BY <1>3, <3>1 DEF GoesOn, UpsertTag
      <3>3. tdb'[TagKey(c)] = req[c].digest
        BY <3>1 DEF UpsertTag, TypeOK
      <3> QED
        BY <1>3, <2>1, <2>3, <3>2, <3>3 DEF TagKey
    <2>4. CASE req'[c].at = "put_tag"
      <3>1. InvalidateManifest(c) /\ req[c].at = "invalidate" /\ req[c].tag # None
        BY <1>3, <2>4, WriterStage DEF InvalidateManifest
      <3>2. req'[c].digest = req[c].digest /\ tdb' = tdb
        BY <1>3, <3>1 DEF GoesOn, InvalidateManifest, dbVars
      <3> QED
        BY <1>3, <2>1, <2>4, <3>1, <3>2 DEF PushKept, TagKey
    <2> QED
      BY <1>3, <2>1, <2>2, <2>3, <2>4
  <1> QED
    BY <1>0, <1>1, <1>2, <1>3, WriterStep

\* A tag comes to point at a row its writer has put, and a row goes with its tags.
LEMMA DanglingNext ==
    ASSUME TypeOK, StageOK, Alone, PushKept, DeletePath, NoDanglingTag,
           NEW c \in Clients, Pull(c) \/ Write(c)
    PROVE  NoDanglingTag'
  <1>0. raced \subseteq raced' /\ (mdb' = mdb \/ PutManifest(c) \/ DeleteManifest(c))
        /\ (tdb' = tdb \/ UpsertTag(c) \/ DeleteManifest(c))
    BY TablesStep
  <1> SUFFICES ASSUME NEW k \in TagKeys, k[1] \notin raced', tdb'[k] # None
               PROVE  mdb'[<<k[1], tdb'[k]>>] # None
    BY DEF NoDanglingTag
  <1>1. k[1] \notin raced /\ k[1] \in Repos
    BY <1>0 DEF TagKeys
  <1>2. CASE DeleteManifest(c)
    <2>1. tdb'[k] = IF k[1] = req[c].repo /\ tdb[k] = req[c].digest THEN None ELSE tdb[k]
      BY <1>2 DEF DeleteManifest
    <2>2. tdb'[k] = tdb[k] /\ <<k[1], tdb[k]>> # Key(c) /\ tdb[k] \in Digests
      BY <2>1 DEF Key, TypeOK
    <2>3. mdb'[<<k[1], tdb[k]>>] = mdb[<<k[1], tdb[k]>>]
      BY <1>1, <1>2, <2>2 DEF DeleteManifest, TypeOK, Keys
    <2> QED
      BY <1>1, <2>2, <2>3 DEF NoDanglingTag
  <1>3. CASE PutManifest(c)
    <2>1. tdb' = tdb /\ Key(c) \in Keys /\ mdb' = [mdb EXCEPT ![Key(c)] = req[c].media]
      BY <1>3, KeysOf DEF PutManifest
    <2>2. mdb[<<k[1], tdb[k]>>] # None /\ tdb[k] \in Digests
      BY <1>1, <2>1 DEF NoDanglingTag, TypeOK
    <2>3. CASE Key(c) = <<k[1], tdb[k]>>
      <3>1. Writing(c) /\ req[c].repo = k[1]
        BY <1>3, <2>3, KeysOf DEF Key
      <3>2. req[c].op = "push"
        BY <1>1, <1>3, <3>1 DEF Alone, Writers, PutManifest
      <3>3. req[c].media # None
        BY <1>1, <3>1, <3>2 DEF PushKept
      <3> QED
        BY <2>1, <2>3, <3>3 DEF TypeOK
    <2>4. CASE Key(c) # <<k[1], tdb[k]>>
      BY <1>1, <2>1, <2>2, <2>4 DEF TypeOK, Keys
    <2> QED
      BY <2>3, <2>4
  <1>4. CASE UpsertTag(c)
    <2>1. mdb' = mdb /\ TagKey(c) \in TagKeys /\ tdb' = [tdb EXCEPT ![TagKey(c)] = req[c].digest]
      BY <1>4, KeysOf DEF UpsertTag
    <2>2. CASE k = TagKey(c)
      <3>1. Writing(c) /\ req[c].repo = k[1] /\ req[c].at = "upsert_tag"
        BY <1>4, <2>2, KeysOf DEF TagKey, UpsertTag
      <3>2. req[c].op = "push"
        BY <1>1, <3>1 DEF Alone, Writers, Writing, DeletePath, DeleteStages
      <3> QED
        BY <1>1, <2>1, <2>2, <3>1, <3>2 DEF PushKept, Key, TypeOK
    <2>3. CASE k # TagKey(c)
      <3>1. tdb'[k] = tdb[k]
        BY <2>1, <2>3 DEF TypeOK
      <3> QED
        BY <1>1, <2>1, <3>1 DEF NoDanglingTag
    <2> QED
      BY <2>2, <2>3
  <1>5. CASE mdb' = mdb /\ tdb' = tdb
    BY <1>1, <1>5 DEF NoDanglingTag
  <1> QED
    BY <1>0, <1>2, <1>3, <1>4, <1>5

-----------------------------------------------------------------------------
\* What becomes of a request that has not put the cache right.
LEMMA PendingStep ==
    ASSUME TypeOK, StageOK, NEW c \in Clients, Pull(c) \/ Write(c),
           NEW d \in Clients, NEW k \in TagKeys, k[1] \notin raced', Pending(d, k)
    PROVE  /\ \/ Pending(d, k)'
              \/ d = c /\ PutTag(c) /\ k = TagKey(c) /\ req[c].op = "push"
              \/ d = c /\ InvalidateRepoTags(c) /\ k[1] = req[c].repo
           /\ \/ req'[d].at = req[d].at
              \/ InvalidateManifest(c)
              \/ req[d].at # "invalidate"
  <1>0. req[c] \in Request /\ StageOf(req[c])
    BY DEF TypeOK, StageOK
  <1>1. CASE d # c
    <2>1. req'[d] = req[d]
      BY <1>1, OtherRequests
    <2> QED
      BY <2>1 DEF Pending
  <1>2. CASE d = c
    <2>0. req[c].at \in {"invalidate", "put_tag", "invalidate_repo"} /\ k[2] \in Tags
      BY <1>2 DEF Pending, TagKeys
    <2>1. ~DieBeforeInvalidate(c)
      BY <1>2 DEF DieBeforeInvalidate, Pending
    <2>2. InvalidateManifest(c) \/ PutTag(c) \/ InvalidateRepoTags(c)
      BY <1>0, <2>0, <2>1
      DEF Pull, StartGet, RetryGet, GetTag, TagDigest, PutTagIfCurrent, GetManifest,
          GetManifestByDigest, PutManifestIfCurrent, Respond, NotFound, FetchUpstream,
          Write, StartPush, StartStore, StartDelete, StartWrite, DeleteLookup, PutManifest,
          DeleteManifest, UpsertTag
    <2>3. CASE InvalidateManifest(c)
      <3>1. \/ Goto(c, "put_tag") /\ req[c].op = "push"
            \/ Goto(c, "invalidate_repo") /\ req[c].op = "delete"
        BY <1>2, <2>0, <2>3, NoneAssumption DEF InvalidateManifest, Pending
      <3>2. Pending(c, k)'
        BY <1>0, <1>2, <3>1 DEF Pending, Goto, TypeOK, Request
      <3> QED
        BY <1>2, <2>3, <3>2
    <2>4. CASE PutTag(c)
      <3>1. req[c].op = "push" /\ req[c].at = "put_tag"
        BY <1>2, <2>4 DEF PutTag, Pending
      <3>2. k = TagKey(c)
        BY <1>2, <3>1 DEF Pending, TagKey, TagKeys
      <3> QED
        BY <1>2, <2>4, <3>1, <3>2
    <2>5. CASE InvalidateRepoTags(c)
      BY <1>2, <2>5 DEF InvalidateRepoTags, Pending
    <2> QED
      BY <2>2, <2>3, <2>4, <2>5
  <1> QED
    BY <1>1, <1>2

\* A step that changes a tag of an unraced repository leaves its request to put the
\* cache right, with its first call to the cache still to come.
LEMMA TagChange ==
    ASSUME TypeOK, StageOK, Alone, DeletePath, NEW c \in Clients, Pull(c) \/ Write(c),
           NEW k \in TagKeys, k[1] \notin raced', tdb'[k] # tdb[k]
    PROVE  Pending(c, k)' /\ req'[c].at = "invalidate"
  <1>0. req[c] \in Request /\ StageOf(req[c]) /\ k[1] \notin raced
    BY TablesStep DEF TypeOK, StageOK
  <1>1. CASE UpsertTag(c)
    <2>1. k = TagKey(c) /\ Writing(c) /\ req[c].at = "upsert_tag"
      BY <1>1, KeysOf DEF UpsertTag, TypeOK
    <2>2. req[c].op = "push"
      BY <1>0, <2>1 DEF Alone, Writers, Writing, DeletePath, DeleteStages, TagKey
    <2> QED
      BY <1>0, <1>1, <2>1, <2>2 DEF UpsertTag, Goto, Pending, TagKey, TypeOK, Request
  <1>2. CASE DeleteManifest(c)
    <2>1. k[1] = req[c].repo /\ req[c].op = "delete"
      BY <1>2 DEF DeleteManifest
    <2> QED
      BY <1>0, <1>2, <2>1 DEF DeleteManifest, Pending, TypeOK, Request
  <1> QED
    BY <1>1, <1>2, TablesStep

\* What an insert into an LRU map leaves at a key.
LEMMA LruAt ==
    ASSUME NEW D, NEW V, NEW map \in [D -> V], NEW k \in D, NEW v, NEW cap,
           NEW new \in LruPut(map, k, v, cap), NEW q \in D
    PROVE  /\ q # k => new[q] \in {map[q], None}
           /\ new[k] \in {v, None}
  <1>1. CASE new = [map EXCEPT ![k] = v]
    BY <1>1
  <1>2. CASE \E old \in Cached(map) : new = [map EXCEPT ![k] = v, ![old] = None]
    BY <1>2
  <1> QED
    BY <1>1, <1>2 DEF LruPut

LEMMA TagPut ==
    ASSUME TypeOK, NEW k \in TagKeys, NEW v,
           tcache' \in LruPut(tcache, k, v, TagCapacity), NEW q \in TagKeys
    PROVE  /\ q # k => tcache'[q] \in {tcache[q], None}
           /\ tcache'[k] \in {v, None}
  <1>1. tcache \in [TagKeys -> Digests \cup {None}]
    BY DEF TypeOK
  <1> QED
    BY <1>1, LruAt

LEMMA CoveredNext ==
    ASSUME TypeOK, StageOK, Alone, DeletePath, PushKept, TagsCovered, FillCovered,
           NEW c \in Clients, Pull(c) \/ Write(c)
    PROVE  TagsCovered'
  <1>0. raced \subseteq raced'
        /\ (tcache' = tcache \/ PutTagIfCurrent(c) \/ PutTag(c) \/ InvalidateRepoTags(c))
    BY TablesStep
  <1> SUFFICES ASSUME NEW k \in TagKeys, k[1] \notin raced', tcache'[k] # None
               PROVE  tcache'[k] = tdb'[k] \/ \E d \in Clients : Pending(d, k)'
    BY DEF TagsCovered
  <1>1. k[1] \notin raced
    BY <1>0
  <1>2. CASE tdb'[k] # tdb[k]
    BY <1>2, TagChange
  <1> SUFFICES ASSUME tdb'[k] = tdb[k]
               PROVE  tcache'[k] = tdb[k] \/ \E d \in Clients : Pending(d, k)'
    BY <1>2
  <1>3. ASSUME NEW d \in Clients, Pending(d, k)
        PROVE  \/ Pending(d, k)'
               \/ PutTag(c) /\ k = TagKey(c) /\ req[c].op = "push"
               \/ InvalidateRepoTags(c) /\ k[1] = req[c].repo
    BY <1>3, PendingStep
  <1>4. ~(InvalidateRepoTags(c) /\ k[1] = req[c].repo)
    BY DEF InvalidateRepoTags
  <1>5. CASE PutTag(c) /\ k = TagKey(c)
    <2>1. tcache'[k] = req[c].digest
      BY <1>5, TagPut DEF PutTag
    <2>2. Writing(c) /\ req[c].repo = k[1] /\ req[c].at = "put_tag" /\ req[c].tag # None
      BY <1>5, KeysOf, NoneAssumption DEF PutTag, TagKey, StageOK, StageOf
    <2>3. req[c].op = "push"
      BY <1>1, <2>2 DEF Alone, Writers, Writing, DeletePath, DeleteStages
    <2> QED
      BY <1>1, <1>5, <2>1, <2>2, <2>3 DEF PushKept
  <1>6. CASE PutTagIfCurrent(c) /\ k = TagKey(c) /\ gen = req[c].gen
    <2>1. tcache'[k] = req[c].digest
      BY <1>6, TagPut DEF PutTagIfCurrent
    <2>2. req[c].at = "tag_fill" /\ req[c].repo = k[1]
      BY <1>6 DEF PutTagIfCurrent, TagKey
    <2>3. \/ req[c].digest = tdb[k]
          \/ \E d \in Clients : Pending(d, k)
      BY <1>1, <1>6, <2>2 DEF FillCovered
    <2>4. ~PutTag(c) /\ ~InvalidateRepoTags(c)
      BY <2>2 DEF PutTag, InvalidateRepoTags
    <2> QED
      BY <1>3, <2>1, <2>3, <2>4
  <1>7. CASE ~(PutTag(c) /\ k = TagKey(c)) /\ ~(PutTagIfCurrent(c) /\ k = TagKey(c) /\ gen = req[c].gen)
    <2>1. tcache'[k] \in {tcache[k], None}
      <3>1. CASE PutTag(c)
        BY <1>7, <3>1, TagPut, KeysOf DEF PutTag
      <3>2. CASE PutTagIfCurrent(c)
        BY <1>7, <3>2, TagPut, KeysOf DEF PutTagIfCurrent
      <3>3. CASE InvalidateRepoTags(c)
        BY <3>3 DEF InvalidateRepoTags
      <3> QED
        BY <1>0, <3>1, <3>2, <3>3
    <2>2. tcache[k] = tdb[k] \/ \E d \in Clients : Pending(d, k)
      BY <1>1, <2>1 DEF TagsCovered
    <2> QED
      BY <1>3, <1>4, <1>7, <2>1, <2>2
  <1> QED
    BY <1>5, <1>6, <1>7

\* Only the read of the tag's row brings a pull to the point of caching it.
LEMMA FillBy ==
    ASSUME TypeOK, StageOK, NEW c \in Clients, Pull(c) \/ Write(c), req'[c].at = "tag_fill"
    PROVE  TagDigest(c)
  <1>0. req[c] \in Request /\ StageOf(req[c])
    BY DEF TypeOK, StageOK
  <1>f. ~Finish(c)
    <2>1. Idle.at = "idle"
      BY DEF Idle
    <2> QED
      BY <2>1, FinishEnds
  <1>1. CASE Pull(c)
    <2>1. ~StartGet(c) /\ ~RetryGet(c)
      BY GetStarts
    <2>2. FetchUpstream(c) => req'[c].at = "commit"
      BY <1>0 DEF FetchUpstream, TypeOK, Request
    <2> QED
      BY <1>0, <1>f, <1>1, <2>1, <2>2
      DEF Pull, GetTag, PutTagIfCurrent, GetManifest, GetManifestByDigest, PutManifestIfCurrent,
          Respond, NotFound, Resolve, Goto, TypeOK, Request
  <1>2. CASE Write(c)
    <2>1. CASE StartPush(c) \/ StartStore(c) \/ StartDelete(c)
      <3>1. \A op, r, t, d, m :
              StartWrite(c, op, r, t, d, m) => req'[c].at \in {"commit", "delete_lookup"}
        BY WriteRecord DEF StartWrite, TypeOK
      <3> QED
        BY <2>1, <3>1 DEF StartPush, StartStore, StartDelete
    <2> QED
      BY <1>0, <1>f, <1>2, <2>1
      DEF Write, DeleteLookup, PutManifest, DeleteManifest, UpsertTag, InvalidateManifest, PutTag,
          InvalidateRepoTags, DieBeforeInvalidate, Goto, TypeOK, Request
  <1> QED
    BY <1>1, <1>2

LEMMA FillCoveredNext ==
    ASSUME TypeOK, TypeOK', StageOK, StageOK', GenBounded, Alone, DeletePath, FillCovered,
           NEW c \in Clients, Pull(c) \/ Write(c)
    PROVE  FillCovered'
  <1>0. raced \subseteq raced'
    BY TablesStep
  <1>1. ASSUME NEW x \in Clients, req'[x].at = "tag_fill", req'[x].gen = gen',
               req'[x].repo \notin raced',
               NEW k \in TagKeys, k = TagKey(x)'
        PROVE  \/ req'[x].digest = tdb'[k]
               \/ \E d \in Clients : req'[d].at = "invalidate" /\ Pending(d, k)'
    <2>0. k[1] \notin raced' /\ k[1] \notin raced
      BY <1>0, <1>1 DEF TagKey
    <2>1. CASE x = c
      <3>1. TagDigest(c)
        BY <1>1, <2>1, FillBy
      <3>2. req'[c].digest = tdb[TagKey(c)] /\ TagKey(c)' = TagKey(c) /\ tdb' = tdb
        BY <1>1, <2>1, <3>1 DEF TagDigest, Goto, TagKey, TypeOK, Request, dbVars
      <3> QED
        BY <1>1, <2>1, <3>2
    <2>2. CASE x # c
      <3>1. req'[x] = req[x] /\ TagKey(x) = k
        BY <1>1, <2>2, OtherRequests DEF TagKey
      <3>2. gen' = gen /\ ~InvalidateManifest(c) /\ ~InvalidateRepoTags(c)
        <4>1. req[x].gen <= gen /\ gen \in Nat /\ req[x].gen = gen'
          BY <1>1, <3>1 DEF GenBounded, TypeOK
        <4>2. InvalidateManifest(c) \/ InvalidateRepoTags(c) => gen' = gen + 1
          BY DEF InvalidateManifest, DropManifest, InvalidateRepoTags
        <4>3. ~InvalidateManifest(c) /\ ~InvalidateRepoTags(c)
          BY <4>1, <4>2
        <4> QED
          BY <4>3, TablesStep
      <3>3. \/ req[x].digest = tdb[k]
            \/ \E d \in Clients : req[d].at = "invalidate" /\ Pending(d, k)
        BY <1>0, <1>1, <3>1, <3>2 DEF FillCovered
      <3>4. CASE tdb'[k] # tdb[k]
        BY <2>0, <3>4, TagChange
      <3>5. ASSUME NEW d \in Clients, req[d].at = "invalidate", Pending(d, k)
            PROVE  req'[d].at = "invalidate" /\ Pending(d, k)'
        <4>1. ~PutTag(c) \/ d # c
          BY <3>5 DEF PutTag
        <4> QED
          BY <2>0, <3>2, <3>5, <4>1, PendingStep
      <3> QED
        BY <3>1, <3>3, <3>4, <3>5
    <2> QED
      BY <2>1, <2>2
  <1>2. ASSUME NEW x \in Clients, req'[x].at = "tag_fill" PROVE TagKey(x)' \in TagKeys
    BY <1>2 DEF TypeOK, StageOK, StageOf, TagKey, TagKeys, Request
  <1>3. ASSUME NEW x \in Clients, req'[x].at = "tag_fill", req'[x].gen = gen',
               req'[x].repo \notin raced'
        PROVE  \/ req'[x].digest = tdb'[TagKey(x)']
               \/ \E d \in Clients : /\ req'[d].at = "invalidate"
                                     /\ req'[d].repo = TagKey(x)'[1]
                                     /\ \/ /\ req'[d].op = "push" /\ req'[d].tag = TagKey(x)'[2]
                                           /\ req'[d].at \in {"invalidate", "put_tag"}
                                        \/ /\ req'[d].op = "delete"
                                           /\ req'[d].at \in {"invalidate", "invalidate_repo"}
    <2>1. PICK k \in TagKeys : k = TagKey(x)'
      BY <1>2, <1>3
    <2> QED
      BY <1>1, <1>3, <2>1 DEF Pending
  <1> QED
    BY <1>3 DEF FillCovered, Pending

LEMMA TagInit == Init => TagInv
  <1> SUFFICES ASSUME Init PROVE TagInv
    OBVIOUS
  <1>1. \A c \in Clients : req[c].at = "idle" /\ req[c].op = "none"
    BY DEF Init, Idle
  <1>2. Alone /\ DeletePath /\ PushKept /\ FillCovered
    BY <1>1 DEF Alone, Writers, Writing, DeletePath, PushKept, FillCovered
  <1>3. TagsCovered /\ NoDanglingTag
    BY DEF Init, TagsCovered, NoDanglingTag
  <1> QED
    BY <1>2, <1>3 DEF TagInv

LEMMA TagNext ==
    ASSUME IInv, IInv', TagInv, [Next]_vars
    PROVE  TagInv'
  <1>1. CASE UNCHANGED vars
    BY <1>1 DEF vars, TagInv, Alone, Writers, Writing, DeletePath, PushKept, FillCovered, Pending,
         TagsCovered, NoDanglingTag, Key, TagKey
  <1>2. ASSUME NEW c \in Clients, Pull(c) \/ Write(c) PROVE TagInv'
    BY <1>2, AloneNext, DeletePathNext, PushKeptNext, DanglingNext, CoveredNext, FillCoveredNext
    DEF IInv, TagInv
  <1> QED
    BY <1>1, <1>2 DEF Next

\* "The cache is always consistent with SQLite" (cache.rs:6), for the tags of a
\* repository whose pushes and deletes came one at a time: a cached resolution is
\* the row of the tag, however many pulls fill the cache from old reads.
THEOREM TagsAreCoherent == Spec => []TagCoherentSerially
  <1>1. TagInv => TagCoherentSerially
    <2> SUFFICES ASSUME TagInv, NEW r \in Repos \ raced, TagSettled(r), NEW t \in Tags,
                        tcache[<<r, t>>] # None
                 PROVE  tcache[<<r, t>>] = tdb[<<r, t>>]
      BY DEF TagCoherentSerially, TagsAgree
    <2>1. <<r, t>> \in TagKeys
      BY DEF TagKeys
    <2>2. ASSUME NEW c \in Clients, Pending(c, <<r, t>>) PROVE FALSE
      BY <2>2 DEF Pending, TagSettled, Writing
    <2> QED
      BY <2>1, <2>2 DEF TagInv, TagsCovered
  <1> QED
    BY InvInit, InvNext, TagInit, TagNext, <1>1, PTL DEF Spec

\* There, no tag is left pointing at a manifest the repository does not hold.
THEOREM NoTagDangles == Spec => []NoDanglingTag
  <1>1. TagInv => NoDanglingTag
    BY DEF TagInv
  <1> QED
    BY InvInit, InvNext, TagInit, TagNext, <1>1, PTL DEF Spec
=============================================================================
