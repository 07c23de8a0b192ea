--------------------------- MODULE UploadSessions ---------------------------
(***************************************************************************)
(* Blob upload sessions (src/src/registry/uploads.rs): the in-memory       *)
(* registry, the admission slots, the session mutex, the multipart upload  *)
(* each session drives, and the requests and the reaper that share them.   *)
(*                                                                         *)
(* The clients of a session send one stream of units, so the bytes hashed  *)
(* so far, and their digest, are told by their number, total; what is in   *)
(* the buffer, in the uploaded parts or in an object is the set of units   *)
(* it holds.  Every await is the end of a step, so another request can run *)
(* there, and the request can end there: its call fails, or its client     *)
(* hangs up and the handler's future is dropped, which unlocks.            *)
(***************************************************************************)
EXTENDS Integers, FiniteSets

CONSTANTS
    Sessions,    \* upload ids
    Requests,    \* concurrent HTTP requests
    Reaper,      \* the background reap_loop
    None,        \* no session, no holder, no object
    Kinds,       \* what happens in the instance: requests, and sessions left idle
    Slots,       \* MAX_ACTIVE_SESSIONS
    PartSize,    \* PART_SIZE, in units
    MaxBlob,     \* config quota.max_blob_bytes in units, 0 = unlimited
    MaxUnits,    \* bound: units of the stream
    MaxCalls,    \* bound: requests in one behaviour
    MaxFaults,   \* bound: faults in one behaviour
    FaultPoints  \* the <<operation, stage>> pairs where a fault may hit

ASSUME NamesAssumption ==
    /\ Reaper \notin Requests
    /\ Kinds \subseteq {"patch", "finish", "cancel", "idle"}
    /\ None \notin Sessions \cup Requests \cup {Reaper}
ASSUME SizesAssumption ==
    /\ Slots \in Nat \ {0} /\ PartSize \in Nat \ {0}
    /\ MaxBlob \in Nat /\ MaxUnits \in Nat /\ MaxCalls \in Nat /\ MaxFaults \in Nat

Units == 1..MaxUnits
Workers == Requests \cup {Reaper}
Holders == Workers \cup {None}

VARIABLES
    registry, \* UploadRegistry.inner: the ids in the map
    session,  \* the fields of each UploadSession
    lock,     \* the holder of each session's mutex, or None
    upload,   \* external: the S3 multipart upload of each session
    temp,     \* external: the object at each temp_key, or None
    objects,  \* external: the object at the key of the digest of units 1..n, or None
    recorded, \* blobs table: the n whose blob is recorded
    work,     \* the requests in flight and the reaper, with their local variables
    lost,     \* history: the sessions that dropped a part they had hashed
    unaborted, \* history: the sessions a fault left without anyone to abort their upload
    calls,    \* bound: requests so far
    faults    \* bound: faults so far

vars == <<registry, session, lock, upload, temp, objects, recorded, work, lost, unaborted, calls, faults>>
bucket == <<upload, temp, objects>>
bounds == <<calls, faults>>
rest == <<lost, unaborted, calls, faults>>

Ops == {"none", "start", "patch", "finish", "cancel", "reap"}
Stages == {"idle",
    "scan", "expired", "reap",                                  \* take_expired and after
    "slot", "create", "insert",                                 \* start
    "wait", "body", "part",                                     \* patch, finish
    "abort", "remove",                                          \* over size, quota, cancel
    "mismatch", "quota", "commit", "put", "tail", "complete",   \* finish
    "copy", "cleanup", "record"}

Work == [op : Ops, at : Stages, id : Sessions \cup {None}, part : SUBSET Units,
         todo : SUBSET Sessions, expired : SUBSET Sessions]
Session == [total : 0..MaxUnits, buffer : SUBSET Units, parts : SUBSET Units,
            finalizing : BOOLEAN, idle : BOOLEAN]

NoWork == [op |-> "none", at |-> "idle", id |-> None, part |-> {}, todo |-> {}, expired |-> {}]
NewSession == [total |-> 0, buffer |-> {}, parts |-> {}, finalizing |-> FALSE, idle |-> FALSE]

Init ==
    /\ registry = {} /\ recorded = {}
    /\ session = [s \in Sessions |-> NewSession]
    /\ lock = [s \in Sessions |-> None]
    /\ upload = [s \in Sessions |-> "none"]
    /\ temp = [s \in Sessions |-> None]
    /\ objects = [n \in 0..MaxUnits |-> None]
    /\ work = [w \in Workers |-> NoWork]
    /\ lost = {} /\ unaborted = {}
    /\ calls = 0 /\ faults = 0

Id(w) == work[w].id
At(w, stage) == work[w].at = stage
Goto(w, stage) == work' = [work EXCEPT ![w].at = stage]
Finish(w) == work' = [work EXCEPT ![w] = NoWork]
Lock(w, s) == lock[s] = None /\ lock' = [lock EXCEPT ![s] = w]
Unlock(s) == lock' = [lock EXCEPT ![s] = None]
Call == calls < MaxCalls /\ calls' = calls + 1 /\ UNCHANGED <<lost, unaborted, faults>>
Fault(op, stage) ==
    /\ <<op, stage>> \in FaultPoints
    /\ faults < MaxFaults /\ faults' = faults + 1 /\ UNCHANGED calls

\* A permit rides in the session: it is free once the map and every Arc let go of it.
Held == registry \cup {Id(w) : w \in Workers} \cup UNION {work[w].expired : w \in Workers}
SlotFree == Cardinality(Held \cap Sessions) < Slots

-----------------------------------------------------------------------------
(***************************************************************************)
(* take_expired, by the reaper and by a start that finds no slot           *)
(***************************************************************************)
ReapTick ==
    /\ At(Reaper, "idle")
    /\ work' = [work EXCEPT ![Reaper] =
            [NoWork EXCEPT !.op = "reap", !.at = "scan", !.todo = registry]]
    /\ UNCHANGED <<registry, session, lock, bucket, recorded, rest>>

\* Mutant: only sessions without bytes are reaped.
ShouldReapEmpty(s) == lock[s] = None /\ session[s].idle /\ session[s].total = 0
ShouldReap(s) == lock[s] = None /\ session[s].idle /\ ~session[s].finalizing

\* try_lock decides, and the guard is gone when the id is removed.
Scan(w) ==
    /\ At(w, "scan")
    /\ \E s \in work[w].todo :
        work' = [work EXCEPT ![w].todo = @ \ {s},
                             ![w].id = IF s \in registry /\ ShouldReap(s) THEN s ELSE None,
                             ![w].at = IF s \in registry /\ ShouldReap(s) THEN "expired" ELSE @]
    /\ UNCHANGED <<registry, session, lock, bucket, recorded, rest>>

TakeExpired(w) ==
    /\ At(w, "expired")
    /\ registry' = registry \ {Id(w)}
    /\ work' = [work EXCEPT ![w].expired = @ \cup {Id(w)}, ![w].id = None, ![w].at = "scan"]
    /\ UNCHANGED <<session, lock, bucket, recorded, rest>>

\* The scan is over: abort what was taken, then go back to sleep or try again.
ScanDone(w) ==
    /\ At(w, "scan") /\ work[w].todo = {}
    /\ IF work[w].expired = {}
       THEN IF w = Reaper THEN Finish(w) ELSE Goto(w, "slot")
       ELSE \E s \in work[w].expired : work' = [work EXCEPT ![w].at = "reap", ![w].id = s]
    /\ UNCHANGED <<registry, session, lock, bucket, recorded, rest>>

ReapLock(w) ==
    /\ At(w, "reap")
    /\ Lock(w, Id(w))
    /\ Goto(w, "abort")
    /\ UNCHANGED <<registry, session, bucket, recorded, rest>>

\* abort_multipart; its result is ignored everywhere.
AbortUpload(w) ==
    \/ /\ upload' = [upload EXCEPT ![Id(w)] = IF @ = "open" THEN "aborted" ELSE @]
       /\ UNCHANGED rest
    \/ /\ Fault("storage", "abort")
       /\ unaborted' = unaborted \cup {Id(w)}
       /\ UNCHANGED <<upload, lost>>

ReapAbort(w) ==
    /\ At(w, "abort") /\ Id(w) \in work[w].expired
    /\ AbortUpload(w)
    /\ Unlock(Id(w))
    /\ work' = [work EXCEPT ![w].at = "scan", ![w].expired = @ \ {Id(w)}, ![w].id = None]
    /\ UNCHANGED <<registry, session, temp, objects, recorded>>

-----------------------------------------------------------------------------
(***************************************************************************)
(* start                                                                   *)
(***************************************************************************)
Fresh(s) == upload[s] = "none" /\ s \notin Held

\* The permit is claimed before anything is allocated.
Claim(w) ==
    \E s \in Sessions :
        /\ SlotFree /\ Fresh(s)
        /\ work' = [work EXCEPT ![w] = [NoWork EXCEPT !.op = "start", !.at = "create", !.id = s]]

Start(w) ==
    /\ w \in Requests /\ At(w, "idle")
    /\ Call
    /\ \/ Claim(w)
       \/ /\ ~SlotFree
          /\ work' = [work EXCEPT ![w] =
                [NoWork EXCEPT !.op = "start", !.at = "scan", !.todo = registry]]
    /\ UNCHANGED <<registry, session, lock, bucket, recorded>>

\* The second try, after the reclaim; 429 when there is still no slot.
StartAgain(w) ==
    /\ At(w, "slot")
    /\ Claim(w) \/ (~SlotFree /\ Finish(w))
    /\ UNCHANGED <<registry, session, lock, bucket, recorded, rest>>

\* external: the multipart upload is open once the service has made it, and its
\* answer is on the way back.
Create(w) ==
    /\ At(w, "create")
    /\ upload' = [upload EXCEPT ![Id(w)] = "open"]
    /\ Goto(w, "insert")
    /\ UNCHANGED <<registry, session, lock, temp, objects, recorded, rest>>

\* The answer is here: the session is registered, and the request is done.
Insert(w) ==
    /\ At(w, "insert")
    /\ registry' = registry \cup {Id(w)}
    /\ session' = [session EXCEPT ![Id(w)] = NewSession]
    /\ Finish(w)
    /\ UNCHANGED <<lock, bucket, recorded, rest>>

-----------------------------------------------------------------------------
(***************************************************************************)
(* patch, finish and cancel up to the session lock                         *)
(***************************************************************************)
\* registry.get clones the Arc; the lock is waited for afterwards.
Get(w, op) ==
    /\ w \in Requests /\ At(w, "idle") /\ op \in Kinds
    /\ Call
    /\ \E s \in registry :
        work' = [work EXCEPT ![w] = [NoWork EXCEPT !.op = op, !.at = "wait", !.id = s]]
    /\ UNCHANGED <<registry, session, lock, bucket, recorded>>

GetPatch(w) == Get(w, "patch")
GetFinish(w) == Get(w, "finish")
GetCancel(w) == Get(w, "cancel")

\* A session already being finalized is refused.
Refused(w) ==
    /\ At(w, "wait") /\ work[w].op \in {"patch", "finish"}
    /\ lock[Id(w)] = None /\ session[Id(w)].finalizing
    /\ Finish(w)
    /\ UNCHANGED <<registry, session, lock, bucket, recorded, rest>>

PatchEnter(w) ==
    /\ At(w, "wait") /\ work[w].op = "patch"
    /\ ~session[Id(w)].finalizing
    /\ Lock(w, Id(w))
    /\ Goto(w, "body")
    /\ UNCHANGED <<registry, session, bucket, recorded, rest>>

\* Mutant: finalizing is not looked at.
ClaimableTwice(s) == s \in Sessions
Claimable(s) == ~session[s].finalizing

FinishEnter(w) ==
    /\ At(w, "wait") /\ work[w].op = "finish"
    /\ Claimable(Id(w))
    /\ Lock(w, Id(w))
    /\ session' = [session EXCEPT ![Id(w)].finalizing = TRUE]
    /\ Goto(w, "body")
    /\ UNCHANGED <<registry, bucket, recorded, rest>>

\* Mutant: cancel removes the session and nothing else.
CancelWithoutAbort(w) ==
    /\ At(w, "wait") /\ work[w].op = "cancel"
    /\ lock[Id(w)] = None
    /\ Goto(w, "remove")
    /\ UNCHANGED <<registry, session, lock, bucket, recorded, rest>>

CancelEnter(w) ==
    /\ At(w, "wait") /\ work[w].op = "cancel"
    /\ Lock(w, Id(w))
    /\ Goto(w, "abort")
    /\ UNCHANGED <<registry, session, bucket, recorded, rest>>

-----------------------------------------------------------------------------
(***************************************************************************)
(* The body of a patch or a finish                                         *)
(***************************************************************************)
TooLarge(total) == MaxBlob > 0 /\ total > MaxBlob
\* Mutant: the limit is off by one.
AfterWriteLate(total) == IF TooLarge(total - 1) THEN "abort" ELSE "body"
AfterWrite(total) == IF TooLarge(total) THEN "abort" ELSE "body"

\* Mutant: a part is counted again when it is full.
WriteCountingParts(w) ==
    LET s == session[Id(w)]
        buffer == s.buffer \cup {s.total + 1}
        full == Cardinality(buffer) >= PartSize
        total == s.total + 1 + (IF full THEN Cardinality(buffer) ELSE 0)
    IN  /\ At(w, "body") /\ s.total < MaxUnits
        /\ session' = [session EXCEPT ![Id(w)] =
                [@ EXCEPT !.total = total, !.idle = FALSE,
                          !.buffer = IF full THEN {} ELSE buffer]]
        /\ work' = [work EXCEPT ![w].part = IF full THEN buffer ELSE {},
                                ![w].at = IF full THEN "part" ELSE AfterWrite(total)]
        /\ UNCHANGED <<registry, lock, bucket, recorded, rest>>

\* write: hash and count the chunk, then drain a full part out of the buffer and
\* upload it.
Write(w) ==
    LET s == session[Id(w)]
        buffer == s.buffer \cup {s.total + 1}
        full == Cardinality(buffer) >= PartSize
    IN  /\ At(w, "body") /\ s.total < MaxUnits
        /\ session' = [session EXCEPT ![Id(w)] =
                [@ EXCEPT !.total = s.total + 1, !.idle = FALSE,
                          !.buffer = IF full THEN {} ELSE buffer]]
        /\ work' = [work EXCEPT ![w].part = IF full THEN buffer ELSE {},
                                ![w].at = IF full THEN "part" ELSE AfterWrite(s.total + 1)]
        /\ UNCHANGED <<registry, lock, bucket, recorded, rest>>

\* external: a part is taken while the multipart upload is open.
UploadPart(w) ==
    /\ At(w, "part") /\ upload[Id(w)] = "open"
    /\ session' = [session EXCEPT ![Id(w)].parts = @ \cup work[w].part]
    /\ work' = [work EXCEPT ![w].part = {}, ![w].at = AfterWrite(session[Id(w)].total)]
    /\ UNCHANGED <<registry, lock, bucket, recorded, rest>>

PatchDone(w) ==
    /\ At(w, "body") /\ work[w].op = "patch"
    /\ Unlock(Id(w))
    /\ Finish(w)
    /\ UNCHANGED <<registry, session, bucket, recorded, rest>>

\* Over size, over quota or cancelled: abort, drop the guard, then remove.
Abort(w) ==
    /\ At(w, "abort") /\ work[w].expired = {}
    /\ AbortUpload(w)
    /\ Unlock(Id(w))
    /\ Goto(w, "remove")
    /\ UNCHANGED <<registry, session, temp, objects, recorded>>

Remove(w) ==
    /\ At(w, "remove")
    /\ registry' = registry \ {Id(w)}
    /\ Finish(w)
    /\ UNCHANGED <<session, lock, bucket, recorded, rest>>

-----------------------------------------------------------------------------
(***************************************************************************)
(* finish, once the body is in                                             *)
(***************************************************************************)
\* The client's digest is, or is not, that of the units hashed.
Verify(w) ==
    /\ At(w, "body") /\ work[w].op = "finish"
    /\ Goto(w, "quota") \/ Goto(w, "mismatch")
    /\ UNCHANGED <<registry, session, lock, bucket, recorded, rest>>

Mismatch(w) ==
    /\ At(w, "mismatch")
    /\ AbortUpload(w)
    /\ registry' = registry \ {Id(w)}
    /\ Unlock(Id(w))
    /\ Finish(w)
    /\ UNCHANGED <<session, temp, objects, recorded>>

CheckQuota(w) ==
    /\ At(w, "quota")
    /\ Goto(w, "commit") \/ Goto(w, "abort")
    /\ UNCHANGED <<registry, session, lock, bucket, recorded, rest>>

\* Without a flushed part the multipart upload goes, and the buffer is one PutObject.
CommitSmall(w) ==
    /\ At(w, "commit") /\ session[Id(w)].parts = {}
    /\ AbortUpload(w)
    /\ work' = [work EXCEPT ![w].part = session[Id(w)].buffer, ![w].at = "put"]
    /\ session' = [session EXCEPT ![Id(w)].buffer = {}]
    /\ UNCHANGED <<registry, lock, temp, objects, recorded>>

Put(w) ==
    /\ At(w, "put")
    /\ temp' = [temp EXCEPT ![Id(w)] = work[w].part]
    /\ work' = [work EXCEPT ![w].part = {}, ![w].at = "copy"]
    /\ UNCHANGED <<registry, session, lock, upload, objects, recorded, rest>>

\* Otherwise what is left in the buffer is the last part.
CommitParts(w) ==
    /\ At(w, "commit") /\ session[Id(w)].parts # {}
    /\ work' = [work EXCEPT ![w].part = session[Id(w)].buffer,
                ![w].at = IF session[Id(w)].buffer = {} THEN "complete" ELSE "tail"]
    /\ session' = [session EXCEPT ![Id(w)].buffer = {}]
    /\ UNCHANGED <<registry, lock, bucket, recorded, rest>>

Tail(w) ==
    /\ At(w, "tail") /\ upload[Id(w)] = "open"
    /\ session' = [session EXCEPT ![Id(w)].parts = @ \cup work[w].part]
    /\ work' = [work EXCEPT ![w].part = {}, ![w].at = "complete"]
    /\ UNCHANGED <<registry, lock, bucket, recorded, rest>>

Complete(w) ==
    /\ At(w, "complete") /\ upload[Id(w)] = "open"
    /\ upload' = [upload EXCEPT ![Id(w)] = "completed"]
    /\ temp' = [temp EXCEPT ![Id(w)] = session[Id(w)].parts]
    /\ session' = [session EXCEPT ![Id(w)].parts = {}]
    /\ Goto(w, "copy")
    /\ UNCHANGED <<registry, lock, objects, recorded, rest>>

Copy(w) ==
    /\ At(w, "copy")
    /\ objects' = [objects EXCEPT ![session[Id(w)].total] = temp[Id(w)]]
    /\ Goto(w, "cleanup")
    /\ UNCHANGED <<registry, session, lock, upload, temp, recorded, rest>>

\* The result of deleting the temporary object is ignored.
Cleanup(w) ==
    /\ At(w, "cleanup")
    /\ \/ temp' = [temp EXCEPT ![Id(w)] = None] /\ UNCHANGED rest
       \/ Fault("storage", "cleanup") /\ UNCHANGED <<temp, lost, unaborted>>
    /\ Goto(w, "record")
    /\ UNCHANGED <<registry, session, lock, upload, objects, recorded>>

Record(w) ==
    /\ At(w, "record")
    /\ recorded' = recorded \cup {session[Id(w)].total}
    /\ Unlock(Id(w))
    /\ Goto(w, "remove")
    /\ UNCHANGED <<registry, session, bucket, rest>>

-----------------------------------------------------------------------------
(***************************************************************************)
(* What goes wrong                                                         *)
(***************************************************************************)
\* The request ends at this await and its guard is dropped.  A part that was on
\* its way is gone from the buffer, and counted.
Leave(w) ==
    /\ lock' = [s \in Sessions |-> IF lock[s] = w THEN None ELSE lock[s]]
    /\ lost' = IF At(w, "part") THEN lost \cup {Id(w)} ELSE lost
    /\ Finish(w)
    /\ UNCHANGED <<registry, session, bucket, recorded>>

\* The sessions whose upload only this worker would have seen to: it is there to
\* abort them, or has opened one that is not registered yet.
Charge(w) ==
    work[w].expired \cup (IF work[w].at \in {"insert", "expired", "abort"} THEN {Id(w)} ELSE {})

Fail(w) ==
    /\ w \in Requests
    /\ Fault(work[w].op, work[w].at)
    /\ unaborted' = unaborted \cup Charge(w)
    /\ Leave(w)

\* external: NoSuchUpload, from an upload that was aborted.
UploadGone(w) ==
    /\ work[w].at \in {"part", "tail", "complete"} /\ upload[Id(w)] # "open"
    /\ Leave(w)
    /\ UNCHANGED <<unaborted, bounds>>

\* The server restarts: sessions live in memory.
Restart ==
    /\ Fault("server", "restart")
    /\ registry' = {}
    /\ lock' = [s \in Sessions |-> None]
    /\ work' = [w \in Workers |-> NoWork]
    /\ unaborted' = unaborted \cup (Held \cap Sessions)
    /\ UNCHANGED <<session, bucket, recorded, lost>>

\* SESSION_IDLE_TTL passes without a write.
Age(s) ==
    /\ "idle" \in Kinds
    /\ s \in registry /\ lock[s] = None /\ ~session[s].idle
    /\ session' = [session EXCEPT ![s].idle = TRUE]
    /\ UNCHANGED <<registry, lock, bucket, recorded, work, rest>>

-----------------------------------------------------------------------------
Reap(w) == Scan(w) \/ TakeExpired(w) \/ ScanDone(w) \/ ReapLock(w) \/ ReapAbort(w)
Enter(w) == Refused(w) \/ PatchEnter(w) \/ FinishEnter(w) \/ CancelEnter(w)
Body(w) == Write(w) \/ UploadPart(w) \/ PatchDone(w) \/ Verify(w) \/ UploadGone(w)
Commit(w) ==
    \/ Mismatch(w) \/ CheckQuota(w) \/ CommitSmall(w) \/ Put(w) \/ CommitParts(w)
    \/ Tail(w) \/ Complete(w) \/ Copy(w) \/ Cleanup(w) \/ Record(w)
    \/ Abort(w) \/ Remove(w)

\* What a worker does once it is running.
Proceed(w) == Reap(w) \/ StartAgain(w) \/ Create(w) \/ Insert(w) \/ Enter(w) \/ Body(w) \/ Commit(w)

Next ==
    \/ ReapTick
    \/ \E w \in Workers : Proceed(w)
    \/ \E w \in Requests :
        Start(w) \/ GetPatch(w) \/ GetFinish(w) \/ GetCancel(w) \/ Fail(w)
    \/ Restart
    \/ \E s \in Sessions : Age(s)

Spec == Init /\ [][Next]_vars

\* The reaper runs every REAP_INTERVAL, time passes, and a running request goes
\* on: calls return and its client goes on sending, ends the body or hangs up.
FairSpec ==
    /\ Spec
    /\ WF_vars(ReapTick)
    /\ \A w \in Workers : WF_vars(Proceed(w))
    /\ \A s \in Sessions : WF_vars(Age(s))

-----------------------------------------------------------------------------
(***************************************************************************)
(* Properties                                                              *)
(***************************************************************************)
TypeOK ==
    /\ registry \in SUBSET Sessions
    /\ session \in [Sessions -> Session]
    /\ lock \in [Sessions -> Holders]
    /\ upload \in [Sessions -> {"none", "open", "aborted", "completed"}]
    /\ temp \in [Sessions -> (SUBSET Units) \cup {None}]
    /\ objects \in [0..MaxUnits -> (SUBSET Units) \cup {None}]
    /\ recorded \in SUBSET (0..MaxUnits)
    /\ work \in [Workers -> Work]
    /\ lost \in SUBSET Sessions /\ unaborted \in SUBSET Sessions
    /\ calls \in 0..MaxCalls /\ faults \in 0..MaxFaults

\* What is recorded under a digest is the bytes of that digest (uploads.rs, "On
\* finalize we verify the digest"), but for sessions that dropped a part: it holds
\* through concurrent, retried and refused finalizes of a session, through cancels,
\* reaping and restarts, and through pushes of one blob by several sessions.
Torn(n) == \E s \in lost : session[s].total = n
WholeUnlessTorn == \A n \in recorded : Torn(n) \/ objects[n] = 1..n

\* A blob over max_blob_bytes is never recorded (patch and finish, "Reject an
\* over-size blob"), whatever else holds the session when it is rejected, while
\* the limit is at least a part and the abort of the rejected upload is made.
OversizeNeverRecorded ==
    \A n \in recorded : TooLarge(n) => \E s \in lost \cup unaborted : session[s].total = n

\* A multipart upload that is left open although no session and no request refers
\* to it any more comes from a restart, from an abort call that failed, or from a
\* request that ended too early: a start whose upload was made and not registered
\* yet (start, between create_multipart and insert), and a request in the middle of
\* aborting or reclaiming.  No interleaving of requests that run to their end
\* leaves one.
NoOrphanUpload == \A s \in Sessions : upload[s] = "open" => s \in Held \cup unaborted

\* A finish that has claimed the session and ended without an outcome.
Stuck(s) ==
    session[s].finalizing /\ lock[s] = None /\ \A w \in Workers : Id(w) = s => At(w, "wait")

\* Every session leaves the registry, and with it its slot, however its client
\* ends (uploads.rs, SESSION_IDLE_TTL "bounds the leak", SESSION_SLOTS "until it
\* finishes, is cancelled, or is reaped"), but for one whose finish has failed.
SessionsEndOrStick == \A s \in Sessions : s \in registry ~> s \notin registry \/ Stuck(s)
=============================================================================
