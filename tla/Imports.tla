------------------------------ MODULE Imports -------------------------------
(***************************************************************************)
(* Bulk imports (src/src/import.rs, src/src/db/imports.rs): the row of a   *)
(* job, the task that runs it, one copy task per repository, and within an *)
(* image one concurrent copy per blob, which share a lock per digest and   *)
(* the permits of the job.                                                 *)
(*                                                                         *)
(* The upstream answers as it likes: a listing or a manifest comes, is not *)
(* there, or fails; what a reference names does not change.  A step is the *)
(* code between two awaits.  bytes_done moves with blobs_done and is left  *)
(* out.                                                                    *)
(***************************************************************************)
EXTENDS Integers, Sequences, FiniteSets, SequencesExt

CONSTANTS
    Jobs,        \* import ids
    Repos,       \* repositories of the upstream
    Blobs,       \* blob digests
    Manifests,   \* manifest digests
    Desc,        \* the blobs of an image: config and layers, in order
    Child,       \* the manifests of an index, in order; <<>> for an image
    Tagged,      \* the manifests a repository's tags name, in the listed order
    Concurrency, \* import.concurrency
    MaxDepth,    \* MAX_MANIFEST_DEPTH
    MaxFaults    \* bound: failures in one behaviour

ASSUME ShapeAssumption ==
    /\ Desc \in [Manifests -> Seq(Blobs)] /\ Child \in [Manifests -> Seq(Manifests)]
    /\ Tagged \in [Repos -> Seq(Manifests)]
    /\ \A m \in Manifests : Child[m] # <<>> => Desc[m] = <<>>
\* A digest is the hash of its manifest, so no index is among its own descendants: of
\* finitely many manifests, one is the child of no other and not of itself.
ASSUME NoCycle ==
    \A S \in SUBSET Manifests :
        S # {} /\ IsFiniteSet(S) => \E m \in S : \A p \in S : m \notin Range(Child[p])
ASSUME ReposFinite == IsFiniteSet(Repos)
ASSUME BoundsAssumption ==
    Concurrency \in Nat \ {0} /\ MaxDepth \in Nat /\ MaxFaults \in Nat

VARIABLES
    row,     \* imports table
    job,     \* where each job's task is, and the repositories it was told
    task,    \* the copy task of each job and repository
    blobs,   \* blobs table of the organization
    stored,  \* manifests table: <<repository, digest>>
    fetched, \* history: how often each job downloaded a blob
    gone,    \* history: <<repository, child>> the upstream answered 404 for
    unsaved, \* history: jobs with an update of the row that failed
    orphan,  \* history: jobs whose handler was dropped or whose last update failed
    faults   \* bound: failures so far

vars == <<row, job, task, blobs, stored, fetched, gone, unsaved, orphan, faults>>
content == <<blobs, stored, fetched, gone>>
history == <<unsaved, orphan>>

CopyStages == {"check", "lock", "recheck", "permit", "download", "present", "copied", "failed"}
Ended == {"present", "copied", "failed"}
Frame == [m : Manifests, todo : Seq(Manifests)]
Task == [at : {"none", "list", "total", "fetch", "blobs", "store", "count", "repo", "done"},
         tags : Seq(Manifests), want : Manifests \cup {"none"}, stack : Seq(Frame),
         visited : SUBSET Manifests, copies : Seq(CopyStages), copied : Nat]
NoTask == [at |-> "none", tags |-> <<>>, want |-> "none", stack |-> <<>>, visited |-> {},
           copies |-> <<>>, copied |-> 0]
NewRow == [status |-> "none", repos_total |-> 0, repos_done |-> 0, tags_total |-> 0,
           tags_done |-> 0, blobs_done |-> 0]

Init ==
    /\ row = [j \in Jobs |-> NewRow]
    /\ job = [j \in Jobs |-> [at |-> "none", repos |-> {}]]
    /\ task = [j \in Jobs |-> [r \in Repos |-> NoTask]]
    /\ blobs \in SUBSET Blobs /\ stored = {}
    /\ fetched = [j \in Jobs |-> [b \in Blobs |-> 0]]
    /\ gone = {} /\ unsaved = {} /\ orphan = {} /\ faults = 0

Fault == faults < MaxFaults /\ faults' = faults + 1
Quiet == UNCHANGED faults
Goto(j, at) == job' = [job EXCEPT ![j].at = at]
Set(j, r, t) == task' = [task EXCEPT ![j][r] = t]

\* An update of the row by a task, which ignores its failure.
Update(j, new) ==
    \/ Quiet /\ row' = [row EXCEPT ![j] = new] /\ UNCHANGED history
    \/ Fault /\ unsaved' = unsaved \cup {j} /\ UNCHANGED <<row, orphan>>

-----------------------------------------------------------------------------
(***************************************************************************)
(* The job                                                                 *)
(***************************************************************************)
\* The row is written before the task is spawned.
StartImport(j) ==
    /\ row[j].status = "none"
    /\ row' = [row EXCEPT ![j].status = "running"]
    /\ Goto(j, "created")
    /\ Quiet /\ UNCHANGED <<task, content, history>>

Spawn(j) ==
    /\ job[j].at = "created"
    /\ Goto(j, "enumerate")
    /\ Quiet /\ UNCHANGED <<row, task, content, history>>

\* The client hangs up while the audit entry is written, before the spawn.
DropHandler(j) ==
    /\ job[j].at = "created"
    /\ Fault
    /\ Goto(j, "gone")
    /\ orphan' = orphan \cup {j}
    /\ UNCHANGED <<row, task, content, unsaved>>

\* Without repositories a generic upstream fails the job, a provider's completes it.
Enumerate(j) ==
    /\ job[j].at = "enumerate"
    /\ \/ Quiet /\ job' = [job EXCEPT ![j] = [at |-> "total", repos |-> Repos]]
       \/ Quiet /\ \E at \in {"total", "failed"} : Goto(j, at)
       \/ Fault /\ Goto(j, "failed")
    /\ UNCHANGED <<row, task, content, history>>

SetReposTotal(j) ==
    /\ job[j].at = "total"
    /\ \/ /\ Quiet /\ Goto(j, "copy")
          /\ row' = [row EXCEPT ![j].repos_total = Cardinality(job[j].repos)]
       \/ Fault /\ Goto(j, "failed") /\ UNCHANGED row
    /\ UNCHANGED <<task, content, history>>

\* Mutant: the copies are started and not waited for.
CompletedEarly(j) == \A r \in job[j].repos : task[j][r].at # "none"
Completed(j) == \A r \in job[j].repos : task[j][r].at = "done"

CopyDone(j) ==
    /\ job[j].at = "copy" /\ Completed(j)
    /\ Goto(j, "completed")
    /\ Quiet /\ UNCHANGED <<row, task, content, history>>

\* The last update; nothing follows when it fails.
FinishJob(j) ==
    /\ job[j].at \in {"completed", "failed"}
    /\ Goto(j, "gone")
    /\ \/ /\ Quiet /\ row' = [row EXCEPT ![j].status = job[j].at]
          /\ UNCHANGED orphan
       \/ Fault /\ orphan' = orphan \cup {j} /\ UNCHANGED row
    /\ UNCHANGED <<task, content, unsaved>>

\* Mutant: the rows that the last process left stay as they are.
KeepInterrupted(status) == status
\* Mutant: a status that no reader of the row knows.
MarkInterrupted(status) == IF status = "running" THEN "interrupted" ELSE status
FailInterrupted(status) == IF status = "running" THEN "failed" ELSE status

\* The process ends and starts again: the tasks are gone, and main fails the
\* rows they left before it serves.
Restart ==
    /\ Fault
    /\ row' = [j \in Jobs |-> [row[j] EXCEPT !.status = FailInterrupted(@)]]
    /\ job' = [j \in Jobs |-> [at |-> IF row[j].status = "none" THEN "none" ELSE "gone",
                               repos |-> {}]]
    /\ task' = [j \in Jobs |-> [r \in Repos |-> NoTask]]
    /\ orphan' = {}
    /\ UNCHANGED <<content, unsaved>>

-----------------------------------------------------------------------------
(***************************************************************************)
(* copy_repo                                                               *)
(***************************************************************************)
Active(j) == {r \in Repos : task[j][r].at \notin {"none", "done"}}

StartRepo(j, r) ==
    /\ job[j].at = "copy" /\ r \in job[j].repos
    /\ task[j][r].at = "none" /\ Cardinality(Active(j)) < Concurrency
    /\ Set(j, r, [NoTask EXCEPT !.at = "list"])
    /\ Quiet /\ UNCHANGED <<row, job, content, history>>

\* Mutant: a repository that is skipped is not counted.
ListTagsSilent(j, r) ==
    /\ task[j][r].at = "list"
    /\ \/ Quiet /\ Set(j, r, [task[j][r] EXCEPT !.at = "total", !.tags = Tagged[r]])
       \/ Fault /\ Set(j, r, [task[j][r] EXCEPT !.at = "done"])
    /\ UNCHANGED <<row, job, content, history>>

\* A listing that fails skips the repository.
ListTags(j, r) ==
    /\ task[j][r].at = "list"
    /\ \/ Quiet /\ Set(j, r, [task[j][r] EXCEPT !.at = "total", !.tags = Tagged[r]])
       \/ Fault /\ Set(j, r, [task[j][r] EXCEPT !.at = "repo"])
    /\ UNCHANGED <<row, job, content, history>>

\* Mutant: the visited set is that of the repository.
NextTagVisited(t) ==
    IF t.tags = <<>> THEN [t EXCEPT !.at = "repo"]
    ELSE [t EXCEPT !.at = "fetch", !.want = Head(t.tags), !.tags = Tail(t.tags),
                   !.copied = 0, !.stack = <<>>]
\* The next tag, with a visited set of its own, or the end of the repository.
NextTag(t) ==
    IF t.tags = <<>> THEN [t EXCEPT !.at = "repo"]
    ELSE [t EXCEPT !.at = "fetch", !.want = Head(t.tags), !.tags = Tail(t.tags),
                   !.visited = {}, !.copied = 0, !.stack = <<>>]

AddTagsTotal(j, r) ==
    /\ task[j][r].at = "total"
    /\ Update(j, [row[j] EXCEPT !.tags_total = @ + Len(Tagged[r])])
    /\ Set(j, r, NextTag(task[j][r]))
    /\ UNCHANGED <<job, content>>

\* advance(0, 1, blobs, bytes): a tag that failed counts without its blobs.
CountTag(j, r) ==
    /\ task[j][r].at = "count"
    /\ Update(j, [row[j] EXCEPT !.tags_done = @ + 1, !.blobs_done = @ + task[j][r].copied])
    /\ Set(j, r, NextTag(task[j][r]))
    /\ UNCHANGED <<job, content>>

CountRepo(j, r) ==
    /\ task[j][r].at = "repo"
    /\ Update(j, [row[j] EXCEPT !.repos_done = @ + 1])
    /\ Set(j, r, [NoTask EXCEPT !.at = "done"])
    /\ UNCHANGED <<job, content>>

-----------------------------------------------------------------------------
(***************************************************************************)
(* copy_reference: the stack holds the indexes above the reference wanted  *)
(***************************************************************************)
\* An error leaves every call of the recursion.
Failed(t) == [t EXCEPT !.at = "count", !.copied = 0, !.stack = <<>>, !.copies = <<>>]

\* A call has returned: its caller goes on with its next child, or stores itself.
Resume(t) ==
    IF t.stack = <<>> THEN [t EXCEPT !.at = "count"]
    ELSE LET f == Last(t.stack) IN
         IF f.todo = <<>> THEN [t EXCEPT !.at = "store"]
         ELSE [t EXCEPT !.at = "fetch", !.want = Head(f.todo),
                        !.stack = Append(Front(@), [f EXCEPT !.todo = Tail(f.todo)])]

\* The manifest has come: an image copies its blobs, an index its children.
Enter(t) ==
    LET m == t.want
        u == [t EXCEPT !.visited = @ \cup {m},
                       !.stack = Append(@, [m |-> m, todo |-> Child[m]])]
    IN  IF m \in t.visited THEN Resume(t)
        ELSE IF Child[m] # <<>> THEN Resume(u)
        ELSE [u EXCEPT !.at = "blobs", !.copies = [i \in 1..Len(Desc[m]) |-> "check"]]

\* A 404, and a manifest visited before, return nothing; a wrong digest, bytes
\* that are no JSON and a depth over the limit are errors.
FetchReference(j, r) ==
    LET t == task[j][r] IN
    /\ t.at = "fetch"
    /\ \/ Quiet /\ Len(t.stack) <= MaxDepth /\ Set(j, r, Enter(t)) /\ UNCHANGED gone
       \/ Quiet /\ Len(t.stack) > MaxDepth /\ Set(j, r, Failed(t)) /\ UNCHANGED gone
       \/ /\ Fault /\ Len(t.stack) <= MaxDepth
          /\ \/ Set(j, r, Failed(t)) /\ UNCHANGED gone
             \/ Set(j, r, Resume(t)) /\ gone' = gone \cup {<<r, t.want>>}
    /\ UNCHANGED <<row, job, blobs, stored, fetched, history>>

\* join_all waits for every copy; then the first error surfaces.
JoinBlobs(j, r) ==
    LET t == task[j][r] IN
    /\ t.at = "blobs" /\ \A i \in DOMAIN t.copies : t.copies[i] \in Ended
    /\ Set(j, r, IF \E i \in DOMAIN t.copies : t.copies[i] = "failed" THEN Failed(t)
                 ELSE [t EXCEPT !.at = "store", !.copies = <<>>,
                    !.copied = @ + Cardinality({i \in DOMAIN t.copies : t.copies[i] = "copied"})])
    /\ Quiet /\ UNCHANGED <<row, job, content, history>>

StoreManifest(j, r) ==
    LET t == task[j][r] IN
    /\ t.at = "store"
    /\ \/ /\ Quiet /\ stored' = stored \cup {<<r, Last(t.stack).m>>}
          /\ Set(j, r, Resume([t EXCEPT !.stack = Front(@)]))
       \/ Fault /\ Set(j, r, Failed(t)) /\ UNCHANGED stored
    /\ UNCHANGED <<row, job, blobs, fetched, gone, history>>

-----------------------------------------------------------------------------
(***************************************************************************)
(* copy_blob_once                                                          *)
(***************************************************************************)
Blob(j, r, i) == Desc[Last(task[j][r].stack).m][i]
Copies(j) == UNION {{r} \X DOMAIN task[j][r].copies : r \in Repos}
InStages(j, stages) == {c \in Copies(j) : task[j][c[1]].copies[c[2]] \in stages}

\* Mutant: a copy that failed keeps the lock until its image is done.
LockFreeLate(j, b) ==
    \A c \in InStages(j, {"recheck", "permit", "download", "failed"}) : Blob(j, c[1], c[2]) # b
\* The guard of the digest is held from the second look to the end.
LockFree(j, b) ==
    \A c \in InStages(j, {"recheck", "permit", "download"}) : Blob(j, c[1], c[2]) # b

Step(j, r, i, from, to) ==
    /\ task[j][r].copies[i] = from
    /\ task' = [task EXCEPT ![j][r].copies[i] = to]
    /\ UNCHANGED <<row, job, stored, gone, history>>

\* blob_exists before the lock, and again under it.
Look(j, r, i, from, to) ==
    /\ \/ Quiet /\ Step(j, r, i, from, IF Blob(j, r, i) \in blobs THEN "present" ELSE to)
       \/ Fault /\ Step(j, r, i, from, "failed")
    /\ UNCHANGED <<blobs, fetched>>

CheckBlob(j, r, i) == Look(j, r, i, "check", "lock")

LockBlob(j, r, i) ==
    /\ Step(j, r, i, "lock", "recheck") /\ LockFree(j, Blob(j, r, i))
    /\ Quiet /\ UNCHANGED <<blobs, fetched>>

\* Mutant: no second look under the lock.
RecheckNothing(j, r, i) ==
    Step(j, r, i, "recheck", "permit") /\ Quiet /\ UNCHANGED <<blobs, fetched>>
RecheckBlob(j, r, i) == Look(j, r, i, "recheck", "permit")

Acquire(j, r, i) ==
    /\ Cardinality(InStages(j, {"download"})) < Concurrency
    /\ Step(j, r, i, "permit", "download")
    /\ Quiet /\ UNCHANGED <<blobs, fetched>>

\* cache_blob, which fails on the upstream, the bucket or the quota.
Download(j, r, i) ==
    \/ /\ Step(j, r, i, "download", "copied") /\ Quiet
       /\ blobs' = blobs \cup {Blob(j, r, i)}
       /\ fetched' = [fetched EXCEPT ![j][Blob(j, r, i)] = @ + 1]
    \/ Step(j, r, i, "download", "failed") /\ Fault /\ UNCHANGED <<blobs, fetched>>

-----------------------------------------------------------------------------
JobStep(j) ==
    Spawn(j) \/ Enumerate(j) \/ SetReposTotal(j) \/ CopyDone(j) \/ FinishJob(j)
RepoStep(j, r) ==
    \/ StartRepo(j, r) \/ ListTags(j, r) \/ AddTagsTotal(j, r) \/ CountTag(j, r)
    \/ CountRepo(j, r) \/ FetchReference(j, r) \/ JoinBlobs(j, r) \/ StoreManifest(j, r)
CopyStep(j, r, i) ==
    \/ CheckBlob(j, r, i) \/ LockBlob(j, r, i) \/ RecheckBlob(j, r, i)
    \/ Acquire(j, r, i) \/ Download(j, r, i)

\* What the tasks of a job do.
Work(j) ==
    \/ JobStep(j)
    \/ \E r \in Repos : RepoStep(j, r) \/ \E i \in DOMAIN task[j][r].copies : CopyStep(j, r, i)

Next == Restart \/ \E j \in Jobs : StartImport(j) \/ DropHandler(j) \/ Work(j)

Spec == Init /\ [][Next]_vars

\* A job goes on while any of its tasks can: calls to the upstream, the bucket and
\* SQLite return.  Which task is next is left open.
FairSpec == Spec /\ \A j \in Jobs : WF_vars(Work(j))

-----------------------------------------------------------------------------
(***************************************************************************)
(* Properties                                                              *)
(***************************************************************************)
TypeOK ==
    /\ row \in [Jobs -> [status : {"none", "running", "completed", "failed"},
            repos_total : Nat, repos_done : Nat, tags_total : Nat, tags_done : Nat,
            blobs_done : Nat]]
    /\ job \in [Jobs -> [at : {"none", "created", "enumerate", "total", "copy", "completed",
                               "failed", "gone"}, repos : SUBSET Repos]]
    /\ task \in [Jobs -> [Repos -> Task]]
    /\ blobs \in SUBSET Blobs /\ stored \in SUBSET (Repos \X Manifests)
    /\ fetched \in [Jobs -> [Blobs -> Nat]]
    /\ gone \in SUBSET (Repos \X Manifests)
    /\ unsaved \in SUBSET Jobs /\ orphan \in SUBSET Jobs /\ faults \in 0..MaxFaults

\* A blob that images share is downloaded a single time by a job, however many of
\* its tasks want it (import.rs, "a base layer shared by many images is fetched a
\* single time").
FetchedOnce == \A j \in Jobs, b \in Blobs : fetched[j][b] <= 1

\* A manifest is stored after everything it depends on, whatever failed on the way
\* (import.rs, "Store this manifest (image or index) last, after its dependencies
\* exist"), but for a child that the upstream answered 404 for.
StoredWithDependencies ==
    \A r \in Repos, m \in Manifests : <<r, m>> \in stored =>
        /\ Range(Desc[m]) \subseteq blobs
        /\ \A c \in Range(Child[m]) : <<r, c>> \in stored \cup gone

\* Progress: the counters a client polls never run past what was listed and what
\* was downloaded, and a completed job has done all of it, unless an update of the
\* row failed.
ProgressExact ==
    \A j \in Jobs \ unsaved :
        /\ row[j].repos_done <= row[j].repos_total /\ row[j].tags_done <= row[j].tags_total
        /\ row[j].blobs_done <= Cardinality({b \in Blobs : fetched[j][b] > 0})
        /\ row[j].status = "completed" =>
            row[j].repos_done = row[j].repos_total /\ row[j].tags_done = row[j].tags_total

\* A row that says running has a task, and one that says otherwise has none, unless
\* the start was hung up on or the last update failed since the server started.
RunningHasTask ==
    \A j \in Jobs \ orphan :
        row[j].status = "running" <=> job[j].at \notin {"none", "gone"}

\* The rows behave as ImportJob says: nothing in a row changes once its job ended.
Poll == INSTANCE ImportJob WITH
    status <- [j \in Jobs |-> row[j].status],
    total <- [j \in Jobs |-> row[j].repos_total],
    done <- [j \in Jobs |-> row[j].repos_done]
PollSpec == Poll!Spec

\* Every job ends, whatever fails in it and however its tasks wait for each other,
\* but for one whose start was hung up on or whose last update failed.
JobsEnd == \A j \in Jobs : row[j].status = "running" ~> row[j].status # "running" \/ j \in orphan
=============================================================================
