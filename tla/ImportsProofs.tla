---------------------------- MODULE ImportsProofs ----------------------------
(***************************************************************************)
(* Proofs about Imports, for any jobs, repositories, images and bounds:    *)
(* that a running row has its task, that the rows behave as ImportJob      *)
(* promises the clients that poll them, that the types hold, that a job    *)
(* downloads no blob twice, that a manifest is stored after everything it  *)
(* depends on, and that the counters of a row are exact.  One invariant    *)
(* builds on the other: IInv (rows and tasks), TInv (types), LInv (locks)  *)
(* and, beside it, SInv (stacks), and CInv (counters) on LInv.             *)
(***************************************************************************)
EXTENDS Imports, FiniteSetTheorems, SequenceTheorems, TLAPS

Row == [status : {"none", "running", "completed", "failed"}, repos_total : Nat, repos_done : Nat,
        tags_total : Nat, tags_done : Nat, blobs_done : Nat]
Job == [at : {"none", "created", "enumerate", "total", "copy", "completed", "failed", "gone"},
        repos : SUBSET Repos]

\* What a task needs besides its type: a reference to fetch, a manifest to store.
TaskOK(t) ==
    /\ t \in Task
    /\ t.at = "fetch" => t.want \in Manifests
    /\ t.at \in {"blobs", "store"} => t.stack # <<>>

Shape ==
    /\ row \in [Jobs -> Row] /\ job \in [Jobs -> Job]
    /\ task \in [Jobs -> [Repos -> Task]]
    /\ \A j \in Jobs, r \in Repos : TaskOK(task[j][r])

-----------------------------------------------------------------------------
(***************************************************************************)
(* The helpers of a task                                                   *)
(***************************************************************************)
LEMMA NoTaskOK == TaskOK(NoTask)
<1>1. <<>> \in Seq(Manifests) /\ <<>> \in Seq(Frame) /\ <<>> \in Seq(CopyStages)
  BY EmptySeq
<1> QED
  BY <1>1 DEF TaskOK, NoTask, Task

LEMMA NextTagOK ==
    ASSUME NEW t, TaskOK(t) PROVE TaskOK(NextTag(t)) /\ NextTag(t).at \in {"repo", "fetch"}
<1> USE DEF TaskOK
<1>1. CASE t.tags = <<>>
  BY <1>1 DEF NextTag, Task
<1>2. CASE t.tags # <<>>
  <2>1. Head(t.tags) \in Manifests /\ Tail(t.tags) \in Seq(Manifests)
    BY <1>2, HeadTailProperties DEF Task
  <2>2. <<>> \in Seq(Frame)
    BY EmptySeq
  <2> QED
    BY <1>2, <2>1, <2>2 DEF NextTag, Task
<1> QED
  BY <1>1, <1>2

LEMMA FailedOK == ASSUME NEW t, TaskOK(t) PROVE TaskOK(Failed(t)) /\ Failed(t).at = "count"
<1>1. <<>> \in Seq(Frame) /\ <<>> \in Seq(CopyStages)
  BY EmptySeq
<1> QED
  BY <1>1 DEF TaskOK, Failed, Task

\* The last frame of a stack, and the ones below it.
LEMMA StackOK ==
    ASSUME NEW s \in Seq(Frame), s # <<>> PROVE Last(s) \in Frame /\ Front(s) \in Seq(Frame)
<1>1. Len(s) \in Nat /\ Len(s) # 0 /\ \A i \in 1..Len(s) : s[i] \in Frame
  BY EmptySeq, LenProperties, ElementOfSeq
<1>2. Front(s) \in Seq(Frame)
  <2>1. 1 \in Int /\ Len(s) - 1 \in Int /\ \A i \in 1..(Len(s) - 1) : s[i] \in Frame
    BY <1>1
  <2> QED
    BY <2>1, SubSeqProperties DEF Front
<1> QED
  BY <1>1, <1>2 DEF Last

LEMMA ResumeOK ==
    ASSUME NEW t, t \in Task
    PROVE  TaskOK(Resume(t)) /\ Resume(t).at \in {"count", "fetch", "store"}
<1>1. CASE t.stack = <<>>
  BY <1>1 DEF Resume, TaskOK, Task
<1>2. CASE t.stack # <<>>
  <2> DEFINE f == Last(t.stack)
  <2>1. f \in Frame /\ Front(t.stack) \in Seq(Frame)
    BY <1>2, StackOK DEF Task
  <2> HIDE DEF f
  <2>2. CASE f.todo = <<>>
    BY <1>2, <2>1, <2>2 DEF Resume, TaskOK, Task, f
  <2>3. CASE f.todo # <<>>
    <3>1. Head(f.todo) \in Manifests /\ Tail(f.todo) \in Seq(Manifests)
      BY <2>1, <2>3, HeadTailProperties DEF Frame
    <3> DEFINE g == [f EXCEPT !.todo = Tail(@)]
               s == Append(Front(t.stack), g)
    <3>2. g \in Frame
      BY <2>1, <3>1 DEF Frame
    <3> HIDE DEF g
    <3>3. s \in Seq(Frame)
      BY <2>1, <3>2, AppendProperties
    <3>4. Resume(t) = [t EXCEPT !.at = "fetch", !.want = Head(f.todo), !.stack = s]
      BY <1>2, <2>3 DEF Resume, f, g
    <3> HIDE DEF s
    <3> QED
      BY <3>1, <3>3, <3>4 DEF TaskOK, Task
  <2> QED
    BY <2>2, <2>3
<1> QED
  BY <1>1, <1>2

LEMMA EnterOK ==
    ASSUME NEW t, TaskOK(t), t.at = "fetch"
    PROVE  TaskOK(Enter(t)) /\ Enter(t).at \in {"count", "fetch", "store", "blobs"}
<1> DEFINE m == t.want
           f == [m |-> m, todo |-> Child[m]]
           s == Append(t.stack, f)
           u == [t EXCEPT !.visited = @ \cup {m}, !.stack = s]
<1>1. t \in Task /\ m \in Manifests
  BY DEF TaskOK
<1>2. f \in Frame
  BY <1>1, ShapeAssumption DEF Frame
<1> HIDE DEF m, f
<1>3. s \in Seq(Frame) /\ s # <<>>
  BY <1>1, <1>2, AppendProperties DEF Task
<1>4. u \in Task /\ u.stack = s
  BY <1>1, <1>3 DEF Task
<1>5. CASE m \in t.visited
  BY <1>1, <1>5, ResumeOK DEF Enter, m
<1>6. CASE m \notin t.visited /\ Child[m] # <<>>
  <2>1. Enter(t) = Resume(u)
    BY <1>6 DEF Enter, m, f
  <2> HIDE DEF u
  <2> QED
    BY <1>4, <2>1, ResumeOK
<1>7. CASE m \notin t.visited /\ Child[m] = <<>>
  <2> DEFINE c == [i \in 1..Len(Desc[m]) |-> "check"]
  <2>1. Len(Desc[m]) \in Nat
    BY <1>1, ShapeAssumption, LenProperties
  <2>2. c \in Seq(CopyStages)
    BY <2>1 DEF CopyStages
  <2>3. Enter(t) = [u EXCEPT !.at = "blobs", !.copies = c]
    BY <1>7 DEF Enter, m, f
  <2> HIDE DEF u, c
  <2> QED
    BY <1>3, <1>4, <2>2, <2>3 DEF TaskOK, Task
<1> QED
  BY <1>5, <1>6, <1>7

-----------------------------------------------------------------------------
(***************************************************************************)
(* The inductive invariant: where a job's task is says what its row holds, *)
(* and copy tasks run only below a task that copies.                       *)
(***************************************************************************)
RowFits(j) ==
    /\ job[j].at = "none" <=> row[j].status = "none"
    /\ job[j].at \notin {"none", "gone"} => row[j].status = "running"
    /\ job[j].at = "gone" /\ row[j].status = "running" => j \in orphan
    /\ job[j].at \in {"none", "created", "enumerate", "total"} =>
        row[j].repos_total = 0 /\ row[j].repos_done = 0

CopiesBelow(j) ==
    \A r \in Repos : task[j][r].at \notin {"none", "done"} =>
        job[j].at = "copy" /\ r \in job[j].repos

IInv == Shape /\ \A j \in Jobs : RowFits(j) /\ CopiesBelow(j)

LEMMA InitIInv == Init => IInv
<1> SUFFICES ASSUME Init PROVE IInv
  OBVIOUS
<1>1. NewRow \in Row
  BY DEF NewRow, Row
<1>2. [at |-> "none", repos |-> {}] \in Job
  BY DEF Job
<1>3. \A j \in Jobs, r \in Repos : task[j][r] = NoTask
  BY DEF Init
<1>4. Shape
  BY <1>1, <1>2, <1>3, NoTaskOK DEF Init, Shape, TaskOK
<1>5. \A j \in Jobs : RowFits(j) /\ CopiesBelow(j)
  BY <1>3 DEF Init, RowFits, CopiesBelow, NewRow, NoTask
<1> QED
  BY <1>4, <1>5 DEF IInv

\* What a step means to the client that polls job j.
Polled(j) ==
    \/ row[j].status = "none" /\ row'[j].status = "running"
        /\ row'[j].repos_total = row[j].repos_total /\ row'[j].repos_done = row[j].repos_done
    \/ row[j].status = "running" /\ row'[j].status = row[j].status
        /\ row[j].repos_total = 0 /\ row[j].repos_done = 0 /\ row'[j].repos_done = 0
    \/ row[j].status = "running" /\ row'[j].status = row[j].status
        /\ row'[j].repos_total = row[j].repos_total
        /\ row'[j].repos_done = row[j].repos_done + 1
    \/ row[j].status = "running" /\ row'[j].status \in {"completed", "failed"}
        /\ row'[j].repos_total = row[j].repos_total /\ row'[j].repos_done = row[j].repos_done
    \/ row'[j].status = row[j].status
        /\ row'[j].repos_total = row[j].repos_total /\ row'[j].repos_done = row[j].repos_done

-----------------------------------------------------------------------------
(***************************************************************************)
(* A step of a copy task: it sets its own task, and at most the counters   *)
(* of its job's row.                                                       *)
(***************************************************************************)
LEMMA CopyMove ==
    ASSUME IInv, NEW j \in Jobs, NEW r \in Repos, NEW t, TaskOK(t), Set(j, r, t),
           UNCHANGED <<job, orphan>>,
           t.at \notin {"none", "done"} => job[j].at = "copy" /\ r \in job[j].repos,
           \/ UNCHANGED row
           \/ \E new \in Row :
                /\ row' = [row EXCEPT ![j] = new]
                /\ new.status = row[j].status /\ new.repos_total = row[j].repos_total
                /\ \/ new.repos_done = row[j].repos_done
                   \/ job[j].at = "copy" /\ new.repos_done = row[j].repos_done + 1
    PROVE  IInv' /\ \A k \in Jobs : Polled(k)
<1>1. /\ task' \in [Jobs -> [Repos -> Task]]
      /\ \A k \in Jobs, q \in Repos : task'[k][q] = IF k = j /\ q = r THEN t ELSE task[k][q]
  BY DEF IInv, Shape, Set, TaskOK
<1>2. /\ row' \in [Jobs -> Row]
      /\ \A k \in Jobs :
            /\ row'[k].status = row[k].status /\ row'[k].repos_total = row[k].repos_total
            /\ \/ row'[k].repos_done = row[k].repos_done
               \/ job[k].at = "copy" /\ row'[k].repos_done = row[k].repos_done + 1
  BY DEF IInv, Shape
<1>3. Shape'
  BY <1>1, <1>2 DEF IInv, Shape, TaskOK
<1>4. \A k \in Jobs : RowFits(k)'
  BY <1>2 DEF IInv, RowFits
<1>5. \A k \in Jobs : CopiesBelow(k)'
  BY <1>1 DEF IInv, CopiesBelow
<1>6. \A k \in Jobs : Polled(k)
  BY <1>2 DEF IInv, RowFits, Polled
<1> QED
  BY <1>3, <1>4, <1>5, <1>6 DEF IInv

\* An update of the row that leaves what the client is told of repositories.
LEMMA TagsUpdate ==
    ASSUME IInv, NEW j \in Jobs, NEW new \in Row, Update(j, new),
           new.status = row[j].status, new.repos_total = row[j].repos_total,
           \/ new.repos_done = row[j].repos_done
           \/ job[j].at = "copy" /\ new.repos_done = row[j].repos_done + 1
    PROVE  /\ UNCHANGED orphan
           /\ \/ UNCHANGED row
              \/ \E n \in Row :
                    /\ row' = [row EXCEPT ![j] = n]
                    /\ n.status = row[j].status /\ n.repos_total = row[j].repos_total
                    /\ \/ n.repos_done = row[j].repos_done
                       \/ job[j].at = "copy" /\ n.repos_done = row[j].repos_done + 1
BY DEF Update, history

\* The counters and the task after a tag and after the blobs of an image.
LEMMA CountedOK ==
    ASSUME NEW w \in Row, NEW c \in Nat
    PROVE  LET new == [w EXCEPT !.tags_done = @ + 1, !.blobs_done = @ + c] IN
           /\ new \in Row /\ new.status = w.status /\ new.repos_total = w.repos_total
           /\ new.repos_done = w.repos_done
<1>1. w.tags_done + 1 \in Nat /\ w.blobs_done + c \in Nat
  BY DEF Row
<1> QED
  BY <1>1 DEF Row

LEMMA JoinedOK ==
    ASSUME NEW t \in Task, NEW n \in Nat, t.stack # <<>>
    PROVE  TaskOK([t EXCEPT !.at = "store", !.copies = <<>>, !.copied = @ + n])
<1>1. <<>> \in Seq(CopyStages) /\ t.copied + n \in Nat
  BY EmptySeq DEF Task
<1> DEFINE c == t.copied + n
<1> HIDE DEF c
<1>2. [t EXCEPT !.at = "store", !.copies = <<>>, !.copied = c] \in Task
  BY <1>1 DEF Task, c
<1>3. [t EXCEPT !.at = "store", !.copies = <<>>, !.copied = c].stack = t.stack
      /\ [t EXCEPT !.at = "store", !.copies = <<>>, !.copied = c].at = "store"
  BY DEF Task
<1> QED
  BY <1>2, <1>3 DEF TaskOK, c

LEMMA RepoMoves ==
    ASSUME IInv, NEW j \in Jobs, NEW r \in Repos, RepoStep(j, r)
    PROVE  IInv' /\ \A k \in Jobs : Polled(k)
<1> DEFINE t == task[j][r]
<1>1. TaskOK(t) /\ t \in Task /\ row[j] \in Row
  BY DEF IInv, Shape
<1>2. t.at \notin {"none", "done"} => job[j].at = "copy" /\ r \in job[j].repos
  BY DEF IInv, CopiesBelow
<1>3. CASE StartRepo(j, r)
  <2> DEFINE u == [NoTask EXCEPT !.at = "list"]
  <2>1. TaskOK(u) /\ u.at = "list"
    BY NoTaskOK DEF TaskOK, Task, NoTask
  <2> HIDE DEF u
  <2>2. /\ Set(j, r, u) /\ job[j].at = "copy" /\ r \in job[j].repos
        /\ UNCHANGED <<row, job, orphan>>
    BY <1>3 DEF StartRepo, history, u
  <2> QED
    BY <2>1, <2>2, CopyMove
<1>4. CASE ListTags(j, r)
  <2> DEFINE u == [t EXCEPT !.at = "total", !.tags = Tagged[r]]
             v == [t EXCEPT !.at = "repo"]
  <2>1. TaskOK(u) /\ TaskOK(v)
    BY <1>1, ShapeAssumption DEF TaskOK, Task
  <2>2. (Set(j, r, u) \/ Set(j, r, v)) /\ t.at = "list" /\ UNCHANGED <<row, job, orphan>>
    BY <1>4 DEF ListTags, history
  <2> HIDE DEF u, v
  <2> QED
    BY <1>2, <2>1, <2>2, CopyMove
<1>5. CASE AddTagsTotal(j, r)
  <2> DEFINE u == NextTag(t)
             new == [row[j] EXCEPT !.tags_total = @ + Len(Tagged[r])]
  <2>1. t.at = "total" /\ Update(j, new) /\ Set(j, r, u) /\ UNCHANGED job
    BY <1>5 DEF AddTagsTotal
  <2>2. Len(Tagged[r]) \in Nat
    BY ShapeAssumption, LenProperties
  <2>3. new \in Row /\ new.status = row[j].status /\ new.repos_total = row[j].repos_total
        /\ new.repos_done = row[j].repos_done
    BY <1>1, <2>2 DEF Row
  <2>4. TaskOK(u)
    BY <1>1, NextTagOK
  <2> HIDE DEF new, u
  <2> QED
    BY <1>2, <2>1, <2>3, <2>4, TagsUpdate, CopyMove
<1>6. CASE CountTag(j, r)
  <2> DEFINE u == NextTag(t)
             new == [row[j] EXCEPT !.tags_done = @ + 1, !.blobs_done = @ + t.copied]
  <2>1. t.at = "count" /\ Update(j, new) /\ Set(j, r, u) /\ UNCHANGED job
    BY <1>6 DEF CountTag
  <2>2. new \in Row /\ new.status = row[j].status /\ new.repos_total = row[j].repos_total
        /\ new.repos_done = row[j].repos_done
    <3> DEFINE c == t.copied
    <3>1. c \in Nat
      BY <1>1 DEF Task
    <3> HIDE DEF c
    <3> QED
      BY <1>1, <3>1, CountedOK DEF c
  <2>3. TaskOK(u)
    BY <1>1, NextTagOK
  <2> HIDE DEF new, u
  <2> QED
    BY <1>2, <2>1, <2>2, <2>3, TagsUpdate, CopyMove
<1>7. CASE CountRepo(j, r)
  <2> DEFINE u == [NoTask EXCEPT !.at = "done"]
             new == [row[j] EXCEPT !.repos_done = @ + 1]
  <2>1. t.at = "repo" /\ Update(j, new) /\ Set(j, r, u) /\ UNCHANGED job
    BY <1>7 DEF CountRepo
  <2>2. new \in Row /\ new.status = row[j].status /\ new.repos_total = row[j].repos_total
        /\ new.repos_done = row[j].repos_done + 1
    BY <1>1 DEF Row
  <2>3. TaskOK(u) /\ u.at = "done"
    BY NoTaskOK DEF TaskOK, Task, NoTask
  <2> HIDE DEF new, u
  <2> QED
    BY <1>2, <2>1, <2>2, <2>3, TagsUpdate, CopyMove
<1>8. CASE FetchReference(j, r)
  <2>1. t.at = "fetch" /\ UNCHANGED <<row, job, orphan>>
    BY <1>8 DEF FetchReference, history
  <2>2. Set(j, r, Enter(t)) \/ Set(j, r, Failed(t)) \/ Set(j, r, Resume(t))
    BY <1>8 DEF FetchReference
  <2>3. TaskOK(Enter(t)) /\ TaskOK(Failed(t)) /\ TaskOK(Resume(t))
    BY <1>1, <2>1, EnterOK, FailedOK, ResumeOK
  <2> QED
    BY <1>2, <2>1, <2>2, <2>3, CopyMove
<1>9. CASE JoinBlobs(j, r)
  <2> DEFINE n == Cardinality({i \in DOMAIN t.copies : t.copies[i] = "copied"})
             u == [t EXCEPT !.at = "store", !.copies = <<>>, !.copied = @ + n]
  <2>1. t.at = "blobs" /\ UNCHANGED <<row, job, orphan>>
        /\ (Set(j, r, u) \/ Set(j, r, Failed(t)))
    BY <1>9 DEF JoinBlobs, history
  <2>2. n \in Nat
    <3>1. DOMAIN t.copies = 1..Len(t.copies) /\ Len(t.copies) \in Nat
      BY <1>1, LenProperties DEF Task
    <3>2. IsFiniteSet(1..Len(t.copies))
      BY <3>1, FS_Interval
    <3>3. {i \in DOMAIN t.copies : t.copies[i] = "copied"} \subseteq 1..Len(t.copies)
      BY <3>1
    <3> QED
      BY <3>2, <3>3, FS_Subset, FS_CardinalityType
  <2>3. <<>> \in Seq(CopyStages)
    BY EmptySeq
  <2> HIDE DEF n
  <2>4. TaskOK(Failed(t))
    BY <1>1, FailedOK
  <2>5. TaskOK(u)
    BY <1>1, <2>1, <2>2, JoinedOK DEF TaskOK
  <2> HIDE DEF u
  <2> QED
    BY <1>2, <2>1, <2>4, <2>5, CopyMove
<1>10. CASE StoreManifest(j, r)
  <2> DEFINE u == [t EXCEPT !.stack = Front(@)]
  <2>1. t.at = "store" /\ UNCHANGED <<row, job, orphan>>
        /\ (Set(j, r, Resume(u)) \/ Set(j, r, Failed(t)))
    BY <1>10 DEF StoreManifest, history
  <2>2. t.stack \in Seq(Frame) /\ t.stack # <<>>
    BY <1>1, <2>1 DEF TaskOK, Task
  <2>3. Front(t.stack) \in Seq(Frame)
    BY <2>2, StackOK
  <2>4. u \in Task
    BY <1>1, <2>3 DEF Task
  <2> HIDE DEF u
  <2>5. TaskOK(Resume(u)) /\ TaskOK(Failed(t))
    BY <1>1, <2>4, ResumeOK, FailedOK
  <2> QED
    BY <1>2, <2>1, <2>5, CopyMove
<1> QED
  BY <1>3, <1>4, <1>5, <1>6, <1>7, <1>8, <1>9, <1>10 DEF RepoStep

LEMMA BlobMoves ==
    ASSUME IInv, NEW j \in Jobs, NEW r \in Repos, NEW i \in DOMAIN task[j][r].copies,
           CopyStep(j, r, i)
    PROVE  IInv' /\ \A k \in Jobs : Polled(k)
<1> DEFINE t == task[j][r]
<1>1. PICK from, to \in CopyStages : Step(j, r, i, from, to)
  BY DEF CopyStep, CheckBlob, LockBlob, RecheckBlob, Acquire, Download, Look, CopyStages
<1>2. TaskOK(t) /\ t \in Task
  BY DEF IInv, Shape
<1>3. t.at \notin {"none", "done"} => job[j].at = "copy" /\ r \in job[j].repos
  BY DEF IInv, CopiesBelow
<1> DEFINE c == [t.copies EXCEPT ![i] = to]
           u == [t EXCEPT !.copies = c]
<1>4. c \in Seq(CopyStages)
  BY <1>2, ExceptSeq DEF Task
<1>5. Set(j, r, u)
  BY <1>1, <1>2 DEF Step, Set, IInv, Shape
<1> HIDE DEF c
<1>6. TaskOK(u) /\ u.at = t.at
  BY <1>2, <1>4 DEF TaskOK, Task
<1>7. UNCHANGED <<row, job, orphan>>
  BY <1>1 DEF Step, history
<1> HIDE DEF u
<1> QED
  BY <1>3, <1>5, <1>6, <1>7, CopyMove

-----------------------------------------------------------------------------
(***************************************************************************)
(* A step of the job itself: it sets where its task is, and its row.       *)
(***************************************************************************)
LEMMA JobMove ==
    ASSUME IInv, NEW j \in Jobs, NEW new \in Row, NEW to \in Job,
           row' = [row EXCEPT ![j] = new], job' = [job EXCEPT ![j] = to], UNCHANGED task,
           orphan \subseteq orphan',
           RowFits(j)', CopiesBelow(j)', Polled(j)
    PROVE  IInv' /\ \A k \in Jobs : Polled(k)
<1>1. /\ row' \in [Jobs -> Row] /\ job' \in [Jobs -> Job]
      /\ \A k \in Jobs \ {j} : row'[k] = row[k] /\ job'[k] = job[k]
  BY DEF IInv, Shape
<1>2. Shape'
  BY <1>1 DEF IInv, Shape
<1>3. \A k \in Jobs : RowFits(k)'
  BY <1>1 DEF IInv, RowFits
<1>4. \A k \in Jobs : CopiesBelow(k)'
  BY <1>1 DEF IInv, CopiesBelow
<1>5. \A k \in Jobs : Polled(k)
  BY <1>1 DEF Polled
<1> QED
  BY <1>2, <1>3, <1>4, <1>5 DEF IInv

LEMMA JobMoves ==
    ASSUME IInv, NEW j \in Jobs, StartImport(j) \/ DropHandler(j) \/ JobStep(j)
    PROVE  IInv' /\ \A k \in Jobs : Polled(k)
<1> DEFINE R == row[j]
           J == job[j]
<1>1. /\ row \in [Jobs -> Row] /\ job \in [Jobs -> Job]
      /\ R \in Row /\ J \in Job /\ RowFits(j) /\ CopiesBelow(j)
  BY DEF IInv, Shape
<1>2. row = [row EXCEPT ![j] = R]
  BY <1>1
<1>3. CASE StartImport(j)
  <2> DEFINE new == [R EXCEPT !.status = "running"]
             to == [J EXCEPT !.at = "created"]
  <2>1. /\ R.status = "none" /\ UNCHANGED <<task, orphan>>
        /\ row' = [row EXCEPT ![j] = new] /\ job' = [job EXCEPT ![j] = to]
    BY <1>1, <1>3 DEF StartImport, Goto, history
  <2>2. new \in Row /\ to \in Job
    BY <1>1 DEF Row, Job
  <2>3. RowFits(j)' /\ CopiesBelow(j)' /\ Polled(j)
    BY <1>1, <2>1 DEF RowFits, CopiesBelow, Polled, Row, Job
  <2> HIDE DEF new, to
  <2> QED
    BY <2>1, <2>2, <2>3, JobMove
<1>4. CASE DropHandler(j) \/ Spawn(j) \/ CopyDone(j)
  <2>1. PICK at \in {"gone", "enumerate", "completed"} :
            /\ job' = [job EXCEPT ![j].at = at] /\ UNCHANGED <<row, task>>
            /\ \/ at = "enumerate" /\ J.at = "created" /\ UNCHANGED orphan
               \/ at = "gone" /\ J.at = "created" /\ orphan' = orphan \cup {j}
               \/ at = "completed" /\ J.at = "copy" /\ UNCHANGED orphan
                    /\ \A r \in J.repos : task[j][r].at = "done"
    BY <1>4 DEF DropHandler, Spawn, CopyDone, Completed, Goto, history
  <2> DEFINE to == [J EXCEPT !.at = at]
  <2>2. to \in Job /\ job' = [job EXCEPT ![j] = to]
    BY <1>1, <2>1 DEF Job
  <2>3. RowFits(j)' /\ CopiesBelow(j)' /\ Polled(j)
    BY <1>1, <2>1 DEF RowFits, CopiesBelow, Polled, Row, Job
  <2> HIDE DEF to
  <2> QED
    BY <1>1, <1>2, <2>1, <2>2, <2>3, JobMove
<1>5. CASE Enumerate(j)
  <2>1. PICK to \in Job :
            /\ job' = [job EXCEPT ![j] = to] /\ UNCHANGED <<row, task, orphan>>
            /\ J.at = "enumerate" /\ to.at \in {"total", "failed"}
    <3>1. UNCHANGED <<row, task, orphan>> /\ J.at = "enumerate"
      BY <1>5 DEF Enumerate, history
    <3>2. CASE job' = [job EXCEPT ![j] = [at |-> "total", repos |-> Repos]]
      <4>1. [at |-> "total", repos |-> Repos] \in Job
        BY DEF Job
      <4> QED
        BY <3>1, <3>2, <4>1
    <3>3. CASE \E at \in {"total", "failed"} : Goto(j, at)
      <4>1. PICK at \in {"total", "failed"} : Goto(j, at)
        BY <3>3
      <4>2. [J EXCEPT !.at = at] \in Job /\ [J EXCEPT !.at = at].at = at
        BY <1>1 DEF Job
      <4>3. job' = [job EXCEPT ![j] = [J EXCEPT !.at = at]]
        BY <1>1, <4>1 DEF Goto
      <4> QED
        BY <3>1, <4>2, <4>3
    <3> QED
      BY <1>5, <3>2, <3>3 DEF Enumerate
  <2>2. RowFits(j)' /\ CopiesBelow(j)' /\ Polled(j)
    BY <1>1, <2>1 DEF RowFits, CopiesBelow, Polled, Row
  <2> QED
    BY <1>1, <1>2, <2>1, <2>2, JobMove
<1>6. CASE SetReposTotal(j)
  <2>1. PICK new \in Row, at \in {"copy", "failed"} :
            /\ row' = [row EXCEPT ![j] = new] /\ job' = [job EXCEPT ![j].at = at]
            /\ J.at = "total" /\ UNCHANGED <<task, orphan>>
            /\ new.status = R.status /\ new.repos_done = R.repos_done
            /\ at = "copy" \/ UNCHANGED row
    <3>1. J.at = "total" /\ UNCHANGED <<task, orphan>>
      BY <1>6 DEF SetReposTotal, history
    <3>2. CASE Goto(j, "failed") /\ UNCHANGED row
      BY <1>1, <1>2, <3>1, <3>2 DEF Goto
    <3>3. CASE Goto(j, "copy")
              /\ row' = [row EXCEPT ![j].repos_total = Cardinality(job[j].repos)]
      <4> DEFINE n == Cardinality(job[j].repos)
      <4>1. n \in Nat
        BY <1>1, ReposFinite, FS_Subset, FS_CardinalityType DEF Job
      <4> HIDE DEF n
      <4>2. [R EXCEPT !.repos_total = n] \in Row
        BY <1>1, <4>1 DEF Row
      <4>3. row' = [row EXCEPT ![j] = [R EXCEPT !.repos_total = n]]
        BY <1>1, <3>3 DEF n
      <4>4. /\ [R EXCEPT !.repos_total = n].status = R.status
            /\ [R EXCEPT !.repos_total = n].repos_done = R.repos_done
        BY <1>1 DEF Row
      <4> QED
        BY <3>1, <3>3, <4>2, <4>3, <4>4 DEF Goto
    <3> QED
      BY <1>6, <3>2, <3>3 DEF SetReposTotal
  <2> DEFINE to == [J EXCEPT !.at = at]
  <2>2. to \in Job /\ job' = [job EXCEPT ![j] = to]
    BY <1>1, <2>1 DEF Job
  <2>3. RowFits(j)' /\ CopiesBelow(j)' /\ Polled(j)
    BY <1>1, <2>1 DEF RowFits, CopiesBelow, Polled, Row, Job
  <2> HIDE DEF to
  <2> QED
    BY <2>1, <2>2, <2>3, JobMove
<1>7. CASE FinishJob(j)
  <2>1. PICK new \in Row :
            /\ row' = [row EXCEPT ![j] = new] /\ job' = [job EXCEPT ![j].at = "gone"]
            /\ J.at \in {"completed", "failed"} /\ UNCHANGED task
            /\ new.repos_total = R.repos_total /\ new.repos_done = R.repos_done
            /\ \/ new.status = J.at /\ UNCHANGED orphan
               \/ new.status = R.status /\ orphan' = orphan \cup {j}
    <3>1. /\ job' = [job EXCEPT ![j].at = "gone"]
          /\ J.at \in {"completed", "failed"} /\ UNCHANGED task
      BY <1>7 DEF FinishJob, Goto
    <3>2. CASE orphan' = orphan \cup {j} /\ UNCHANGED row
      BY <1>1, <1>2, <3>1, <3>2
    <3>3. CASE row' = [row EXCEPT ![j].status = job[j].at] /\ UNCHANGED orphan
      <4> DEFINE new == [R EXCEPT !.status = J.at]
      <4>1. new \in Row /\ new.status = J.at /\ new.repos_total = R.repos_total
            /\ new.repos_done = R.repos_done
        BY <1>1, <3>1 DEF Row
      <4>2. row' = [row EXCEPT ![j] = new]
        BY <1>1, <3>3
      <4> HIDE DEF new
      <4> QED
        BY <3>1, <3>3, <4>1, <4>2
    <3> QED
      BY <1>7, <3>2, <3>3 DEF FinishJob
  <2> DEFINE to == [J EXCEPT !.at = "gone"]
  <2>2. to \in Job /\ job' = [job EXCEPT ![j] = to]
    BY <1>1, <2>1 DEF Job
  <2>3. RowFits(j)' /\ CopiesBelow(j)' /\ Polled(j)
    BY <1>1, <2>1 DEF RowFits, CopiesBelow, Polled, Row, Job
  <2> HIDE DEF to
  <2> QED
    BY <2>1, <2>2, <2>3, JobMove
<1> QED
  BY <1>3, <1>4, <1>5, <1>6, <1>7 DEF JobStep

LEMMA RestartMove == ASSUME IInv, Restart PROVE IInv' /\ \A k \in Jobs : Polled(k)
<1>1. \A j \in Jobs : row[j] \in Row /\ RowFits(j)
  BY DEF IInv, Shape
<1>2. \A j \in Jobs : /\ row'[j] = [row[j] EXCEPT !.status = FailInterrupted(row[j].status)]
                      /\ job'[j].at = IF row[j].status = "none" THEN "none" ELSE "gone"
                      /\ \A r \in Repos : task'[j][r] = NoTask
  BY DEF Restart
<1>3. \A j \in Jobs : /\ row'[j] \in Row
                      /\ row'[j].repos_total = row[j].repos_total
                      /\ row'[j].repos_done = row[j].repos_done
                      /\ row'[j].status = FailInterrupted(row[j].status)
  BY <1>1, <1>2 DEF FailInterrupted, Row
<1>4. job' \in [Jobs -> Job]
  BY DEF Restart, Job
<1>5. row' \in [Jobs -> Row]
  BY <1>3 DEF Restart
<1>6. task' \in [Jobs -> [Repos -> Task]] /\ TaskOK(NoTask)
  BY NoTaskOK DEF Restart, TaskOK
<1>7. Shape'
  BY <1>2, <1>4, <1>5, <1>6, NoTaskOK DEF Shape, TaskOK
<1>8. \A j \in Jobs : RowFits(j)'
  <2> SUFFICES ASSUME NEW j \in Jobs PROVE RowFits(j)'
    OBVIOUS
  <2>1. job'[j].at = IF row[j].status = "none" THEN "none" ELSE "gone"
    BY <1>2
  <2>2. row[j].status = "none" => row'[j].repos_total = 0 /\ row'[j].repos_done = 0
    BY <1>1, <1>3 DEF RowFits
  <2>3. row'[j].status = IF row[j].status = "running" THEN "failed" ELSE row[j].status
    BY <1>3 DEF FailInterrupted
  <2>4. CASE row[j].status = "none"
    BY <2>1, <2>2, <2>3, <2>4 DEF RowFits
  <2>5. CASE row[j].status # "none"
    <3>1. job'[j].at = "gone" /\ row'[j].status # "none" /\ row'[j].status # "running"
      BY <2>1, <2>3, <2>5
    <3> QED
      BY <3>1 DEF RowFits
  <2> QED
    BY <2>4, <2>5
<1>9. \A j \in Jobs : CopiesBelow(j)'
  <2>1. NoTask.at = "none"
    BY DEF NoTask
  <2> QED
    BY <1>2, <2>1 DEF CopiesBelow
<1>10. \A j \in Jobs : Polled(j)
  BY <1>1, <1>3 DEF Polled, FailInterrupted
<1> QED
  BY <1>7, <1>8, <1>9, <1>10 DEF IInv

LEMMA StepIInv == ASSUME IInv, [Next]_vars PROVE IInv' /\ \A j \in Jobs : Polled(j)
<1>1. CASE UNCHANGED vars
  BY <1>1 DEF vars, history, content, IInv, Shape, RowFits, CopiesBelow, Polled
<1>2. CASE Next
  BY <1>2, RestartMove, JobMoves, RepoMoves, BlobMoves DEF Next, Work
<1> QED
  BY <1>1, <1>2

LEMMA Invariance == Spec => []IInv
<1>1. IInv /\ [Next]_vars => IInv'
  BY StepIInv
<1> QED
  BY InitIInv, <1>1, PTL DEF Spec

-----------------------------------------------------------------------------
\* A row that says running has a task, and a task a row that says running, whatever
\* the jobs, the repositories and the bounds (import.rs, db/imports.rs).
THEOREM TaskOfRunning == Spec => []RunningHasTask
<1>1. IInv => RunningHasTask
  BY DEF IInv, RowFits, RunningHasTask
<1> QED
  BY Invariance, <1>1, PTL

\* Imports implement ImportJob: a client that polls a job sees its total become
\* known before any progress, its progress only grow, and nothing change once it
\* has ended, also over a restart.
THEOREM Refinement == Spec => PollSpec
<1>1. Init => Poll!Init
  BY DEF Init, NewRow, Poll!Init
<1>2. ASSUME IInv, [Next]_vars PROVE Poll!Next
  <2>1. \A j \in Jobs : Polled(j)
    BY <1>2, StepIInv
  <2> QED
    BY <2>1 DEF Polled, Poll!Next, Poll!Create, Poll!Plan, Poll!Advance, Poll!End, Poll!Stay,
                Poll!Same
<1>3. IInv /\ [Next]_vars => [Poll!Next]_Poll!vars
  BY <1>2
<1> QED
  BY <1>1, <1>3, Invariance, PTL DEF Spec, PollSpec, Poll!Spec

-----------------------------------------------------------------------------
(***************************************************************************)
(* What is copied: the copies of a task are those of the image on top of   *)
(* its stack, so that everything it stores and downloads exists.           *)
(***************************************************************************)
\* Copies run only while the blobs of an image are copied, one for each of them.
CopiesFit(t) ==
    /\ t.at # "blobs" => t.copies = <<>>
    /\ t.at = "blobs" => Len(t.copies) = Len(Desc[Last(t.stack).m])

Content ==
    /\ blobs \in SUBSET Blobs /\ stored \in SUBSET (Repos \X Manifests)
    /\ fetched \in [Jobs -> [Blobs -> Nat]] /\ gone \in SUBSET (Repos \X Manifests)
    /\ unsaved \in SUBSET Jobs /\ orphan \in SUBSET Jobs /\ faults \in 0..MaxFaults

TInv == IInv /\ Content /\ \A j \in Jobs, r \in Repos : CopiesFit(task[j][r])

\* The blob that copy i of a task wants.
Wants(t, i) == Desc[Last(t.stack).m][i]

\* What a step of a copy task leaves of the copies in its image.
NoneBegun(t) == CopiesFit(t) /\ \A i \in DOMAIN t.copies : t.copies[i] = "check"

LEMMA Wanted ==
    ASSUME NEW t, TaskOK(t), CopiesFit(t), NEW i \in DOMAIN t.copies
    PROVE  /\ t.at = "blobs" /\ Last(t.stack) \in Frame /\ Last(t.stack).m \in Manifests
           /\ i \in DOMAIN Desc[Last(t.stack).m] /\ Wants(t, i) \in Blobs
<1>1. t.at = "blobs"
  <2>1. DOMAIN <<>> = {}
    OBVIOUS
  <2> QED
    BY <2>1 DEF CopiesFit
<1>2. Last(t.stack) \in Frame
  BY <1>1, StackOK DEF TaskOK, Task
<1> DEFINE m == Last(t.stack).m
<1>3. m \in Manifests
  BY <1>2 DEF Frame
<1>4. Desc[m] \in Seq(Blobs) /\ t.copies \in Seq(CopyStages)
  BY <1>3, ShapeAssumption DEF TaskOK, Task
<1>5. DOMAIN t.copies = 1..Len(t.copies) /\ DOMAIN Desc[m] = 1..Len(Desc[m])
  BY <1>4, LenProperties
<1>6. Len(t.copies) = Len(Desc[m])
  BY <1>1 DEF CopiesFit
<1>7. i \in DOMAIN Desc[m]
  BY <1>5, <1>6
<1>8. Desc[m][i] \in Blobs
  BY <1>4, <1>5, <1>7, ElementOfSeq
<1> QED
  BY <1>1, <1>2, <1>3, <1>7, <1>8 DEF Wants

LEMMA ResumeCopies ==
    ASSUME NEW t, t \in Task
    PROVE  Resume(t).copies = t.copies /\ Resume(t).at # "blobs" /\ Resume(t).visited = t.visited
           /\ Resume(t).copied = t.copied /\ Resume(t).tags = t.tags
BY DEF Resume, Task

LEMMA EnterCopies ==
    ASSUME NEW t, TaskOK(t), t.at = "fetch", t.copies = <<>>
    PROVE  NoneBegun(Enter(t))
<1> DEFINE m == t.want
           f == [m |-> m, todo |-> Child[m]]
           s == Append(t.stack, f)
           u == [t EXCEPT !.visited = @ \cup {m}, !.stack = s]
<1>1. t \in Task /\ m \in Manifests /\ f \in Frame
  BY ShapeAssumption DEF TaskOK, Frame
<1> HIDE DEF m, f
<1>2. /\ s \in Seq(Frame) /\ Last(s) = f
  <2>1. t.stack \in Seq(Frame)
    BY <1>1 DEF Task
  <2>2. s \in Seq(Frame) /\ Len(s) = Len(t.stack) + 1 /\ s[Len(t.stack) + 1] = f
    BY <1>1, <2>1, AppendProperties
  <2> QED
    BY <2>2 DEF Last
<1>3. u \in Task /\ u.stack = s /\ u.copies = <<>>
  BY <1>1, <1>2 DEF Task
<1>4. CASE m \in t.visited \/ Child[m] # <<>>
  <2>1. Enter(t) = Resume(t) \/ Enter(t) = Resume(u)
    BY <1>4 DEF Enter, m, f
  <2> HIDE DEF u
  <2>2. Enter(t).copies = <<>> /\ Enter(t).at # "blobs"
    BY <1>1, <1>3, <2>1, ResumeCopies
  <2> QED
    BY <2>2 DEF NoneBegun, CopiesFit
<1>5. CASE m \notin t.visited /\ Child[m] = <<>>
  <2> DEFINE c == [i \in 1..Len(Desc[m]) |-> "check"]
  <2>1. Len(Desc[m]) \in Nat
    BY <1>1, ShapeAssumption, LenProperties
  <2>2. Len(c) = Len(Desc[m]) /\ \A i \in DOMAIN c : c[i] = "check"
    BY <2>1
  <2>3. Enter(t) = [u EXCEPT !.at = "blobs", !.copies = c]
    BY <1>5 DEF Enter, m, f
  <2> HIDE DEF u, c, s
  <2>4. Enter(t).at = "blobs" /\ Enter(t).copies = c /\ Enter(t).stack = s
    BY <1>3, <2>3 DEF Task
  <2>5. f.m = m
    BY DEF f
  <2> QED
    BY <1>2, <2>2, <2>4, <2>5 DEF NoneBegun, CopiesFit
<1> QED
  BY <1>4, <1>5

\* What a step of a copy task leaves of the task, and of the others.
LEMMA RepoTask ==
    ASSUME TInv, NEW j \in Jobs, NEW r \in Repos, RepoStep(j, r)
    PROVE  /\ TaskOK(task'[j][r]) /\ NoneBegun(task'[j][r])
           /\ \A k \in Jobs, q \in Repos : <<k, q>> # <<j, r>> => task'[k][q] = task[k][q]
           /\ IInv' /\ UNCHANGED <<blobs, fetched, job>>
<1> DEFINE t == task[j][r]
           Goal == /\ TaskOK(task'[j][r]) /\ NoneBegun(task'[j][r])
                   /\ \A k \in Jobs, q \in Repos : <<k, q>> # <<j, r>> => task'[k][q] = task[k][q]
<1>1. IInv'
  BY RepoMoves DEF TInv
<1>2. TaskOK(t) /\ t \in Task /\ CopiesFit(t)
  BY DEF TInv, IInv, Shape
<1>3. ASSUME NEW u, Set(j, r, u)
      PROVE  task'[j][r] = u /\
             \A k \in Jobs, q \in Repos : <<k, q>> # <<j, r>> => task'[k][q] = task[k][q]
  BY <1>3 DEF Set, TInv, IInv, Shape
<1>4. UNCHANGED <<blobs, fetched, job>>
  BY DEF RepoStep, StartRepo, ListTags, AddTagsTotal, CountTag, CountRepo, FetchReference,
         JoinBlobs, StoreManifest, content
<1>5. ASSUME NEW u, Set(j, r, u), u.copies = <<>>, u.at # "blobs" PROVE Goal
  BY <1>1, <1>3, <1>4, <1>5 DEF NoneBegun, CopiesFit, IInv, Shape
<1>16. ASSUME NEW u, Set(j, r, u), NoneBegun(u) PROVE Goal
  BY <1>1, <1>3, <1>4, <1>16 DEF IInv, Shape
<1> SUFFICES Goal
  BY <1>1, <1>4
<1> HIDE DEF Goal
<1>6. t.at # "blobs" => t.copies = <<>>
  BY <1>2 DEF CopiesFit
<1>7. NextTag(t).copies = t.copies /\ NextTag(t).at # "blobs"
  BY <1>2 DEF NextTag, Task
<1>8. Failed(t).copies = <<>> /\ Failed(t).at # "blobs"
  BY <1>2 DEF Failed, Task
<1>9. CASE StartRepo(j, r) \/ CountRepo(j, r)
  <2> DEFINE u == [NoTask EXCEPT !.at = "list"]
             v == [NoTask EXCEPT !.at = "done"]
  <2>1. Set(j, r, u) \/ Set(j, r, v)
    BY <1>9 DEF StartRepo, CountRepo
  <2>2. u.copies = <<>> /\ v.copies = <<>> /\ u.at = "list" /\ v.at = "done"
    BY DEF NoTask
  <2> HIDE DEF u, v
  <2> QED
    BY <1>5, <2>1, <2>2
<1>10. CASE ListTags(j, r)
  <2> DEFINE u == [t EXCEPT !.at = "total", !.tags = Tagged[r]]
             v == [t EXCEPT !.at = "repo"]
  <2>1. (Set(j, r, u) \/ Set(j, r, v)) /\ t.at = "list"
    BY <1>10 DEF ListTags
  <2>2. u.copies = <<>> /\ v.copies = <<>> /\ u.at = "total" /\ v.at = "repo"
    BY <1>2, <1>6, <2>1 DEF Task
  <2> HIDE DEF u, v
  <2> QED
    BY <1>5, <2>1, <2>2
<1>11. CASE AddTagsTotal(j, r) \/ CountTag(j, r)
  BY <1>5, <1>6, <1>7, <1>11 DEF AddTagsTotal, CountTag
<1>12. CASE FetchReference(j, r)
  <2>1. t.at = "fetch" /\ t.copies = <<>>
    BY <1>6, <1>12 DEF FetchReference
  <2>2. Set(j, r, Enter(t)) \/ Set(j, r, Failed(t)) \/ Set(j, r, Resume(t))
    BY <1>12 DEF FetchReference
  <2>3. NoneBegun(Enter(t))
    BY <1>2, <2>1, EnterCopies
  <2>4. Resume(t).copies = <<>> /\ Resume(t).at # "blobs"
    BY <1>2, <2>1, ResumeCopies
  <2>5. CASE Set(j, r, Enter(t))
    BY <1>16, <2>3, <2>5
  <2> QED
    BY <1>5, <1>8, <2>2, <2>4, <2>5
<1>13. CASE JoinBlobs(j, r)
  <2> DEFINE n == Cardinality({i \in DOMAIN t.copies : t.copies[i] = "copied"})
             u == [t EXCEPT !.at = "store", !.copies = <<>>, !.copied = @ + n]
  <2>1. Set(j, r, Failed(t)) \/ Set(j, r, u)
    BY <1>13 DEF JoinBlobs
  <2> HIDE DEF n
  <2>2. u.copies = <<>> /\ u.at = "store"
    BY <1>2 DEF Task
  <2> HIDE DEF u
  <2> QED
    BY <1>5, <1>8, <2>1, <2>2
<1>14. CASE StoreManifest(j, r)
  <2> DEFINE u == [t EXCEPT !.stack = Front(@)]
  <2>1. t.at = "store" /\ (Set(j, r, Resume(u)) \/ Set(j, r, Failed(t)))
    BY <1>14 DEF StoreManifest
  <2>2. u \in Task /\ u.copies = <<>>
    BY <1>2, <1>6, <2>1, StackOK DEF Task, TaskOK
  <2> HIDE DEF u
  <2>3. Resume(u).copies = <<>> /\ Resume(u).at # "blobs"
    BY <2>2, ResumeCopies
  <2> QED
    BY <1>5, <1>8, <2>1, <2>3
<1> QED
  BY <1>9, <1>10, <1>11, <1>12, <1>13, <1>14 DEF RepoStep

\* What a step of copy i of an image leaves.
SameBut(t, u, i) ==
    /\ u.at = t.at /\ u.stack = t.stack /\ u.visited = t.visited /\ u.want = t.want
    /\ u.tags = t.tags /\ u.copied = t.copied /\ DOMAIN u.copies = DOMAIN t.copies
    /\ \A k \in DOMAIN t.copies : k # i => u.copies[k] = t.copies[k]

LEMMA CopyTask ==
    ASSUME TInv, NEW j \in Jobs, NEW r \in Repos, NEW i \in DOMAIN task[j][r].copies,
           NEW from, NEW to \in CopyStages, Step(j, r, i, from, to)
    PROVE  /\ TaskOK(task'[j][r]) /\ CopiesFit(task'[j][r])
           /\ SameBut(task[j][r], task'[j][r], i) /\ task'[j][r].copies[i] = to
           /\ \A k \in Jobs, q \in Repos : <<k, q>> # <<j, r>> => task'[k][q] = task[k][q]
<1> DEFINE t == task[j][r]
           c == [t.copies EXCEPT ![i] = to]
           u == [t EXCEPT !.copies = c]
<1>1. TaskOK(t) /\ t \in Task /\ CopiesFit(t)
  BY DEF TInv, IInv, Shape
<1>2. c \in Seq(CopyStages) /\ DOMAIN c = DOMAIN t.copies /\ c[i] = to
      /\ \A k \in DOMAIN t.copies : k # i => c[k] = t.copies[k]
  BY <1>1, ExceptSeq DEF Task
<1>3. Len(c) = Len(t.copies)
  BY <1>1, <1>2, ExceptSeq DEF Task
<1>4. Set(j, r, u)
  BY <1>1 DEF Step, Set, TInv, IInv, Shape
<1>5. t.at = "blobs"
  BY <1>1, Wanted
<1> HIDE DEF c
<1>6. /\ u \in Task /\ u.copies = c
      /\ u.at = t.at /\ u.stack = t.stack /\ u.visited = t.visited /\ u.want = t.want
      /\ u.tags = t.tags /\ u.copied = t.copied
  BY <1>1, <1>2 DEF Task
<1> HIDE DEF u
<1>7. task'[j][r] = u
      /\ \A k \in Jobs, q \in Repos : <<k, q>> # <<j, r>> => task'[k][q] = task[k][q]
  BY <1>4 DEF Set, TInv, IInv, Shape
<1>8. TaskOK(u) /\ CopiesFit(u)
  BY <1>1, <1>3, <1>5, <1>6 DEF TaskOK, CopiesFit
<1>9. SameBut(t, u, i) /\ u.copies[i] = to
  BY <1>2, <1>6 DEF SameBut
<1> QED
  BY <1>7, <1>8, <1>9

\* The steps of a copy: from and to are its stages, b is the blob that it wants.
CopyKind(j, r, i, from, to, b) ==
    \/ /\ UNCHANGED <<blobs, fetched>>
       /\ \/ to \in {"lock", "failed"} \/ (to = "present" /\ b \in blobs)
          \/ to = "recheck" /\ LockFree(j, b)
          \/ from = "recheck" /\ to = "permit" /\ b \notin blobs
          \/ from = "permit" /\ to = "download"
    \/ /\ from = "download" /\ to = "copied" /\ blobs' = blobs \cup {b}
       /\ fetched' = [fetched EXCEPT ![j][b] = @ + 1]

LEMMA CopyKinds ==
    ASSUME TInv, NEW j \in Jobs, NEW r \in Repos, NEW i \in DOMAIN task[j][r].copies,
           CopyStep(j, r, i)
    PROVE  LET t == task[j][r] u == task'[j][r] IN
           /\ CopyKind(j, r, i, t.copies[i], u.copies[i], Wants(t, i))
           /\ SameBut(t, u, i) /\ u.copies[i] \in CopyStages /\ Wants(t, i) \in Blobs
           /\ TaskOK(u) /\ CopiesFit(u) /\ UNCHANGED <<row, job, stored, gone, unsaved, orphan>>
           /\ UNCHANGED faults \/ Fault
           /\ \A k \in Jobs, q \in Repos : <<k, q>> # <<j, r>> => task'[k][q] = task[k][q]
<1> DEFINE b == Wants(task[j][r], i)
<1>1. Blob(j, r, i) = b
  BY DEF Blob, Wants
<1> HIDE DEF b
<1>2. \E from, to \in CopyStages : Step(j, r, i, from, to) /\ CopyKind(j, r, i, from, to, b)
  <2>1. CASE CheckBlob(j, r, i)
    BY <1>1, <2>1 DEF CheckBlob, Look, CopyKind, CopyStages
  <2>2. CASE LockBlob(j, r, i)
    BY <1>1, <2>2 DEF LockBlob, CopyKind, CopyStages
  <2>3. CASE RecheckBlob(j, r, i)
    BY <1>1, <2>3 DEF RecheckBlob, Look, CopyKind, CopyStages
  <2>4. CASE Acquire(j, r, i)
    BY <1>1, <2>4 DEF Acquire, CopyKind, CopyStages
  <2>5. CASE Download(j, r, i)
    BY <1>1, <2>5 DEF Download, CopyKind, CopyStages
  <2> QED
    BY <2>1, <2>2, <2>3, <2>4, <2>5 DEF CopyStep
<1>3. PICK from, to \in CopyStages : Step(j, r, i, from, to) /\ CopyKind(j, r, i, from, to, b)
  BY <1>2
<1>4. task[j][r].copies[i] = from /\ UNCHANGED <<row, job, stored, gone, unsaved, orphan>>
  BY <1>3 DEF Step, history
<1>5. UNCHANGED faults \/ Fault
  BY DEF CopyStep, CheckBlob, LockBlob, RecheckBlob, Acquire, Download, Look, Quiet
<1>6. b \in Blobs
  BY Wanted DEF TInv, IInv, Shape, b
<1> QED
  BY <1>3, <1>4, <1>5, <1>6, CopyTask DEF b

LEMMA InitTInv == Init => TInv
<1> SUFFICES ASSUME Init PROVE TInv
  OBVIOUS
<1>1. \A j \in Jobs, r \in Repos : CopiesFit(task[j][r])
  BY DEF Init, NoTask, CopiesFit
<1>2. Content
  BY BoundsAssumption DEF Init, Content
<1> QED
  BY <1>1, <1>2, InitIInv DEF TInv

LEMMA StepTInv == TInv /\ [Next]_vars => TInv'
<1> SUFFICES ASSUME TInv, [Next]_vars PROVE TInv'
  OBVIOUS
<1> DEFINE Fits == \A j \in Jobs, r \in Repos : CopiesFit(task[j][r])
<1>1. IInv'
  BY StepIInv DEF TInv
<1>2. Content /\ Fits /\ MaxFaults \in Nat
  BY BoundsAssumption DEF TInv
<1>3. Fault => faults' \in 0..MaxFaults
  BY <1>2 DEF Content, Fault
<1>4. CASE UNCHANGED vars
  BY <1>1, <1>4 DEF TInv, vars, content, history, Content
<1>5. CASE Restart
  <2>1. Fits'
    BY <1>5 DEF Restart, NoTask, CopiesFit
  <2>2. Content'
    BY <1>2, <1>3, <1>5 DEF Restart, content, Content
  <2> QED
    BY <1>1, <2>1, <2>2 DEF TInv
<1>6. CASE \E j \in Jobs : StartImport(j) \/ DropHandler(j) \/ JobStep(j)
  <2>1. UNCHANGED <<task, content, unsaved>>
    BY <1>6 DEF StartImport, DropHandler, JobStep, Spawn, Enumerate, SetReposTotal, CopyDone,
                FinishJob, history
  <2>2. (UNCHANGED faults \/ Fault) /\ orphan' \in SUBSET Jobs
    BY <1>2, <1>6 DEF StartImport, DropHandler, JobStep, Spawn, Enumerate, SetReposTotal,
                CopyDone, FinishJob, history, Quiet, Content
  <2>3. Content'
    BY <1>2, <1>3, <2>1, <2>2 DEF Content, content
  <2> QED
    BY <1>1, <1>2, <2>1, <2>3 DEF TInv
<1>7. CASE \E j \in Jobs, r \in Repos : RepoStep(j, r)
  <2>1. PICK j \in Jobs, r \in Repos : RepoStep(j, r)
    BY <1>7
  <2>2. Fits'
    BY <1>2, <2>1, RepoTask DEF NoneBegun
  <2>3. (UNCHANGED faults \/ Fault) /\ UNCHANGED <<blobs, fetched, orphan>>
        /\ unsaved' \in SUBSET Jobs
    BY <1>2, <2>1 DEF RepoStep, StartRepo, ListTags, AddTagsTotal, CountTag, CountRepo,
         FetchReference, JoinBlobs, StoreManifest, content, Quiet, Update, history, Content
  <2>4. stored' \in SUBSET (Repos \X Manifests)
    <3>1. CASE StoreManifest(j, r)
      <4> DEFINE m == Last(task[j][r].stack).m
      <4>1. m \in Manifests
        BY <3>1, StackOK DEF StoreManifest, TInv, IInv, Shape, TaskOK, Task, Frame
      <4>2. UNCHANGED stored \/ stored' = stored \cup {<<r, m>>}
        BY <3>1 DEF StoreManifest
      <4> QED
        BY <1>2, <4>1, <4>2 DEF Content
    <3>2. CASE ~StoreManifest(j, r)
      BY <1>2, <2>1, <3>2 DEF RepoStep, StartRepo, ListTags, AddTagsTotal, CountTag, CountRepo,
         FetchReference, JoinBlobs, content, Content
    <3> QED
      BY <3>1, <3>2
  <2>5. gone' \in SUBSET (Repos \X Manifests)
    <3>1. CASE FetchReference(j, r)
      <4> DEFINE m == task[j][r].want
      <4>1. m \in Manifests
        BY <3>1 DEF FetchReference, TInv, IInv, Shape, TaskOK
      <4>2. UNCHANGED gone \/ gone' = gone \cup {<<r, m>>}
        BY <3>1 DEF FetchReference
      <4> QED
        BY <1>2, <4>1, <4>2 DEF Content
    <3>2. CASE ~FetchReference(j, r)
      BY <1>2, <2>1, <3>2 DEF RepoStep, StartRepo, ListTags, AddTagsTotal, CountTag, CountRepo,
         StoreManifest, JoinBlobs, content, Content
    <3> QED
      BY <3>1, <3>2
  <2>6. Content'
    BY <1>2, <1>3, <2>3, <2>4, <2>5 DEF Content
  <2> QED
    BY <1>1, <2>2, <2>6 DEF TInv
<1>8. CASE \E j \in Jobs, r \in Repos : \E i \in DOMAIN task[j][r].copies : CopyStep(j, r, i)
  <2>1. PICK j \in Jobs, r \in Repos : \E k \in DOMAIN task[j][r].copies : CopyStep(j, r, k)
    BY <1>8
  <2>2. PICK i \in DOMAIN task[j][r].copies : CopyStep(j, r, i)
    BY <2>1
  <2>3. /\ CopiesFit(task'[j][r]) /\ UNCHANGED <<stored, gone, unsaved, orphan>>
        /\ \A k \in Jobs, q \in Repos : <<k, q>> # <<j, r>> => task'[k][q] = task[k][q]
        /\ UNCHANGED faults \/ Fault
    BY <2>2, CopyKinds
  <2> DEFINE b == Wants(task[j][r], i)
  <2>4. /\ b \in Blobs
        /\ \/ UNCHANGED <<blobs, fetched>>
           \/ blobs' = blobs \cup {b} /\ fetched' = [fetched EXCEPT ![j][b] = @ + 1]
    BY <2>2, CopyKinds DEF CopyKind
  <2>5. blobs' \in SUBSET Blobs /\ fetched' \in [Jobs -> [Blobs -> Nat]]
    BY <1>2, <2>4 DEF Content
  <2> QED
    BY <1>1, <1>2, <1>3, <2>3, <2>5 DEF TInv, Content
<1> QED
  BY <1>4, <1>5, <1>6, <1>7, <1>8 DEF Next, Work

LEMMA TypedAlways == Spec => []TInv
BY InitTInv, StepTInv, PTL DEF Spec

\* Every step keeps the types, whatever the upstream holds and however it fails: the
\* stack and the copies of a task name manifests and blobs that exist (import.rs).
THEOREM TypeCorrect == Spec => []TypeOK
<1>1. TInv => TypeOK
  BY DEF TInv, IInv, Shape, Content, TypeOK, Row, Job
<1> QED
  BY TypedAlways, <1>1, PTL

-----------------------------------------------------------------------------
(***************************************************************************)
(* The lock of a digest: of the copies of a job that want a blob one holds *)
(* the lock, and it sees whether the job has the blob already.             *)
(***************************************************************************)
Holding == {"recheck", "permit", "download"}

\* T is the tasks of a job, F what it fetched, B the blobs table.
Exclusive(T) ==
    \A r, q \in Repos : \A i \in DOMAIN T[r].copies, k \in DOMAIN T[q].copies :
        T[r].copies[i] \in Holding /\ T[q].copies[k] \in Holding /\ Wants(T[r], i) = Wants(T[q], k)
            => r = q /\ i = k

Unfetched(T, F, B) ==
    /\ \A b \in Blobs : F[b] \in {0, 1} /\ (F[b] = 1 => b \in B)
    /\ \A r \in Repos : \A i \in DOMAIN T[r].copies :
        T[r].copies[i] \in {"permit", "download"} => F[Wants(T[r], i)] = 0

Locks(j) == Exclusive(task[j]) /\ Unfetched(task[j], fetched[j], blobs)
LInv == TInv /\ \A j \in Jobs : Locks(j)

\* Copies that hold no lock, and copies as they were, keep it.
LEMMA LocksKept ==
    ASSUME NEW T, NEW U, NEW F, NEW B, Exclusive(T), Unfetched(T, F, B), NEW C, B \subseteq C,
           \A r \in Repos : U[r] = T[r] \/ (\A i \in DOMAIN U[r].copies : U[r].copies[i] = "check")
    PROVE  Exclusive(U) /\ Unfetched(U, F, C)
<1>1. ASSUME NEW r \in Repos, NEW i \in DOMAIN U[r].copies, U[r].copies[i] \in Holding
      PROVE  U[r] = T[r]
  BY <1>1 DEF Holding
<1>2. Exclusive(U)
  BY <1>1 DEF Exclusive, Wants
<1>3. Unfetched(U, F, C)
  BY <1>1 DEF Unfetched, Holding, Wants
<1> QED
  BY <1>2, <1>3

\* A copy that holds no lock after its step.
LEMMA CopyFree ==
    ASSUME NEW T, NEW U, NEW F, NEW B, Exclusive(T), Unfetched(T, F, B),
           NEW r \in Repos, NEW i \in DOMAIN T[r].copies, SameBut(T[r], U[r], i),
           \A q \in Repos : q # r => U[q] = T[q],
           U[r].copies[i] \notin Holding
    PROVE  Exclusive(U) /\ Unfetched(U, F, B)
<1>1. ASSUME NEW q \in Repos, NEW k \in DOMAIN U[q].copies, U[q].copies[k] \in Holding
      PROVE  /\ k \in DOMAIN T[q].copies /\ T[q].copies[k] = U[q].copies[k]
             /\ Wants(U[q], k) = Wants(T[q], k)
  BY <1>1 DEF SameBut, Wants
<1>2. Exclusive(U)
  BY <1>1 DEF Exclusive
<1>3. Unfetched(U, F, B)
  BY <1>1 DEF Unfetched, Holding
<1> QED
  BY <1>2, <1>3

\* A copy that held the lock and holds it still, or has got it now.
LEMMA CopyHolds ==
    ASSUME NEW T, NEW U, NEW F, NEW B, Exclusive(T), Unfetched(T, F, B),
           NEW r \in Repos, NEW i \in DOMAIN T[r].copies, SameBut(T[r], U[r], i),
           \A q \in Repos : q # r => U[q] = T[q],
           \/ T[r].copies[i] \in Holding
           \/ \A q \in Repos : \A k \in DOMAIN T[q].copies :
                T[q].copies[k] \in Holding => Wants(T[q], k) # Wants(T[r], i),
           U[r].copies[i] \in {"permit", "download"} => F[Wants(T[r], i)] = 0
    PROVE  Exclusive(U) /\ Unfetched(U, F, B)
<1>1. ASSUME NEW q \in Repos, NEW k \in DOMAIN U[q].copies
      PROVE  /\ k \in DOMAIN T[q].copies /\ Wants(U[q], k) = Wants(T[q], k)
             /\ <<q, k>> # <<r, i>> => T[q].copies[k] = U[q].copies[k]
  BY DEF SameBut, Wants
<1>2. Exclusive(U)
  BY <1>1 DEF Exclusive
<1>3. Unfetched(U, F, B)
  BY <1>1 DEF Unfetched
<1> QED
  BY <1>2, <1>3

LEMMA StepLocks == LInv /\ [Next]_vars => LInv'
<1> SUFFICES ASSUME LInv, [Next]_vars PROVE LInv'
  OBVIOUS
<1>1. TInv /\ TInv'
  BY StepTInv DEF LInv
<1> SUFFICES ASSUME NEW j \in Jobs PROVE Locks(j)'
  BY <1>1 DEF LInv
<1>2. Locks(j) /\ \A r \in Repos : TaskOK(task[j][r]) /\ CopiesFit(task[j][r])
  BY DEF LInv, TInv, IInv, Shape
<1>3. CASE UNCHANGED <<task, fetched, blobs>>
  BY <1>2, <1>3 DEF Locks
<1>4. CASE Restart
  <2>1. UNCHANGED <<fetched, blobs>> /\ \A r \in Repos : task'[j][r].copies = <<>>
    BY <1>4 DEF Restart, content, NoTask
  <2> QED
    BY <1>2, <2>1, LocksKept DEF Locks
<1>5. CASE \E k \in Jobs, r \in Repos : RepoStep(k, r)
  <2>1. PICK k \in Jobs, r \in Repos : RepoStep(k, r)
    BY <1>5
  <2>2. /\ UNCHANGED <<blobs, fetched>> /\ NoneBegun(task'[k][r])
        /\ \A l \in Jobs, q \in Repos : <<l, q>> # <<k, r>> => task'[l][q] = task[l][q]
    BY <1>1, <2>1, RepoTask
  <2>3. \A q \in Repos : task'[j][q] = task[j][q]
            \/ (\A i \in DOMAIN task'[j][q].copies : task'[j][q].copies[i] = "check")
    BY <2>2 DEF NoneBegun
  <2> DEFINE T == task[j]
             U == task'[j]
             F == fetched[j]
  <2>4. Exclusive(T) /\ Unfetched(T, F, blobs)
    BY <1>2 DEF Locks
  <2>5. Exclusive(U) /\ Unfetched(U, F, blobs)
    <3> HIDE DEF F
    <3> QED
      BY <2>3, <2>4, LocksKept
  <2> QED
    BY <2>2, <2>5 DEF Locks
<1>6. CASE \E k \in Jobs, r \in Repos : \E i \in DOMAIN task[k][r].copies : CopyStep(k, r, i)
  <2>1. PICK k \in Jobs, r \in Repos : \E i \in DOMAIN task[k][r].copies : CopyStep(k, r, i)
    BY <1>6
  <2>2. PICK i \in DOMAIN task[k][r].copies : CopyStep(k, r, i)
    BY <2>1
  <2> DEFINE T == task[j]
             U == task'[j]
             F == fetched[j]
             from == task[k][r].copies[i]
             to == task'[k][r].copies[i]
             b == Wants(task[k][r], i)
  <2>3. /\ CopyKind(k, r, i, from, to, b) /\ b \in Blobs
        /\ SameBut(task[k][r], task'[k][r], i)
        /\ \A l \in Jobs, q \in Repos : <<l, q>> # <<k, r>> => task'[l][q] = task[l][q]
    BY <1>1, <2>2, CopyKinds
  <2>4. fetched \in [Jobs -> [Blobs -> Nat]]
    BY <1>1 DEF TInv, Content
  <2> HIDE DEF from, to, b
  <2>5. CASE k # j
    <3>1. \A q \in Repos : U[q] = T[q]
      BY <2>3, <2>5
    <3>2. blobs \subseteq blobs' /\ fetched'[j] = fetched[j]
      BY <2>3, <2>4, <2>5 DEF CopyKind
    <3> QED
      BY <1>2, <3>1, <3>2, LocksKept DEF Locks
  <2>6. CASE k = j
    <3>1. Exclusive(T) /\ Unfetched(T, F, blobs)
      BY <1>2 DEF Locks
    <3>2. /\ SameBut(T[r], U[r], i) /\ \A q \in Repos : q # r => U[q] = T[q]
          /\ i \in DOMAIN T[r].copies /\ U[r].copies[i] = to /\ T[r].copies[i] = from
          /\ b = Wants(T[r], i)
      BY <2>2, <2>3, <2>6 DEF from, to, b
    <3>3. CASE UNCHANGED <<blobs, fetched>>
      <4>1. CASE to \notin Holding
        <5>1. Exclusive(U) /\ Unfetched(U, F, blobs)
          BY <3>1, <3>2, <4>1, CopyFree
        <5> QED
          BY <3>3, <5>1 DEF Locks
      <4>2. CASE to \in Holding
        <5>1. \/ to = "recheck" /\ LockFree(j, b)
              \/ from = "recheck" /\ to = "permit" /\ b \notin blobs
              \/ from = "permit" /\ to = "download"
          BY <2>3, <2>6, <4>2 DEF CopyKind, Holding
        <5>2. \/ from \in Holding
              \/ \A q \in Repos : \A n \in DOMAIN T[q].copies :
                    T[q].copies[n] \in Holding => Wants(T[q], n) # b
          <6>1. CASE LockFree(j, b)
            <7>1. ASSUME NEW q \in Repos, NEW n \in DOMAIN T[q].copies, T[q].copies[n] \in Holding
                  PROVE  Wants(T[q], n) # b
              <8>1. <<q, n>> \in InStages(j, Holding)
                BY <7>1 DEF InStages, Copies
              <8> QED
                BY <6>1, <8>1 DEF LockFree, Holding, Blob, Wants
            <7> QED
              BY <7>1
          <6> QED
            BY <5>1, <6>1 DEF Holding
        <5>3. to \in {"permit", "download"} => F[b] = 0
          BY <2>3, <3>1, <3>2, <5>1 DEF Unfetched
        <5>4. Exclusive(U) /\ Unfetched(U, F, blobs)
          BY <3>1, <3>2, <5>2, <5>3, CopyHolds
        <5> QED
          BY <3>3, <5>4 DEF Locks
      <4> QED
        BY <4>1, <4>2
    <3>4. CASE /\ from = "download" /\ to = "copied" /\ blobs' = blobs \cup {b}
               /\ fetched' = [fetched EXCEPT ![j][b] = @ + 1]
      <4>1. Exclusive(U) /\ Unfetched(U, F, blobs)
        <5>1. to \notin Holding
          BY <3>4 DEF Holding
        <5> HIDE DEF T, U, F
        <5> QED
          BY <3>1, <3>2, <5>1, CopyFree
      <4>2. fetched'[j] = [F EXCEPT ![b] = 1]
        <5>1. F[b] = 0
          BY <3>1, <3>2, <3>4 DEF Unfetched
        <5>2. fetched'[j] = [F EXCEPT ![b] = F[b] + 1]
          BY <2>4, <2>6, <3>4
        <5> QED
          BY <5>1, <5>2
      <4>3. ASSUME NEW q \in Repos, NEW n \in DOMAIN U[q].copies,
                   U[q].copies[n] \in {"permit", "download"}
            PROVE  Wants(U[q], n) # b
        <5>1. n \in DOMAIN T[q].copies /\ T[q].copies[n] = U[q].copies[n] /\ <<q, n>> # <<r, i>>
              /\ Wants(T[q], n) = Wants(U[q], n)
          BY <3>2, <3>4, <4>3 DEF SameBut, Wants
        <5> QED
          BY <3>1, <3>2, <3>4, <4>3, <5>1 DEF Exclusive, Holding
      <4>4. Unfetched(U, fetched'[j], blobs')
        <5>1. F \in [Blobs -> Nat]
          BY <2>4
        <5> QED
          BY <2>3, <3>4, <4>1, <4>2, <4>3, <5>1, Wanted DEF Unfetched
      <4> QED
        BY <4>1, <4>4 DEF Locks
    <3> QED
      BY <2>3, <2>6, <3>3, <3>4 DEF CopyKind
  <2> QED
    BY <2>5, <2>6
<1>7. CASE \E k \in Jobs : StartImport(k) \/ DropHandler(k) \/ JobStep(k)
  BY <1>3, <1>7 DEF StartImport, DropHandler, JobStep, Spawn, Enumerate, SetReposTotal, CopyDone,
                    FinishJob, content
<1>8. CASE UNCHANGED vars
  BY <1>3, <1>8 DEF vars, content
<1> QED
  BY <1>4, <1>5, <1>6, <1>7, <1>8 DEF Next, Work

LEMMA InitLInv == Init => LInv
<1> SUFFICES ASSUME Init PROVE LInv
  OBVIOUS
<1>1. \A j \in Jobs, r \in Repos : task[j][r].copies = <<>>
  BY DEF Init, NoTask
<1>2. \A j \in Jobs, b \in Blobs : fetched[j][b] = 0
  BY DEF Init
<1> QED
  BY <1>1, <1>2, InitTInv DEF LInv, Locks, Exclusive, Unfetched

LEMMA LocksAlways == Spec => []LInv
BY InitLInv, StepLocks, PTL DEF Spec

\* A job downloads no blob twice, however many of its images, in however many of its
\* repositories, want it at a time (import.rs, copy_blob_once).
THEOREM NeverFetchedTwice == Spec => []FetchedOnce
<1>1. LInv => FetchedOnce
  BY DEF LInv, Locks, Unfetched, FetchedOnce
<1> QED
  BY LocksAlways, <1>1, PTL

-----------------------------------------------------------------------------
(***************************************************************************)
(* The stack of a task: what an index on it waits for is the frame above   *)
(* it or still to do, and everything else it names is there or gone.       *)
(***************************************************************************)
\* f is a frame, in the manifests copied for it now, D those stored and those gone.
FrameSound(f, in, D) ==
    /\ in \subseteq Range(Child[f.m]) /\ Range(f.todo) \subseteq Range(Child[f.m])
    /\ Range(Child[f.m]) \subseteq Range(f.todo) \cup in \cup D

StackSound(s, in, D) ==
    \A k \in 1..Len(s) : FrameSound(s[k], IF k < Len(s) THEN {s[k + 1].m} ELSE in, D)

\* What was visited is stored, or on the stack.
SeenSound(V, s, S) == \A v \in V : v \in S \/ \E k \in 1..Len(s) : s[k].m = v

Sound(t, B, S, D) ==
    /\ t.at \in {"fetch", "blobs", "store"} =>
        /\ StackSound(t.stack, IF t.at = "fetch" THEN {t.want} ELSE {}, D)
        /\ SeenSound(t.visited, t.stack, S)
    /\ t.at = "store" => Last(t.stack).todo = <<>> /\ Range(Desc[Last(t.stack).m]) \subseteq B
    /\ t.at = "blobs" => Child[Last(t.stack).m] = <<>>
    /\ \A i \in DOMAIN t.copies : t.copies[i] \in {"present", "copied"} => Wants(t, i) \in B

LEMMA RangeHead ==
    ASSUME NEW X, NEW s \in Seq(X), s # <<>>
    PROVE  Range(s) = {Head(s)} \cup Range(Tail(s))
<1>1. Len(s) \in Nat /\ Len(s) # 0 /\ DOMAIN s = 1..Len(s)
  BY EmptySeq, LenProperties
<1>2. /\ Head(s) = s[1] /\ Tail(s) \in Seq(X) /\ Len(Tail(s)) = Len(s) - 1
      /\ \A i \in 1..Len(Tail(s)) : Tail(s)[i] = s[i + 1]
  BY HeadTailProperties
<1>3. DOMAIN Tail(s) = 1..(Len(s) - 1)
  BY <1>2, LenProperties
<1>4. ASSUME NEW i \in DOMAIN s PROVE s[i] \in {Head(s)} \cup Range(Tail(s))
  <2>1. CASE i = 1
    BY <1>2, <2>1
  <2>2. CASE i # 1
    <3>1. i - 1 \in DOMAIN Tail(s) /\ (i - 1) + 1 = i
      BY <1>1, <1>3, <2>2
    <3>2. Tail(s)[i - 1] = s[i]
      BY <1>2, <1>3, <3>1
    <3> QED
      BY <3>1, <3>2 DEF Range
  <2> QED
    BY <2>1, <2>2
<1>5. Head(s) \in Range(s)
  BY <1>1, <1>2 DEF Range
<1>6. ASSUME NEW i \in DOMAIN Tail(s) PROVE Tail(s)[i] \in Range(s)
  <2>1. i + 1 \in DOMAIN s /\ Tail(s)[i] = s[i + 1]
    BY <1>1, <1>2, <1>3
  <2> QED
    BY <2>1 DEF Range
<1>7. Range(s) \subseteq {Head(s)} \cup Range(Tail(s))
  BY <1>4 DEF Range
<1>8. Range(Tail(s)) \subseteq Range(s)
  BY <1>6 DEF Range
<1> QED
  BY <1>5, <1>7, <1>8

LEMMA FrontShort ==
    ASSUME NEW s \in Seq(Frame), s # <<>>
    PROVE  /\ Len(s) \in Nat /\ Len(s) # 0 /\ Len(Front(s)) = Len(s) - 1
           /\ \A k \in 1..(Len(s) - 1) : Front(s)[k] = s[k]
<1>1. Len(s) \in Nat /\ Len(s) # 0
  BY EmptySeq, LenProperties
<1>2. \A i \in 1..(Len(s) - 1) : s[i] \in Frame
  BY <1>1, ElementOfSeq
<1> DEFINE n == Len(s) - 1
<1>3. Front(s) = SubSeq(s, 1, n) /\ 1 \in Int /\ n \in Int
  BY <1>1 DEF Front
<1>4. n \in Nat /\ \A i \in 1..n : s[i] \in Frame
  BY <1>1, <1>2
<1> HIDE DEF n
<1>5. /\ Len(SubSeq(s, 1, n)) = IF 1 <= n THEN n - 1 + 1 ELSE 0
      /\ \A i \in 1..n - 1 + 1 : SubSeq(s, 1, n)[i] = s[1 + i - 1]
  BY <1>3, <1>4, SubSeqProperties
<1>6. Len(Front(s)) = n /\ \A k \in 1..n : Front(s)[k] = s[k]
  BY <1>3, <1>4, <1>5
<1> QED
  BY <1>1, <1>6 DEF n

\* The stack without its last frame, with another, and when the last is done.
LEMMA FrontSound ==
    ASSUME NEW s \in Seq(Frame), s # <<>>, NEW in, NEW D, StackSound(s, in, D)
    PROVE  StackSound(Front(s), {Last(s).m}, D) /\ FrameSound(Last(s), in, D)
<1>1. Len(s) \in Nat /\ Len(s) # 0
  BY FrontShort
<1>2. Len(Front(s)) = Len(s) - 1 /\ \A k \in 1..(Len(s) - 1) : Front(s)[k] = s[k]
  BY FrontShort
<1>3. ASSUME NEW k \in 1..Len(Front(s))
      PROVE  FrameSound(Front(s)[k], IF k < Len(Front(s)) THEN {Front(s)[k + 1].m} ELSE {Last(s).m}, D)
  <2>1. k \in 1..Len(s) /\ k < Len(s) /\ Front(s)[k] = s[k]
    BY <1>1, <1>2
  <2>2. FrameSound(s[k], {s[k + 1].m}, D)
    BY <2>1 DEF StackSound
  <2>3. CASE k < Len(Front(s))
    <3>1. k + 1 \in 1..(Len(s) - 1)
      BY <1>1, <1>2, <2>3
    <3> QED
      BY <1>2, <2>1, <2>2, <2>3, <3>1
  <2>4. CASE ~(k < Len(Front(s)))
    <3>1. k + 1 = Len(s)
      BY <1>1, <1>2, <2>4
    <3> QED
      BY <2>1, <2>2, <2>4, <3>1 DEF Last
  <2> QED
    BY <2>3, <2>4
<1>4. FrameSound(Last(s), in, D)
  <2>1. Len(s) \in 1..Len(s) /\ ~(Len(s) < Len(s))
    BY <1>1
  <2> QED
    BY <2>1 DEF StackSound, Last
<1> QED
  BY <1>3, <1>4 DEF StackSound

LEMMA PushSound ==
    ASSUME NEW s \in Seq(Frame), NEW f \in Frame, NEW in, NEW D,
           StackSound(s, {f.m}, D), FrameSound(f, in, D)
    PROVE  StackSound(Append(s, f), in, D)
<1> DEFINE p == Append(s, f)
<1>1. Len(s) \in Nat /\ Len(p) = Len(s) + 1 /\ p[Len(s) + 1] = f
      /\ \A k \in 1..Len(s) : p[k] = s[k]
  BY AppendProperties, LenProperties
<1> HIDE DEF p
<1>2. ASSUME NEW k \in 1..Len(p)
      PROVE  FrameSound(p[k], IF k < Len(p) THEN {p[k + 1].m} ELSE in, D)
  <2>1. CASE k = Len(s) + 1
    BY <1>1, <2>1
  <2>2. CASE k = Len(s)
    <3>1. ~(k < Len(s)) /\ k \in 1..Len(s) /\ k < Len(p) /\ p[k + 1] = f /\ p[k] = s[k]
      BY <1>1, <2>2
    <3>2. FrameSound(s[k], {f.m}, D)
      BY <3>1 DEF StackSound
    <3> QED
      BY <3>1, <3>2
  <2>3. CASE k \in 1..Len(s) /\ k < Len(s)
    <3>1. FrameSound(s[k], {s[k + 1].m}, D)
      BY <2>3 DEF StackSound
    <3>2. k + 1 \in 1..Len(s) /\ k < Len(p)
      BY <1>1, <2>3
    <3>3. p[k] = s[k] /\ p[k + 1] = s[k + 1]
      BY <1>1, <2>3, <3>2
    <3> QED
      BY <3>1, <3>2, <3>3
  <2> QED
    BY <1>1, <2>1, <2>2, <2>3
<1> QED
  BY <1>2 DEF StackSound, p

LEMMA DoneSound ==
    ASSUME NEW s \in Seq(Frame), NEW in, NEW D, StackSound(s, in, D), NEW E, D \cup in \subseteq E
    PROVE  StackSound(s, {}, E)
BY DEF StackSound, FrameSound

LEMMA SoundGrows ==
    ASSUME NEW t, NEW B, NEW S, NEW D, Sound(t, B, S, D), NEW C, NEW R, NEW E,
           B \subseteq C, S \subseteq R, D \subseteq E
    PROVE  Sound(t, C, R, E)
<1>1. ASSUME NEW s, NEW in, StackSound(s, in, D) PROVE StackSound(s, in, E)
  BY <1>1 DEF StackSound, FrameSound
<1>2. ASSUME NEW V, NEW s, SeenSound(V, s, S) PROVE SeenSound(V, s, R)
  BY <1>2 DEF SeenSound
<1> QED
  BY <1>1, <1>2 DEF Sound

\* A manifest is never below itself.
LEMMA NotBelowItself ==
    ASSUME NEW s \in Seq(Frame), NEW x, NEW D, StackSound(s, {x}, D), NEW k \in 1..Len(s)
    PROVE  s[k].m # x
<1> SUFFICES ASSUME s[k].m = x PROVE FALSE
  OBVIOUS
<1>1. Len(s) \in Nat /\ k \in Nat /\ \A i \in 1..Len(s) : s[i] \in Frame
  BY LenProperties, ElementOfSeq
<1> DEFINE S == {s[i].m : i \in k..Len(s)}
<1>2. S # {} /\ S \in SUBSET Manifests
  BY <1>1 DEF Frame
<1>3. IsFiniteSet(S)
  <2> DEFINE f == [i \in k..Len(s) |-> s[i].m]
  <2>1. f \in Surjection(k..Len(s), S)
    BY DEF Surjection
  <2>2. IsFiniteSet(k..Len(s))
    BY <1>1, FS_Interval
  <2> QED
    BY <2>1, <2>2, FS_Surjection
<1>4. PICK m \in S : \A p \in S : m \notin Range(Child[p])
  BY <1>2, <1>3, NoCycle
<1>5. PICK i \in k..Len(s) : m = s[i].m
  BY <1>4
<1>6. CASE i = k
  <2>1. Len(s) \in 1..Len(s) /\ ~(Len(s) < Len(s)) /\ s[Len(s)].m \in S
    BY <1>1
  <2>2. x \in Range(Child[s[Len(s)].m])
    BY <2>1 DEF StackSound, FrameSound
  <2> QED
    BY <1>4, <1>5, <1>6, <2>1, <2>2
<1>7. CASE i # k
  <2>1. i - 1 \in 1..Len(s) /\ i - 1 < Len(s) /\ (i - 1) + 1 = i /\ s[i - 1].m \in S
    BY <1>1, <1>5, <1>7
  <2>2. FrameSound(s[i - 1], {s[i].m}, D)
    BY <2>1 DEF StackSound
  <2> QED
    BY <1>4, <1>5, <2>1, <2>2 DEF FrameSound
<1> QED
  BY <1>6, <1>7

\* The frame that replaces the last one names the same manifest.
LEMMA SeenKept ==
    ASSUME NEW s \in Seq(Frame), NEW f \in Frame, NEW V, NEW S, SeenSound(V, s, S)
    PROVE  SeenSound(V \cup {f.m}, Append(s, f), S)
<1> DEFINE p == Append(s, f)
<1>1. Len(s) \in Nat /\ Len(p) = Len(s) + 1 /\ p[Len(s) + 1] = f
      /\ \A k \in 1..Len(s) : p[k] = s[k]
  BY AppendProperties, LenProperties
<1> HIDE DEF p
<1>2. Len(p) \in 1..Len(p) /\ p[Len(p)] = f /\ \A k \in 1..Len(s) : k \in 1..Len(p)
  BY <1>1
<1> QED
  BY <1>1, <1>2 DEF SeenSound, p

\* Without the last frame everything seen is stored, on the stack, or that frame's.
LEMMA SeenFront ==
    ASSUME NEW s \in Seq(Frame), s # <<>>, NEW V, NEW S, SeenSound(V, s, S)
    PROVE  SeenSound(V, Front(s), S \cup {Last(s).m})
<1>1. Len(s) \in Nat /\ Len(s) # 0
  BY EmptySeq, LenProperties
<1>2. Len(Front(s)) = Len(s) - 1 /\ \A k \in 1..(Len(s) - 1) : Front(s)[k] = s[k]
  BY <1>1, FrontShort
<1>3. ASSUME NEW v \in V PROVE v \in S \cup {Last(s).m} \/ \E k \in 1..Len(Front(s)) : Front(s)[k].m = v
  <2>1. CASE \E k \in 1..Len(s) : s[k].m = v
    <3>1. PICK k \in 1..Len(s) : s[k].m = v
      BY <2>1
    <3>2. CASE k = Len(s)
      BY <3>1, <3>2 DEF Last
    <3>3. CASE k # Len(s)
      <4>1. k \in 1..Len(Front(s)) /\ Front(s)[k] = s[k]
        BY <1>1, <1>2, <3>3
      <4> QED
        BY <3>1, <4>1
    <3> QED
      BY <3>2, <3>3
  <2> QED
    BY <2>1 DEF SeenSound
<1> QED
  BY <1>3 DEF SeenSound

LEMMA ResumeSound ==
    ASSUME NEW t \in Task, t.copies = <<>>, NEW B, NEW S, NEW D,
           StackSound(t.stack, {}, D), SeenSound(t.visited, t.stack, S),
           t.stack # <<>> => Child[Last(t.stack).m] # <<>>
    PROVE  Sound(Resume(t), B, S, D)
<1>1. DOMAIN <<>> = {}
  OBVIOUS
<1>2. CASE t.stack = <<>>
  <2>1. Resume(t).at = "count" /\ Resume(t).copies = <<>>
    BY <1>2 DEF Resume, Task
  <2> QED
    BY <1>1, <2>1 DEF Sound
<1>3. CASE t.stack # <<>>
  <2> DEFINE f == Last(t.stack)
             s == Front(t.stack)
  <2>1. f \in Frame /\ s \in Seq(Frame) /\ t.stack \in Seq(Frame)
    BY <1>3, StackOK DEF Task
  <2>2. StackSound(s, {f.m}, D) /\ FrameSound(f, {}, D)
    BY <1>3, <2>1, FrontSound
  <2>3. CASE f.todo = <<>>
    <3>1. Resume(t) = [t EXCEPT !.at = "store"]
      BY <1>3, <2>3 DEF Resume
    <3>2. /\ Resume(t).at = "store" /\ Resume(t).copies = <<>> /\ Resume(t).stack = t.stack
          /\ Resume(t).visited = t.visited
      BY <3>1 DEF Task
    <3>3. Desc[f.m] = <<>>
      BY <1>3, <2>1, ShapeAssumption DEF Frame
    <3>4. Range(<<>>) = {}
      BY <1>1 DEF Range
    <3> QED
      BY <1>1, <2>3, <3>2, <3>3, <3>4 DEF Sound
  <2>4. CASE f.todo # <<>>
    <3> DEFINE h == Head(f.todo)
               g == [f EXCEPT !.todo = Tail(@)]
               p == Append(s, g)
    <3>1. f.todo \in Seq(Manifests) /\ Tail(f.todo) \in Seq(Manifests)
      BY <2>1, <2>4, HeadTailProperties DEF Frame
    <3>2. Range(f.todo) = {h} \cup Range(Tail(f.todo))
      BY <2>4, <3>1, RangeHead
    <3>3. g \in Frame /\ g.m = f.m /\ g.todo = Tail(f.todo)
      BY <2>1, <3>1 DEF Frame
    <3>4. Resume(t) = [t EXCEPT !.at = "fetch", !.want = h, !.stack = p]
      BY <1>3, <2>4 DEF Resume
    <3> HIDE DEF f, g, h, s
    <3>5. FrameSound(g, {h}, D)
      BY <2>2, <3>2, <3>3 DEF FrameSound
    <3>6. StackSound(p, {h}, D)
      BY <2>1, <2>2, <3>3, <3>5, PushSound
    <3>7. SeenSound(t.visited, p, S)
      <4>1. SeenSound(t.visited, s, S \cup {f.m})
        BY <1>3, <2>1, SeenFront DEF s, f
      <4>2. SeenSound(t.visited \cup {g.m}, p, S \cup {f.m})
        BY <2>1, <3>3, <4>1, SeenKept
      <4>3. Len(p) \in 1..Len(p) /\ p[Len(p)].m = f.m
        BY <2>1, <3>3, AppendProperties, LenProperties
      <4> QED
        BY <4>2, <4>3 DEF SeenSound
    <3> HIDE DEF p
    <3>8. /\ Resume(t).at = "fetch" /\ Resume(t).copies = <<>> /\ Resume(t).stack = p
          /\ Resume(t).visited = t.visited /\ Resume(t).want = h
      BY <3>4 DEF Task
    <3> QED
      BY <1>1, <3>6, <3>7, <3>8 DEF Sound
  <2> QED
    BY <2>3, <2>4
<1> QED
  BY <1>2, <1>3

\* An index above what is fetched has children.
LEMMA Parent ==
    ASSUME NEW s \in Seq(Frame), s # <<>>, NEW x, NEW D, StackSound(s, {x}, D)
    PROVE  Child[Last(s).m] # <<>>
<1>1. FrameSound(Last(s), {x}, D)
  BY FrontSound
<1>2. Range(<<>>) = {}
  BY DEF Range
<1> QED
  BY <1>1, <1>2 DEF FrameSound

LEMMA EnterSound ==
    ASSUME NEW t, TaskOK(t), t.at = "fetch", t.copies = <<>>, NEW B, NEW S, NEW G,
           Sound(t, B, S, S \cup G)
    PROVE  Sound(Enter(t), B, S, S \cup G)
<1> DEFINE m == t.want
           f == [m |-> m, todo |-> Child[m]]
           s == Append(t.stack, f)
           u == [t EXCEPT !.visited = @ \cup {m}, !.stack = s]
           D == S \cup G
<1>1. /\ t \in Task /\ m \in Manifests /\ f \in Frame /\ f.m = m /\ f.todo = Child[m]
      /\ t.stack \in Seq(Frame)
  BY ShapeAssumption DEF TaskOK, Frame, Task
<1>2. StackSound(t.stack, {m}, D) /\ SeenSound(t.visited, t.stack, S)
  BY DEF Sound
<1> HIDE DEF m, f, D
<1>3. s \in Seq(Frame) /\ s # <<>> /\ Last(s) = f
  <2>1. s \in Seq(Frame) /\ Len(s) = Len(t.stack) + 1 /\ s[Len(t.stack) + 1] = f
        /\ Len(t.stack) \in Nat
    BY <1>1, AppendProperties, LenProperties
  <2>2. Len(<<>>) = 0
    OBVIOUS
  <2> QED
    BY <2>1, <2>2 DEF Last
<1>4. FrameSound(f, {}, D)
  BY <1>1 DEF FrameSound
<1>5. StackSound(s, {}, D) /\ SeenSound(t.visited \cup {m}, s, S)
  BY <1>1, <1>2, <1>4, PushSound, SeenKept
<1> HIDE DEF s
<1>6. /\ u \in Task /\ u.stack = s /\ u.copies = <<>> /\ u.visited = t.visited \cup {m}
  BY <1>1, <1>3 DEF Task
<1> HIDE DEF u
<1>7. CASE m \in t.visited
  <2>1. m \in S
    BY <1>1, <1>2, <1>7, NotBelowItself DEF SeenSound
  <2>2. StackSound(t.stack, {}, D)
    BY <1>1, <1>2, <2>1, DoneSound DEF D
  <2>3. Enter(t) = Resume(t)
    BY <1>7 DEF Enter, m
  <2> QED
    BY <1>1, <1>2, <2>2, <2>3, Parent, ResumeSound DEF D
<1>8. CASE m \notin t.visited /\ Child[m] # <<>>
  <2>1. Enter(t) = Resume(u)
    BY <1>8 DEF Enter, m, f, u, s
  <2>2. /\ StackSound(u.stack, {}, D) /\ SeenSound(u.visited, u.stack, S)
        /\ Child[Last(u.stack).m] # <<>>
    BY <1>1, <1>3, <1>5, <1>6, <1>8
  <2>3. Sound(Resume(u), B, S, D)
    BY <1>6, <2>2, ResumeSound
  <2> QED
    BY <2>1, <2>3 DEF D
<1>9. CASE m \notin t.visited /\ Child[m] = <<>>
  <2> DEFINE c == [i \in 1..Len(Desc[m]) |-> "check"]
  <2>1. Enter(t) = [u EXCEPT !.at = "blobs", !.copies = c]
    BY <1>9 DEF Enter, m, f, u, s
  <2>2. \A i \in DOMAIN c : c[i] = "check"
    OBVIOUS
  <2> HIDE DEF c
  <2>3. /\ Enter(t).at = "blobs" /\ Enter(t).copies = c /\ Enter(t).stack = s
        /\ Enter(t).visited = t.visited \cup {m}
    BY <1>6, <2>1 DEF Task
  <2> QED
    BY <1>1, <1>3, <1>5, <1>9, <2>2, <2>3 DEF Sound, D
<1> QED
  BY <1>7, <1>8, <1>9

\* What a repository holds, and with it what the upstream was found not to have.
StoredOf(r) == {m \in Manifests : <<r, m>> \in stored}
KnownOf(r) == StoredOf(r) \cup {m \in Manifests : <<r, m>> \in gone}
SInv ==
    /\ TInv /\ StoredWithDependencies
    /\ \A j \in Jobs, r \in Repos : Sound(task[j][r], blobs, StoredOf(r), KnownOf(r))

\* A task that copies no manifest is sound, and so is one that starts with a tag.
LEMMA IdleSound ==
    ASSUME NEW t, t.at \notin {"fetch", "blobs", "store"}, t.copies = <<>>, NEW B, NEW S, NEW D
    PROVE  Sound(t, B, S, D)
BY DEF Sound

LEMMA NextTagSound ==
    ASSUME NEW t \in Task, t.copies = <<>>, NEW B, NEW S, NEW D
    PROVE  Sound(NextTag(t), B, S, D)
<1>1. CASE t.tags = <<>>
  BY <1>1, IdleSound DEF NextTag, Task
<1>2. CASE t.tags # <<>>
  <2>1. /\ NextTag(t).at = "fetch" /\ NextTag(t).stack = <<>> /\ NextTag(t).visited = {}
        /\ NextTag(t).copies = <<>>
    BY <1>2 DEF NextTag, Task
  <2>2. 1..Len(<<>>) = {} /\ DOMAIN <<>> = {}
    OBVIOUS
  <2> QED
    BY <2>1, <2>2 DEF Sound, StackSound, SeenSound
<1> QED
  BY <1>1, <1>2

\* The blobs of an image are there when none of its copies failed.
LEMMA JoinSound ==
    ASSUME NEW t, TaskOK(t), CopiesFit(t), t.at = "blobs", NEW B, NEW S, NEW D, Sound(t, B, S, D),
           \A i \in DOMAIN t.copies : t.copies[i] \in {"present", "copied"},
           NEW u, u.at = "store", u.stack = t.stack, u.visited = t.visited, u.copies = <<>>
    PROVE  Sound(u, B, S, D)
<1> DEFINE f == Last(t.stack)
<1>1. t.stack \in Seq(Frame) /\ t.stack # <<>> /\ f \in Frame /\ t.copies \in Seq(CopyStages)
  BY StackOK DEF TaskOK, Task
<1>2. /\ Child[f.m] = <<>> /\ StackSound(t.stack, {}, D) /\ SeenSound(t.visited, t.stack, S)
      /\ \A i \in DOMAIN t.copies : Desc[f.m][i] \in B
  BY DEF Sound, Wants
<1>3. f.m \in Manifests /\ f.todo \in Seq(Manifests)
  BY <1>1 DEF Frame
<1>4. DOMAIN Desc[f.m] = DOMAIN t.copies
  <2>1. Len(Desc[f.m]) = Len(t.copies) /\ Desc[f.m] \in Seq(Blobs)
    BY <1>3, ShapeAssumption DEF CopiesFit
  <2> QED
    BY <1>1, <2>1, LenProperties
<1>5. Range(Desc[f.m]) \subseteq B
  BY <1>2, <1>4 DEF Range
<1>6. f.todo = <<>>
  <2>1. FrameSound(f, {}, D)
    BY <1>1, <1>2, FrontSound
  <2>2. Range(f.todo) \subseteq {}
    BY <1>2, <2>1 DEF FrameSound, Range
  <2>3. CASE f.todo # <<>>
    BY <1>3, <2>2, <2>3, RangeHead
  <2> QED
    BY <2>3
<1> QED
  BY <1>2, <1>5, <1>6 DEF Sound

LEMMA StoreSound ==
    ASSUME NEW t \in Task, t.at = "store", t.stack # <<>>, t.copies = <<>>,
           NEW B, NEW S, NEW D, Sound(t, B, S, D)
    PROVE  LET m == Last(t.stack).m
               u == [t EXCEPT !.stack = Front(@)]
           IN  /\ Range(Desc[m]) \subseteq B /\ Range(Child[m]) \subseteq D
               /\ Sound(Resume(u), B, S \cup {m}, D \cup {m})
<1> DEFINE f == Last(t.stack)
           m == f.m
           s == Front(t.stack)
           u == [t EXCEPT !.stack = s]
<1>1. t.stack \in Seq(Frame) /\ f \in Frame /\ s \in Seq(Frame)
  BY StackOK DEF Task
<1>2. /\ StackSound(t.stack, {}, D) /\ SeenSound(t.visited, t.stack, S)
      /\ f.todo = <<>> /\ Range(Desc[m]) \subseteq B
  BY DEF Sound
<1>3. StackSound(s, {m}, D) /\ FrameSound(f, {}, D)
  BY <1>1, <1>2, FrontSound
<1>4. Range(Child[m]) \subseteq D
  <2>1. Range(<<>>) = {}
    BY DEF Range
  <2> QED
    BY <1>2, <1>3, <2>1 DEF FrameSound
<1>5. u \in Task /\ u.stack = s /\ u.copies = <<>> /\ u.visited = t.visited
  BY <1>1 DEF Task
<1> HIDE DEF u
<1>6. SeenSound(u.visited, u.stack, S \cup {m})
  BY <1>1, <1>2, <1>5, SeenFront
<1>7. StackSound(u.stack, {}, D \cup {m})
  BY <1>1, <1>3, <1>5, DoneSound
<1>8. u.stack # <<>> => Child[Last(u.stack).m] # <<>>
  BY <1>1, <1>3, <1>5, Parent
<1>9. Sound(Resume(u), B, S \cup {m}, D \cup {m})
  BY <1>5, <1>6, <1>7, <1>8, ResumeSound
<1> QED
  BY <1>2, <1>4, <1>9 DEF u

LEMMA RepoSound ==
    ASSUME SInv, NEW j \in Jobs, NEW r \in Repos, RepoStep(j, r)
    PROVE  /\ Sound(task'[j][r], blobs', StoredOf(r)', KnownOf(r)')
           /\ stored \subseteq stored' /\ gone \subseteq gone' /\ blobs' = blobs
           /\ StoredWithDependencies'
<1> DEFINE t == task[j][r]
           v == task'[j][r]
           S == StoredOf(r)
           D == KnownOf(r)
<1>1. TaskOK(t) /\ t \in Task /\ CopiesFit(t) /\ Sound(t, blobs, S, D) /\ TInv
  BY DEF SInv, TInv, IInv, Shape
<1>2. TaskOK(v) /\ NoneBegun(v) /\ blobs' = blobs
  BY <1>1, RepoTask
<1>3. ASSUME NEW u, Set(j, r, u) PROVE v = u
  BY <1>1, <1>3 DEF Set, TInv, IInv, Shape
<1>4. t.at # "blobs" => t.copies = <<>>
  BY <1>1 DEF CopiesFit
<1>5. Sound(v, blobs, S, D) /\ UNCHANGED <<stored, gone>> =>
        Sound(v, blobs', S', D') /\ StoredWithDependencies'
  BY <1>2 DEF SInv, StoredWithDependencies, StoredOf, KnownOf
<1>6. Sound(Failed(t), blobs, S, D)
  BY <1>1, IdleSound DEF Failed, Task
<1>7. CASE StartRepo(j, r) \/ CountRepo(j, r)
  <2> DEFINE a == [NoTask EXCEPT !.at = "list"]
             b == [NoTask EXCEPT !.at = "done"]
  <2>1. (Set(j, r, a) \/ Set(j, r, b)) /\ UNCHANGED <<stored, gone>>
    BY <1>7 DEF StartRepo, CountRepo, content
  <2>2. a.copies = <<>> /\ b.copies = <<>> /\ a.at = "list" /\ b.at = "done"
    BY DEF NoTask
  <2> HIDE DEF a, b, S, D
  <2>3. Sound(v, blobs, S, D)
    BY <1>3, <2>1, <2>2, IdleSound
  <2> QED
    BY <1>2, <1>5, <2>1, <2>3 DEF S, D
<1>8. CASE ListTags(j, r)
  <2> DEFINE a == [t EXCEPT !.at = "total", !.tags = Tagged[r]]
             b == [t EXCEPT !.at = "repo"]
  <2>1. (Set(j, r, a) \/ Set(j, r, b)) /\ UNCHANGED <<stored, gone>> /\ t.at = "list"
    BY <1>8 DEF ListTags, content
  <2>2. a.copies = <<>> /\ b.copies = <<>> /\ a.at = "total" /\ b.at = "repo"
    BY <1>1, <1>4, <2>1 DEF Task
  <2> HIDE DEF a, b, S, D
  <2>3. Sound(v, blobs, S, D)
    BY <1>3, <2>1, <2>2, IdleSound
  <2> QED
    BY <1>2, <1>5, <2>1, <2>3 DEF S, D
<1>9. CASE AddTagsTotal(j, r) \/ CountTag(j, r)
  <2>1. Set(j, r, NextTag(t)) /\ UNCHANGED <<stored, gone>> /\ t.copies = <<>>
    BY <1>4, <1>9 DEF AddTagsTotal, CountTag, content
  <2>2. Sound(NextTag(t), blobs, S, D)
    BY <1>1, <2>1, NextTagSound
  <2> QED
    BY <1>2, <1>3, <1>5, <2>1, <2>2
<1>10. CASE FetchReference(j, r)
  <2>1. t.at = "fetch" /\ t.copies = <<>> /\ UNCHANGED stored
    BY <1>4, <1>10 DEF FetchReference
  <2>2. CASE UNCHANGED gone /\ (Set(j, r, Enter(t)) \/ Set(j, r, Failed(t)))
    <3>1. Sound(Enter(t), blobs, S, D)
      <4> DEFINE G == {m \in Manifests : <<r, m>> \in gone}
      <4>1. Sound(t, blobs, S, S \cup G)
        BY <1>1 DEF KnownOf
      <4> HIDE DEF S, G
      <4>2. Sound(Enter(t), blobs, S, S \cup G)
        BY <1>1, <2>1, <4>1, EnterSound
      <4> QED
        BY <4>2 DEF S, G, KnownOf
    <3> QED
      BY <1>2, <1>3, <1>5, <1>6, <2>1, <2>2, <3>1
  <2>3. CASE gone' = gone \cup {<<r, t.want>>} /\ Set(j, r, Resume(t))
    <3>1. StackSound(t.stack, {t.want}, D) /\ SeenSound(t.visited, t.stack, S)
          /\ t.stack \in Seq(Frame) /\ t.want \in Manifests
      BY <1>1, <2>1 DEF Sound, TaskOK, Task
    <3>2. D \cup {t.want} \subseteq D' /\ S' = S
      BY <2>1, <2>3, <3>1 DEF KnownOf, StoredOf
    <3>3. StackSound(t.stack, {}, D')
      BY <3>1, <3>2, DoneSound
    <3>4. Sound(Resume(t), blobs, S, D')
      BY <1>1, <2>1, <3>1, <3>3, Parent, ResumeSound
    <3>5. StoredWithDependencies'
      BY <1>2, <2>1, <2>3 DEF SInv, StoredWithDependencies
    <3> QED
      BY <1>2, <1>3, <2>1, <2>3, <3>2, <3>4, <3>5
  <2> QED
    BY <1>10, <2>2, <2>3 DEF FetchReference
<1>11. CASE JoinBlobs(j, r)
  <2> DEFINE n == Cardinality({i \in DOMAIN t.copies : t.copies[i] = "copied"})
             u == [t EXCEPT !.at = "store", !.copies = <<>>, !.copied = @ + n]
  <2>1. t.at = "blobs" /\ UNCHANGED <<stored, gone>>
        /\ \/ Set(j, r, Failed(t))
           \/ Set(j, r, u) /\ \A i \in DOMAIN t.copies : t.copies[i] \in Ended \ {"failed"}
    BY <1>11 DEF JoinBlobs, content
  <2> HIDE DEF n
  <2>2. u.at = "store" /\ u.stack = t.stack /\ u.visited = t.visited /\ u.copies = <<>>
    BY <1>1 DEF Task
  <2> HIDE DEF u
  <2>3. CASE Set(j, r, u) /\ \A i \in DOMAIN t.copies : t.copies[i] \in Ended \ {"failed"}
    <3>1. Sound(u, blobs, S, D)
      BY <1>1, <2>1, <2>2, <2>3, JoinSound DEF Ended
    <3> QED
      BY <1>2, <1>3, <1>5, <2>1, <2>3, <3>1
  <2> QED
    BY <1>2, <1>3, <1>5, <1>6, <2>1, <2>3
<1>12. CASE StoreManifest(j, r)
  <2> DEFINE m == Last(t.stack).m
             u == [t EXCEPT !.stack = Front(@)]
  <2>1. t.at = "store" /\ t.copies = <<>> /\ t.stack # <<>> /\ UNCHANGED gone
    BY <1>1, <1>4, <1>12 DEF StoreManifest, TaskOK
  <2>2. CASE Set(j, r, Failed(t)) /\ UNCHANGED stored
    BY <1>2, <1>3, <1>5, <1>6, <2>1, <2>2
  <2>3. CASE stored' = stored \cup {<<r, m>>} /\ Set(j, r, Resume(u))
    <3>1. /\ Range(Desc[m]) \subseteq blobs /\ Range(Child[m]) \subseteq D
          /\ Sound(Resume(u), blobs, S \cup {m}, D \cup {m})
      <4> HIDE DEF S, D
      <4> QED
        BY <1>1, <2>1, StoreSound
    <3>2. m \in Manifests
      BY <1>1, <2>1, StackOK DEF Task, Frame
    <3>3. S' = S \cup {m} /\ D' = D \cup {m}
      BY <2>1, <2>3, <3>2 DEF StoredOf, KnownOf
    <3>4. StoredWithDependencies'
      <4>1. \A c \in Range(Child[m]) : <<r, c>> \in stored \cup gone
        BY <3>1 DEF KnownOf, StoredOf
      <4> QED
        BY <1>2, <2>1, <2>3, <3>1, <4>1 DEF SInv, StoredWithDependencies
    <3>5. v = Resume(u)
      <4> HIDE DEF u
      <4> QED
        BY <1>3, <2>3
    <3> QED
      BY <1>2, <2>1, <2>3, <3>1, <3>3, <3>4, <3>5
  <2> QED
    BY <1>12, <2>1, <2>2, <2>3 DEF StoreManifest
<1> QED
  BY <1>7, <1>8, <1>9, <1>10, <1>11, <1>12 DEF RepoStep

LEMMA CopySound ==
    ASSUME SInv, NEW j \in Jobs, NEW r \in Repos, NEW i \in DOMAIN task[j][r].copies,
           CopyStep(j, r, i)
    PROVE  /\ Sound(task'[j][r], blobs', StoredOf(r)', KnownOf(r)')
           /\ UNCHANGED <<stored, gone>> /\ blobs \subseteq blobs' /\ StoredWithDependencies'
<1> DEFINE t == task[j][r]
           u == task'[j][r]
           S == StoredOf(r)
           D == KnownOf(r)
           b == Wants(t, i)
<1>1. TaskOK(t) /\ CopiesFit(t) /\ Sound(t, blobs, S, D) /\ TInv
  BY DEF SInv, TInv, IInv, Shape
<1>2. /\ CopyKind(j, r, i, t.copies[i], u.copies[i], b) /\ SameBut(t, u, i)
      /\ UNCHANGED <<stored, gone>>
  BY <1>1, CopyKinds
<1>3. blobs \subseteq blobs' /\ (u.copies[i] \in {"present", "copied"} => b \in blobs')
  BY <1>2 DEF CopyKind
<1>4. S' = S /\ D' = D
  BY <1>2 DEF StoredOf, KnownOf
<1>5. t.at = "blobs"
  BY <1>1, Wanted
<1>6. /\ u.at = "blobs" /\ u.stack = t.stack /\ u.visited = t.visited
      /\ DOMAIN u.copies = DOMAIN t.copies /\ \A k \in DOMAIN t.copies : Wants(u, k) = Wants(t, k)
      /\ \A k \in DOMAIN t.copies : k # i => u.copies[k] = t.copies[k]
  BY <1>2, <1>5 DEF SameBut, Wants
<1> HIDE DEF t, u, S, D, b
<1>7. \A k \in DOMAIN u.copies : u.copies[k] \in {"present", "copied"} => Wants(u, k) \in blobs'
  <2>1. \A k \in DOMAIN t.copies : t.copies[k] \in {"present", "copied"} => Wants(t, k) \in blobs
    BY <1>1 DEF Sound
  <2> QED
    BY <1>3, <1>6, <2>1 DEF b
<1>8. Sound(u, blobs', S, D)
  BY <1>1, <1>5, <1>6, <1>7 DEF Sound
<1>9. StoredWithDependencies'
  BY <1>2, <1>3 DEF SInv, StoredWithDependencies
<1> QED
  BY <1>2, <1>3, <1>4, <1>8, <1>9 DEF u, S, D

LEMMA StepSInv == SInv /\ [Next]_vars => SInv'
<1> SUFFICES ASSUME SInv, [Next]_vars PROVE SInv'
  OBVIOUS
<1>1. TInv /\ TInv'
  BY StepTInv DEF SInv
<1> DEFINE Known == \A j \in Jobs, r \in Repos : Sound(task[j][r], blobs, StoredOf(r), KnownOf(r))
<1>2. Known /\ StoredWithDependencies
  BY DEF SInv
<1>3. ASSUME blobs \subseteq blobs', stored \subseteq stored', gone \subseteq gone',
             NEW j \in Jobs, NEW r \in Repos, task'[j][r] = task[j][r]
      PROVE  Sound(task'[j][r], blobs', StoredOf(r)', KnownOf(r)')
  <2> DEFINE S == StoredOf(r)
             D == KnownOf(r)
  <2>1. S \subseteq S' /\ D \subseteq D'
    BY <1>3 DEF StoredOf, KnownOf
  <2>2. Sound(task[j][r], blobs, S, D)
    BY <1>2
  <2> HIDE DEF S, D
  <2>3. Sound(task[j][r], blobs', S', D')
    BY <1>3, <2>1, <2>2, SoundGrows
  <2> QED
    BY <1>3, <2>3 DEF S, D
<1>4. CASE UNCHANGED <<task, blobs, stored, gone>>
  <2>1. Known' /\ StoredWithDependencies'
    BY <1>2, <1>4 DEF StoredWithDependencies, StoredOf, KnownOf
  <2> QED
    BY <1>1, <2>1 DEF SInv
<1>5. CASE Restart
  <2>1. /\ UNCHANGED <<blobs, stored, gone>>
        /\ \A j \in Jobs, r \in Repos : task'[j][r].at = "none" /\ task'[j][r].copies = <<>>
    BY <1>5 DEF Restart, content, NoTask
  <2>2. StoredWithDependencies'
    BY <1>2, <2>1 DEF StoredWithDependencies
  <2>3. Known'
    BY <2>1, IdleSound
  <2> QED
    BY <1>1, <2>2, <2>3 DEF SInv
<1>6. CASE \E j \in Jobs, r \in Repos : RepoStep(j, r)
  <2>1. PICK j \in Jobs, r \in Repos : RepoStep(j, r)
    BY <1>6
  <2>2. /\ Sound(task'[j][r], blobs', StoredOf(r)', KnownOf(r)') /\ StoredWithDependencies'
        /\ blobs \subseteq blobs' /\ stored \subseteq stored' /\ gone \subseteq gone'
    BY <2>1, RepoSound
  <2>3. \A k \in Jobs, q \in Repos : <<k, q>> # <<j, r>> => task'[k][q] = task[k][q]
    BY <1>1, <2>1, RepoTask
  <2>4. ASSUME NEW k \in Jobs, NEW q \in Repos
        PROVE  Sound(task'[k][q], blobs', StoredOf(q)', KnownOf(q)')
    BY <1>3, <2>2, <2>3
  <2>5. Known'
    BY <2>4
  <2> QED
    BY <1>1, <2>2, <2>5 DEF SInv
<1>7. CASE \E j \in Jobs, r \in Repos : \E i \in DOMAIN task[j][r].copies : CopyStep(j, r, i)
  <2>1. PICK j \in Jobs, r \in Repos : \E i \in DOMAIN task[j][r].copies : CopyStep(j, r, i)
    BY <1>7
  <2>2. PICK i \in DOMAIN task[j][r].copies : CopyStep(j, r, i)
    BY <2>1
  <2>3. /\ Sound(task'[j][r], blobs', StoredOf(r)', KnownOf(r)') /\ StoredWithDependencies'
        /\ blobs \subseteq blobs' /\ stored \subseteq stored' /\ gone \subseteq gone'
    BY <2>2, CopySound
  <2>4. \A k \in Jobs, q \in Repos : <<k, q>> # <<j, r>> => task'[k][q] = task[k][q]
    BY <1>1, <2>2, CopyKinds
  <2>5. ASSUME NEW k \in Jobs, NEW q \in Repos
        PROVE  Sound(task'[k][q], blobs', StoredOf(q)', KnownOf(q)')
    BY <1>3, <2>3, <2>4
  <2>6. Known'
    BY <2>5
  <2> QED
    BY <1>1, <2>3, <2>6 DEF SInv
<1>8. CASE \E k \in Jobs : StartImport(k) \/ DropHandler(k) \/ JobStep(k)
  BY <1>4, <1>8 DEF StartImport, DropHandler, JobStep, Spawn, Enumerate, SetReposTotal, CopyDone,
                    FinishJob, content
<1>9. CASE UNCHANGED vars
  BY <1>4, <1>9 DEF vars, content
<1> QED
  BY <1>5, <1>6, <1>7, <1>8, <1>9 DEF Next, Work

LEMMA SoundAlways == Spec => []SInv
<1>1. Init => SInv
  <2> SUFFICES ASSUME Init PROVE SInv
    OBVIOUS
  <2>1. \A j \in Jobs, r \in Repos : task[j][r].at = "none" /\ task[j][r].copies = <<>>
    BY DEF Init, NoTask
  <2>2. \A j \in Jobs, r \in Repos : Sound(task[j][r], blobs, StoredOf(r), KnownOf(r))
    BY <2>1, IdleSound
  <2>3. StoredWithDependencies
    BY DEF Init, StoredWithDependencies
  <2> QED
    BY <2>2, <2>3, InitTInv DEF SInv
<1> QED
  BY <1>1, StepSInv, PTL DEF Spec

\* A manifest is stored after its blobs and after its children, through any nesting of
\* indexes that share children, and whatever fails on the way (import.rs, copy_reference).
THEOREM DependenciesFirst == Spec => []StoredWithDependencies
<1>1. SInv => StoredWithDependencies
  BY DEF SInv
<1> QED
  BY SoundAlways, <1>1, PTL

-----------------------------------------------------------------------------
(***************************************************************************)
(* Counting: what a job's tasks have left and what they owe its row, as    *)
(* the size of a set, since the repositories are any finite number.        *)
(***************************************************************************)
Grid(n) == UNION {{r} \X (1..n[r]) : r \in Repos}

LEMMA GridFinite ==
    ASSUME NEW n \in [Repos -> Nat] PROVE IsFiniteSet(Grid(n)) /\ Cardinality(Grid(n)) \in Nat
<1> DEFINE P == {{r} \X (1..n[r]) : r \in Repos}
<1>1. IsFiniteSet(P)
  <2> DEFINE f == [r \in Repos |-> {r} \X (1..n[r])]
  <2>1. f \in Surjection(Repos, P)
    BY DEF Surjection
  <2> QED
    BY <2>1, ReposFinite, FS_Surjection
<1>2. ASSUME NEW X \in P PROVE IsFiniteSet(X)
  <2>1. PICK r \in Repos : X = {r} \X (1..n[r])
    BY <1>2
  <2>2. IsFiniteSet({r}) /\ IsFiniteSet(1..n[r])
    <3>1. n[r] \in Int /\ 1 \in Int
      OBVIOUS
    <3> QED
      BY <3>1, FS_Singleton, FS_Interval
  <2> QED
    BY <2>1, <2>2, FS_Product
<1>3. IsFiniteSet(UNION P)
  BY <1>1, <1>2, FS_UNION
<1> QED
  BY <1>3, FS_CardinalityType DEF Grid

LEMMA GridChange ==
    ASSUME NEW n \in [Repos -> Nat], NEW m \in [Repos -> Nat], NEW r \in Repos,
           \A q \in Repos : q # r => m[q] = n[q]
    PROVE  Cardinality(Grid(m)) + n[r] = Cardinality(Grid(n)) + m[r]
<1> DEFINE Rest(k) == UNION {{q} \X (1..k[q]) : q \in Repos \ {r}}
           Own(k) == {r} \X (1..k[r])
<1>1. ASSUME NEW k \in [Repos -> Nat]
      PROVE  IsFiniteSet(Rest(k)) /\ Cardinality(Grid(k)) = Cardinality(Rest(k)) + k[r]
  <2>1. Grid(k) = Rest(k) \cup Own(k)
    BY DEF Grid
  <2>2. Rest(k) \cap Own(k) = {}
    OBVIOUS
  <2>3. IsFiniteSet(Rest(k)) /\ IsFiniteSet(Own(k))
    BY <2>1, GridFinite, FS_Subset
  <2>4. Cardinality(Own(k)) = k[r]
    <3>1. IsFiniteSet({r}) /\ Cardinality({r}) = 1
      BY FS_Singleton
    <3>2. IsFiniteSet(1..k[r]) /\ Cardinality(1..k[r]) = k[r]
      <4>1. k[r] \in Nat
        OBVIOUS
      <4> QED
        BY <4>1, FS_Interval
    <3>3. Cardinality(Own(k)) = 1 * k[r]
      BY <3>1, <3>2, FS_Product
    <3> QED
      BY <3>3
  <2> HIDE DEF Rest, Own
  <2>5. Cardinality(Grid(k)) = Cardinality(Rest(k)) + Cardinality(Own(k)) - Cardinality({})
    BY <2>1, <2>2, <2>3, FS_Union
  <2>6. Cardinality({}) = 0 /\ Cardinality(Rest(k)) \in Nat
    BY <2>3, FS_EmptySet, FS_CardinalityType
  <2> QED
    BY <2>3, <2>4, <2>5, <2>6
<1>2. Rest(m) = Rest(n)
  OBVIOUS
<1> HIDE DEF Rest
<1>3. Cardinality(Rest(n)) \in Nat
  BY <1>1, FS_CardinalityType
<1> QED
  BY <1>1, <1>2, <1>3

Tagging == {"fetch", "blobs", "store", "count"}
CopiedNow(t) == {i \in DOMAIN t.copies : t.copies[i] = "copied"}
\* The tags that a task has to count, and the blobs that it has to count.
TagsLeft(t) == IF t.at \in Tagging THEN Len(t.tags) + 1 ELSE 0
BlobsOwed(t) == IF t.at \in Tagging THEN t.copied + Cardinality(CopiedNow(t)) ELSE 0
Left(T) == [r \in Repos |-> TagsLeft(T[r])]
Owed(T) == [r \in Repos |-> BlobsOwed(T[r])]

LEMMA CopiedFinite ==
    ASSUME NEW t \in Task
    PROVE  /\ IsFiniteSet(CopiedNow(t)) /\ Cardinality(CopiedNow(t)) \in Nat
           /\ t.copies = <<>> => Cardinality(CopiedNow(t)) = 0
<1>1. DOMAIN t.copies = 1..Len(t.copies) /\ Len(t.copies) \in Nat
  BY LenProperties DEF Task
<1>2. IsFiniteSet(1..Len(t.copies))
  BY <1>1, FS_Interval
<1>3. CopiedNow(t) \subseteq 1..Len(t.copies)
  BY <1>1 DEF CopiedNow
<1>4. t.copies = <<>> => CopiedNow(t) = {}
  BY DEF CopiedNow
<1> QED
  BY <1>2, <1>3, <1>4, FS_Subset, FS_CardinalityType, FS_EmptySet

LEMMA MeasureType == ASSUME NEW t \in Task PROVE TagsLeft(t) \in Nat /\ BlobsOwed(t) \in Nat
<1>1. Len(t.tags) \in Nat /\ t.copied \in Nat
  BY LenProperties DEF Task
<1> QED
  BY <1>1, CopiedFinite DEF TagsLeft, BlobsOwed

\* One task of a job moves.
LEMMA TaskMeasure ==
    ASSUME NEW T \in [Repos -> Task], NEW U \in [Repos -> Task], NEW r \in Repos,
           \A q \in Repos : q # r => U[q] = T[q]
    PROVE  /\ Cardinality(Grid(Left(U))) + TagsLeft(T[r]) = Cardinality(Grid(Left(T))) + TagsLeft(U[r])
           /\ Cardinality(Grid(Owed(U))) + BlobsOwed(T[r]) = Cardinality(Grid(Owed(T))) + BlobsOwed(U[r])
<1>1. /\ Left(T) \in [Repos -> Nat] /\ Left(U) \in [Repos -> Nat]
      /\ Owed(T) \in [Repos -> Nat] /\ Owed(U) \in [Repos -> Nat]
  BY MeasureType DEF Left, Owed
<1>2. /\ \A q \in Repos : q # r => Left(U)[q] = Left(T)[q] /\ Owed(U)[q] = Owed(T)[q]
      /\ Left(T)[r] = TagsLeft(T[r]) /\ Left(U)[r] = TagsLeft(U[r])
      /\ Owed(T)[r] = BlobsOwed(T[r]) /\ Owed(U)[r] = BlobsOwed(U[r])
  BY DEF Left, Owed
<1> QED
  BY <1>1, <1>2, GridChange

-----------------------------------------------------------------------------
\* What a step of a copy task does to the measures and to the row.
RepoCounts(j, r) ==
    LET t == task[j][r]
        u == task'[j][r]
        W == row[j]
        V == row'[j]
    IN  /\ t.at # "done" /\ (u.at = "done" => t.at = "repo")
        /\ (t.at = "total" => t.tags = Tagged[r]) => (u.at = "total" => u.tags = Tagged[r])
        /\ unsaved \subseteq unsaved'
        /\ (t.at = "total" => t.tags = Tagged[r]) /\ j \notin unsaved' =>
            /\ V.status = W.status /\ V.repos_total = W.repos_total
            /\ TagsLeft(u) + V.tags_done + W.tags_total = TagsLeft(t) + W.tags_done + V.tags_total
            /\ BlobsOwed(u) + V.blobs_done <= BlobsOwed(t) + W.blobs_done
            /\ V.repos_done = W.repos_done + IF u.at = "done" THEN 1 ELSE 0

\* A task that leaves the row alone, and keeps its tags and what it owes.
LEMMA QuietCounts ==
    ASSUME IInv, NEW j \in Jobs, NEW r \in Repos, NEW u \in Task, task'[j][r] = u,
           UNCHANGED <<row, unsaved>>, task[j][r].at # "done", u.at # "done",
           u.at = "total" => u.tags = Tagged[r],
           TagsLeft(u) = TagsLeft(task[j][r]), BlobsOwed(u) <= BlobsOwed(task[j][r])
    PROVE  RepoCounts(j, r)
<1> DEFINE t == task[j][r]
           W == row[j]
<1>1. /\ W.tags_done \in Nat /\ W.tags_total \in Nat /\ W.blobs_done \in Nat
      /\ W.repos_done \in Nat /\ t \in Task
  BY DEF IInv, Shape, Row
<1>2. TagsLeft(t) \in Nat /\ BlobsOwed(t) \in Nat /\ TagsLeft(u) \in Nat /\ BlobsOwed(u) \in Nat
  BY <1>1, MeasureType
<1> QED
  BY <1>1, <1>2 DEF RepoCounts

\* A task within a tag keeps the tags it has left.
LEMMA TagKept ==
    ASSUME NEW t \in Task, NEW u \in Task, t.at \in Tagging, u.at \in Tagging, u.tags = t.tags,
           u.copies = <<>> \/ (\A i \in DOMAIN u.copies : u.copies[i] # "copied"),
           u.copied = 0 \/ u.copied = t.copied
    PROVE  TagsLeft(u) = TagsLeft(t) /\ BlobsOwed(u) <= BlobsOwed(t)
<1>1. CopiedNow(u) = {}
  BY DEF CopiedNow
<1>2. Cardinality(CopiedNow(u)) = 0 /\ Cardinality(CopiedNow(t)) \in Nat
  BY <1>1, CopiedFinite, FS_EmptySet
<1>3. t.copied \in Nat
  BY DEF Task
<1> QED
  BY <1>2, <1>3 DEF TagsLeft, BlobsOwed

LEMMA EnterTags ==
    ASSUME NEW t, TaskOK(t), t.at = "fetch"
    PROVE  Enter(t).tags = t.tags /\ Enter(t).copied = t.copied
<1> DEFINE m == t.want
           u == [t EXCEPT !.visited = @ \cup {m},
                          !.stack = Append(@, [m |-> m, todo |-> Child[m]])]
           c == [i \in 1..Len(Desc[m]) |-> "check"]
<1>1. t \in Task /\ m \in Manifests
  BY DEF TaskOK
<1>2. u \in Task /\ u.tags = t.tags /\ u.copied = t.copied
  <2> DEFINE f == [m |-> m, todo |-> Child[m]]
             s == Append(t.stack, f)
  <2>1. f \in Frame
    BY <1>1, ShapeAssumption DEF Frame
  <2> HIDE DEF f
  <2>2. s \in Seq(Frame)
    BY <1>1, <2>1, AppendProperties DEF Task
  <2>3. u = [t EXCEPT !.visited = @ \cup {m}, !.stack = s]
    BY DEF f
  <2> HIDE DEF s, u
  <2> QED
    BY <1>1, <2>2, <2>3 DEF Task
<1>3. \/ Enter(t) = Resume(t) \/ Enter(t) = Resume(u)
      \/ Enter(t) = [u EXCEPT !.at = "blobs", !.copies = c]
  BY DEF Enter
<1> HIDE DEF u, c
<1>4. CASE Enter(t) = Resume(t) \/ Enter(t) = Resume(u)
  BY <1>1, <1>2, <1>4, ResumeCopies
<1>5. CASE Enter(t) = [u EXCEPT !.at = "blobs", !.copies = c]
  BY <1>1, <1>2, <1>5 DEF Task
<1> QED
  BY <1>3, <1>4, <1>5

\* The tags left before and after the next tag is taken.
LEMMA NextTagCounts ==
    ASSUME NEW t \in Task, t.copies = <<>>
    PROVE  /\ TagsLeft(NextTag(t)) = Len(t.tags) /\ BlobsOwed(NextTag(t)) = 0
           /\ NextTag(t).at \in {"repo", "fetch"}
<1>1. CASE t.tags = <<>>
  <2>1. NextTag(t).at = "repo" /\ Len(t.tags) = 0
    BY <1>1 DEF NextTag, Task
  <2> QED
    BY <2>1 DEF TagsLeft, BlobsOwed, Tagging
<1>2. CASE t.tags # <<>>
  <2>1. /\ NextTag(t).at = "fetch" /\ NextTag(t).tags = Tail(t.tags)
        /\ NextTag(t).copied = 0 /\ NextTag(t).copies = <<>>
    BY <1>2 DEF NextTag, Task
  <2>2. Len(t.tags) \in Nat /\ Len(Tail(t.tags)) = Len(t.tags) - 1
    BY <1>2, HeadTailProperties, LenProperties DEF Task
  <2>3. CopiedNow(NextTag(t)) = {} /\ Cardinality({}) = 0
    BY <2>1, FS_EmptySet DEF CopiedNow
  <2> QED
    BY <2>1, <2>2, <2>3 DEF TagsLeft, BlobsOwed, Tagging
<1> QED
  BY <1>1, <1>2

LEMMA RepoCounted ==
    ASSUME TInv, NEW j \in Jobs, NEW r \in Repos, RepoStep(j, r)
    PROVE  RepoCounts(j, r)
<1> DEFINE t == task[j][r]
           v == task'[j][r]
           W == row[j]
           V == row'[j]
<1>1. TaskOK(t) /\ t \in Task /\ CopiesFit(t) /\ IInv /\ W \in Row /\ row \in [Jobs -> Row]
  BY DEF TInv, IInv, Shape
<1>2. TaskOK(v) /\ v \in Task /\ NoneBegun(v)
  BY RepoTask DEF TaskOK
<1>3. ASSUME NEW u, Set(j, r, u) PROVE v = u
  BY <1>1, <1>3 DEF Set, TInv, IInv, Shape
<1>4. t.at # "blobs" => t.copies = <<>>
  BY <1>1 DEF CopiesFit
<1>5. TagsLeft(t) \in Nat /\ BlobsOwed(t) \in Nat
  BY <1>1, MeasureType
<1>6. CASE StartRepo(j, r)
  <2> DEFINE a == [NoTask EXCEPT !.at = "list"]
  <2>1. Set(j, r, a) /\ UNCHANGED <<row, unsaved>> /\ t.at = "none"
    BY <1>6 DEF StartRepo, history
  <2>2. a.at = "list"
    BY DEF NoTask
  <2> HIDE DEF a
  <2>3. v.at = "list"
    BY <1>3, <2>1, <2>2
  <2>4. TagsLeft(v) = TagsLeft(t) /\ BlobsOwed(v) = BlobsOwed(t)
    BY <2>1, <2>3 DEF TagsLeft, BlobsOwed, Tagging
  <2> QED
    BY <1>1, <1>2, <1>5, <2>1, <2>3, <2>4, QuietCounts
<1>7. CASE ListTags(j, r)
  <2> DEFINE a == [t EXCEPT !.at = "total", !.tags = Tagged[r]]
             b == [t EXCEPT !.at = "repo"]
  <2>1. (Set(j, r, a) \/ Set(j, r, b)) /\ t.at = "list" /\ UNCHANGED <<row, unsaved>>
    BY <1>7 DEF ListTags, history
  <2>2. a.at = "total" /\ b.at = "repo" /\ a.tags = Tagged[r]
    BY <1>1 DEF Task
  <2> HIDE DEF a, b
  <2>3. (v.at = "total" /\ v.tags = Tagged[r]) \/ v.at = "repo"
    BY <1>3, <2>1, <2>2
  <2>4. TagsLeft(v) = TagsLeft(t) /\ BlobsOwed(v) = BlobsOwed(t)
    BY <2>1, <2>3 DEF TagsLeft, BlobsOwed, Tagging
  <2> QED
    BY <1>1, <1>2, <1>5, <2>1, <2>3, <2>4, QuietCounts
<1>8. CASE AddTagsTotal(j, r)
  <2> DEFINE n == Len(Tagged[r])
             new == [W EXCEPT !.tags_total = @ + n]
  <2>1. t.at = "total" /\ Update(j, new) /\ Set(j, r, NextTag(t))
    BY <1>8 DEF AddTagsTotal
  <2>2. v = NextTag(t) /\ t.copies = <<>>
    BY <1>3, <1>4, <2>1
  <2>3. TagsLeft(v) = Len(t.tags) /\ BlobsOwed(v) = 0 /\ v.at \in {"repo", "fetch"}
    BY <1>1, <2>2, NextTagCounts
  <2>4. TagsLeft(t) = 0 /\ BlobsOwed(t) = 0
    BY <2>1 DEF TagsLeft, BlobsOwed, Tagging
  <2>5. n \in Nat
    BY ShapeAssumption, LenProperties
  <2> HIDE DEF n
  <2>6. /\ new.status = W.status /\ new.repos_total = W.repos_total
        /\ new.tags_total = W.tags_total + n /\ new.tags_done = W.tags_done
        /\ new.blobs_done = W.blobs_done /\ new.repos_done = W.repos_done
    BY <1>1 DEF Row
  <2> HIDE DEF new
  <2>7. /\ unsaved \subseteq unsaved'
        /\ j \notin unsaved' => V = new
    BY <1>1, <2>1 DEF Update, history
  <2>8. t.tags = Tagged[r] => Len(t.tags) = n
    BY DEF n
  <2>9. W.tags_done \in Nat /\ W.tags_total \in Nat /\ W.blobs_done \in Nat /\ W.repos_done \in Nat
    BY <1>1 DEF Row
  <2> HIDE DEF t, v, W, V
  <2>10. v.at # "done" /\ v.at # "total" /\ t.at # "done"
    BY <2>1, <2>3
  <2>11. ASSUME t.tags = Tagged[r], j \notin unsaved'
         PROVE  /\ V.status = W.status /\ V.repos_total = W.repos_total
                /\ TagsLeft(v) + V.tags_done + W.tags_total = TagsLeft(t) + W.tags_done + V.tags_total
                /\ BlobsOwed(v) + V.blobs_done <= BlobsOwed(t) + W.blobs_done
                /\ V.repos_done = W.repos_done + 0
    BY <2>3, <2>4, <2>5, <2>6, <2>7, <2>8, <2>9, <2>11
  <2> QED
    BY <2>1, <2>7, <2>10, <2>11 DEF RepoCounts, t, v, W, V
<1>9. CASE CountTag(j, r)
  <2> DEFINE n == t.copied
             new == [W EXCEPT !.tags_done = @ + 1, !.blobs_done = @ + n]
  <2>1. t.at = "count" /\ Update(j, new) /\ Set(j, r, NextTag(t))
    BY <1>9 DEF CountTag
  <2>2. v = NextTag(t) /\ t.copies = <<>>
    BY <1>3, <1>4, <2>1
  <2>3. TagsLeft(v) = Len(t.tags) /\ BlobsOwed(v) = 0 /\ v.at \in {"repo", "fetch"}
    BY <1>1, <2>2, NextTagCounts
  <2>4. n \in Nat /\ Len(t.tags) \in Nat
    BY <1>1, LenProperties DEF Task
  <2>5. TagsLeft(t) = Len(t.tags) + 1 /\ BlobsOwed(t) = n
    BY <1>1, <2>1, <2>2, <2>4, CopiedFinite DEF TagsLeft, BlobsOwed, Tagging
  <2> HIDE DEF n
  <2>6. /\ new.status = W.status /\ new.repos_total = W.repos_total
        /\ new.tags_total = W.tags_total /\ new.tags_done = W.tags_done + 1
        /\ new.blobs_done = W.blobs_done + n /\ new.repos_done = W.repos_done
    BY <1>1 DEF Row
  <2> HIDE DEF new
  <2>7. /\ unsaved \subseteq unsaved'
        /\ j \notin unsaved' => V = new
    BY <1>1, <2>1 DEF Update, history
  <2>8. W.tags_done \in Nat /\ W.tags_total \in Nat /\ W.blobs_done \in Nat /\ W.repos_done \in Nat
    BY <1>1 DEF Row
  <2> HIDE DEF t, v, W, V
  <2>9. v.at # "done" /\ v.at # "total" /\ t.at # "done"
    BY <2>1, <2>3
  <2>10. ASSUME j \notin unsaved'
         PROVE  /\ V.status = W.status /\ V.repos_total = W.repos_total
                /\ TagsLeft(v) + V.tags_done + W.tags_total = TagsLeft(t) + W.tags_done + V.tags_total
                /\ BlobsOwed(v) + V.blobs_done <= BlobsOwed(t) + W.blobs_done
                /\ V.repos_done = W.repos_done + 0
    <3> DEFINE l == Len(t.tags)
    <3>1. V = new /\ l \in Nat /\ TagsLeft(v) = l /\ TagsLeft(t) = l + 1
      BY <2>3, <2>4, <2>5, <2>7, <2>10
    <3> HIDE DEF l
    <3>2. TagsLeft(v) + V.tags_done + W.tags_total = TagsLeft(t) + W.tags_done + V.tags_total
      BY <2>6, <2>8, <3>1
    <3>3. BlobsOwed(v) + V.blobs_done <= BlobsOwed(t) + W.blobs_done
      BY <2>3, <2>4, <2>5, <2>6, <2>8, <3>1
    <3> QED
      BY <2>6, <2>8, <3>1, <3>2, <3>3
  <2> QED
    BY <2>7, <2>9, <2>10 DEF RepoCounts, t, v, W, V
<1>10. CASE CountRepo(j, r)
  <2> DEFINE a == [NoTask EXCEPT !.at = "done"]
             new == [W EXCEPT !.repos_done = @ + 1]
  <2>1. t.at = "repo" /\ Update(j, new) /\ Set(j, r, a)
    BY <1>10 DEF CountRepo
  <2>2. a.at = "done"
    BY DEF NoTask
  <2> HIDE DEF a
  <2>3. v.at = "done"
    BY <1>3, <2>1, <2>2
  <2>4. TagsLeft(t) = 0 /\ BlobsOwed(t) = 0 /\ TagsLeft(v) = 0 /\ BlobsOwed(v) = 0
    BY <2>1, <2>3 DEF TagsLeft, BlobsOwed, Tagging
  <2>6. /\ new.status = W.status /\ new.repos_total = W.repos_total
        /\ new.tags_total = W.tags_total /\ new.tags_done = W.tags_done
        /\ new.blobs_done = W.blobs_done /\ new.repos_done = W.repos_done + 1
    BY <1>1 DEF Row
  <2> HIDE DEF new
  <2>7. /\ unsaved \subseteq unsaved'
        /\ j \notin unsaved' => V = new
    BY <1>1, <2>1 DEF Update, history
  <2>8. W.tags_done \in Nat /\ W.tags_total \in Nat /\ W.blobs_done \in Nat /\ W.repos_done \in Nat
    BY <1>1 DEF Row
  <2> HIDE DEF t, v, W, V
  <2> QED
    BY <2>1, <2>3, <2>4, <2>6, <2>7, <2>8 DEF RepoCounts, t, v, W, V
<1>11. CASE FetchReference(j, r)
  <2>1. t.at = "fetch" /\ t.copies = <<>> /\ UNCHANGED <<row, unsaved>>
    BY <1>4, <1>11 DEF FetchReference, history
  <2>2. Set(j, r, Enter(t)) \/ Set(j, r, Failed(t)) \/ Set(j, r, Resume(t))
    BY <1>11 DEF FetchReference
  <2>3. v.at \in Tagging
    BY <1>1, <1>3, <2>1, <2>2, EnterOK, FailedOK, ResumeOK DEF Tagging
  <2>4. v.tags = t.tags /\ (v.copied = 0 \/ v.copied = t.copied)
    BY <1>1, <1>3, <2>1, <2>2, EnterTags, ResumeCopies DEF Failed, Task
  <2>5. \A i \in DOMAIN v.copies : v.copies[i] # "copied"
    BY <1>2 DEF NoneBegun
  <2>6. TagsLeft(v) = TagsLeft(t) /\ BlobsOwed(v) <= BlobsOwed(t)
    BY <1>1, <1>2, <2>1, <2>3, <2>4, <2>5, TagKept DEF Tagging
  <2> QED
    BY <1>1, <1>2, <2>1, <2>3, <2>6, QuietCounts DEF Tagging
<1>12. CASE JoinBlobs(j, r)
  <2> DEFINE n == Cardinality(CopiedNow(t))
             u == [t EXCEPT !.at = "store", !.copies = <<>>, !.copied = @ + n]
  <2>1. t.at = "blobs" /\ (Set(j, r, u) \/ Set(j, r, Failed(t))) /\ UNCHANGED <<row, unsaved>>
    BY <1>12 DEF JoinBlobs, history, CopiedNow
  <2>2. n \in Nat /\ t.copied \in Nat
    BY <1>1, CopiedFinite DEF Task
  <2>3. BlobsOwed(t) = t.copied + n
    BY <2>1 DEF BlobsOwed, Tagging
  <2> HIDE DEF n
  <2>4. CASE Set(j, r, u)
    <3>1. u.at = "store" /\ u.tags = t.tags /\ u.copied = t.copied + n /\ u.copies = <<>>
      BY <1>1 DEF Task
    <3> HIDE DEF u
    <3>2. v = u
      BY <1>3, <2>4
    <3>3. TagsLeft(v) = TagsLeft(t)
      BY <2>1, <3>1, <3>2 DEF TagsLeft, Tagging
    <3>4. BlobsOwed(v) = BlobsOwed(t)
      <4>1. Cardinality(CopiedNow(v)) = 0
        BY <1>2, <3>1, <3>2, CopiedFinite
      <4> QED
        BY <2>2, <2>3, <3>1, <3>2, <4>1 DEF BlobsOwed, Tagging
    <3> QED
      BY <1>1, <1>2, <1>5, <2>1, <3>1, <3>2, <3>3, <3>4, QuietCounts
  <2>5. CASE Set(j, r, Failed(t))
    <3>1. /\ v.at = "count" /\ v.tags = t.tags /\ v.copied = 0 /\ v.copies = <<>>
      BY <1>1, <1>3, <2>5 DEF Failed, Task
    <3>2. TagsLeft(v) = TagsLeft(t) /\ BlobsOwed(v) <= BlobsOwed(t)
      BY <1>1, <1>2, <2>1, <3>1, TagKept DEF Tagging
    <3> QED
      BY <1>1, <1>2, <2>1, <3>1, <3>2, QuietCounts
  <2> QED
    BY <2>1, <2>4, <2>5
<1>13. CASE StoreManifest(j, r)
  <2> DEFINE u == [t EXCEPT !.stack = Front(@)]
  <2>1. t.at = "store" /\ t.copies = <<>> /\ (Set(j, r, Resume(u)) \/ Set(j, r, Failed(t)))
        /\ UNCHANGED <<row, unsaved>>
    BY <1>4, <1>13 DEF StoreManifest, history
  <2>2. u \in Task /\ u.tags = t.tags /\ u.copied = t.copied
    BY <1>1, <2>1, StackOK DEF Task, TaskOK
  <2> HIDE DEF u
  <2>3. v = Resume(u) \/ v = Failed(t)
    BY <1>3, <2>1
  <2>4. v.at \in Tagging
    <3>1. Failed(t).at = "count" /\ Resume(u).at \in {"count", "fetch", "store"}
      BY <1>1, <2>2, FailedOK, ResumeOK
    <3> QED
      BY <2>3, <3>1 DEF Tagging
  <2>5. v.tags = t.tags /\ (v.copied = 0 \/ v.copied = t.copied)
    <3>1. Failed(t).tags = t.tags /\ Failed(t).copied = 0
      BY <1>1 DEF Failed, Task
    <3>2. Resume(u).tags = u.tags /\ Resume(u).copied = u.copied
      BY <2>2, ResumeCopies
    <3> QED
      BY <2>2, <2>3, <3>1, <3>2
  <2>6. \A i \in DOMAIN v.copies : v.copies[i] # "copied"
    BY <1>2 DEF NoneBegun
  <2>7. TagsLeft(v) = TagsLeft(t) /\ BlobsOwed(v) <= BlobsOwed(t)
    BY <1>1, <1>2, <2>1, <2>4, <2>5, <2>6, TagKept DEF Tagging
  <2> QED
    BY <1>1, <1>2, <2>1, <2>4, <2>7, QuietCounts DEF Tagging
<1> QED
  BY <1>6, <1>7, <1>8, <1>9, <1>10, <1>11, <1>12, <1>13 DEF RepoStep

Downloaded(F) == {b \in Blobs : F[b] > 0}
DoneRepos(T) == {r \in Repos : T[r].at = "done"}

\* While a job is there its row and its tasks together have all it was told; what
\* a job that is gone left is no more than that.
Exact(T, W, J, F) ==
    /\ W.blobs_done + Cardinality(Grid(Owed(T))) <= Cardinality(Downloaded(F))
    /\ W.tags_done + Cardinality(Grid(Left(T))) <= W.tags_total
    /\ W.repos_done <= W.repos_total
    /\ J.at # "gone" => /\ W.tags_done + Cardinality(Grid(Left(T))) = W.tags_total
                        /\ W.repos_done = Cardinality(DoneRepos(T))
    /\ J.at \in {"copy", "completed"} => W.repos_total = Cardinality(J.repos)
    /\ W.status = "completed" => W.repos_done = W.repos_total /\ W.tags_done = W.tags_total

Tally(T, W, J, F, saved) ==
    /\ IsFiniteSet(Downloaded(F)) /\ DoneRepos(T) \subseteq J.repos
    /\ J.at = "completed" => DoneRepos(T) = J.repos
    /\ \A r \in Repos : T[r].at = "total" => T[r].tags = Tagged[r]
    /\ saved => Exact(T, W, J, F)

CInv == LInv /\ \A j \in Jobs : Tally(task[j], row[j], job[j], fetched[j], j \notin unsaved)

LEMMA Measured ==
    ASSUME NEW T \in [Repos -> Task]
    PROVE  /\ Cardinality(Grid(Left(T))) \in Nat /\ Cardinality(Grid(Owed(T))) \in Nat
           /\ IsFiniteSet(DoneRepos(T)) /\ Cardinality(DoneRepos(T)) \in Nat
<1>1. Left(T) \in [Repos -> Nat] /\ Owed(T) \in [Repos -> Nat]
  BY MeasureType DEF Left, Owed
<1>2. DoneRepos(T) \subseteq Repos
  BY DEF DoneRepos
<1> QED
  BY <1>1, <1>2, GridFinite, ReposFinite, FS_Subset, FS_CardinalityType

\* Without a task in a tag nothing is left or owed.
LEMMA NothingLeft ==
    ASSUME NEW T, \A r \in Repos : T[r].at \notin Tagging
    PROVE  Cardinality(Grid(Left(T))) = 0 /\ Cardinality(Grid(Owed(T))) = 0
<1>1. \A r \in Repos : Left(T)[r] = 0 /\ Owed(T)[r] = 0
  BY DEF Left, Owed, TagsLeft, BlobsOwed
<1>2. 1..0 = {}
  OBVIOUS
<1>3. Grid(Left(T)) = {} /\ Grid(Owed(T)) = {}
  BY <1>1, <1>2 DEF Grid
<1> QED
  BY <1>3, FS_EmptySet

\* Copy tasks move only below a task that copies.
LEMMA CopiesWhere ==
    ASSUME IInv, NEW j \in Jobs, NEW r \in Repos,
           RepoStep(j, r) \/ task[j][r].at \notin {"none", "done"}
    PROVE  job[j].at = "copy" /\ r \in job[j].repos /\ row[j].status = "running"
<1>1. CopiesBelow(j) /\ RowFits(j)
  BY DEF IInv
<1>2. CASE task[j][r].at \notin {"none", "done"}
  BY <1>1, <1>2 DEF CopiesBelow, RowFits
<1>3. CASE RepoStep(j, r)
  <2>1. StartRepo(j, r) \/ task[j][r].at \notin {"none", "done"}
    BY <1>3 DEF RepoStep, ListTags, AddTagsTotal, CountTag, CountRepo, FetchReference, JoinBlobs,
                StoreManifest
  <2>2. CASE StartRepo(j, r)
    BY <1>1, <2>2 DEF StartRepo, RowFits
  <2> QED
    BY <1>2, <2>1, <2>2
<1> QED
  BY <1>2, <1>3

-----------------------------------------------------------------------------
(***************************************************************************)
(* The counters, step by step                                              *)
(***************************************************************************)
LEMMA RepoTally ==
    ASSUME CInv, NEW j \in Jobs, NEW r \in Repos, RepoStep(j, r)
    PROVE  Tally(task[j], row[j], job[j], fetched[j], j \notin unsaved)'
<1> DEFINE T == task[j]
           U == task'[j]
           W == row[j]
           V == row'[j]
           J == job[j]
           F == fetched[j]
           L == Cardinality(Grid(Left(T)))
           M == Cardinality(Grid(Left(U)))
           O == Cardinality(Grid(Owed(T)))
           P == Cardinality(Grid(Owed(U)))
           t == T[r]
           u == U[r]
<1>1. TInv /\ IInv /\ IInv'
  BY RepoTask DEF CInv, LInv, TInv
<1>2. /\ T \in [Repos -> Task] /\ U \in [Repos -> Task] /\ W \in Row /\ V \in Row
  BY <1>1 DEF IInv, Shape
<1>3. (\A q \in Repos : q # r => U[q] = T[q]) /\ UNCHANGED <<fetched, job>>
  BY <1>1, RepoTask
<1>4. M + TagsLeft(t) = L + TagsLeft(u) /\ P + BlobsOwed(t) = O + BlobsOwed(u)
  <2> HIDE DEF T, U
  <2> QED
    BY <1>2, <1>3, TaskMeasure
<1>5. L \in Nat /\ M \in Nat /\ O \in Nat /\ P \in Nat
  <2> HIDE DEF T, U
  <2> QED
    BY <1>2, Measured
<1>6. TagsLeft(t) \in Nat /\ TagsLeft(u) \in Nat /\ BlobsOwed(t) \in Nat /\ BlobsOwed(u) \in Nat
  BY <1>2, MeasureType
<1>7. Tally(T, W, J, F, j \notin unsaved)
  BY DEF CInv
<1>8. RepoCounts(j, r) /\ J.at = "copy" /\ r \in J.repos /\ W.status = "running"
  BY <1>1, RepoCounted, CopiesWhere
<1>9. /\ t.at # "done" /\ unsaved \subseteq unsaved'
      /\ \A q \in Repos : U[q].at = "total" => U[q].tags = Tagged[q]
      /\ j \notin unsaved' =>
            /\ V.status = W.status /\ V.repos_total = W.repos_total
            /\ TagsLeft(u) + V.tags_done + W.tags_total = TagsLeft(t) + W.tags_done + V.tags_total
            /\ BlobsOwed(u) + V.blobs_done <= BlobsOwed(t) + W.blobs_done
            /\ V.repos_done = W.repos_done + IF u.at = "done" THEN 1 ELSE 0
  BY <1>3, <1>7, <1>8 DEF RepoCounts, Tally
<1>10. /\ DoneRepos(U) = IF u.at = "done" THEN DoneRepos(T) \cup {r} ELSE DoneRepos(T)
       /\ r \notin DoneRepos(T)
  BY <1>3, <1>9 DEF DoneRepos
<1> HIDE DEF T, U, W, V, L, M, O, P, t, u, J, F
<1>11. DoneRepos(U) \subseteq J.repos /\ IsFiniteSet(Downloaded(F))
  BY <1>7, <1>8, <1>10 DEF Tally
<1>12. Cardinality(DoneRepos(U)) =
            Cardinality(DoneRepos(T)) + IF u.at = "done" THEN 1 ELSE 0
  <2>1. IsFiniteSet(DoneRepos(T)) /\ Cardinality(DoneRepos(T)) \in Nat
    BY <1>2, Measured
  <2>2. CASE u.at = "done"
    BY <1>10, <2>1, <2>2, FS_AddElement
  <2>3. CASE u.at # "done"
    BY <1>10, <2>1, <2>3
  <2> QED
    BY <2>2, <2>3
<1>13. Cardinality(DoneRepos(U)) <= Cardinality(J.repos)
  <2>1. J.repos \subseteq Repos
    BY <1>1 DEF IInv, Shape, Job, J
  <2>2. IsFiniteSet(J.repos)
    BY <2>1, ReposFinite, FS_Subset
  <2> QED
    BY <1>11, <2>2, FS_Subset
<1>14. ASSUME j \notin unsaved' PROVE Exact(U, V, J, F)
  <2>1. Exact(T, W, J, F)
    BY <1>7, <1>9, <1>14 DEF Tally
  <2>2. /\ W.tags_done \in Nat /\ W.tags_total \in Nat /\ W.blobs_done \in Nat
        /\ W.repos_done \in Nat /\ V.tags_done \in Nat /\ V.tags_total \in Nat
        /\ V.blobs_done \in Nat /\ V.repos_done \in Nat /\ V.repos_total \in Nat
    BY <1>2 DEF Row
  <2>3. Cardinality(Downloaded(F)) \in Nat
    BY <1>11, FS_CardinalityType
  <2>4. W.blobs_done + O <= Cardinality(Downloaded(F)) /\ W.tags_done + L = W.tags_total
    BY <1>8, <2>1 DEF Exact, L, O
  <2>5. V.blobs_done + P <= Cardinality(Downloaded(F))
    BY <1>4, <1>5, <1>6, <1>9, <1>14, <2>2, <2>3, <2>4
  <2>6. V.tags_done + M = V.tags_total
    <3>1. TagsLeft(u) + V.tags_done + W.tags_total = TagsLeft(t) + W.tags_done + V.tags_total
      BY <1>9, <1>14
    <3> QED
      BY <1>4, <1>5, <1>6, <2>2, <2>4, <3>1
  <2>7. V.repos_done = Cardinality(DoneRepos(U))
    BY <1>8, <1>9, <1>12, <1>14, <2>1 DEF Exact
  <2>8. V.repos_total = Cardinality(J.repos) /\ V.status = "running"
    BY <1>8, <1>9, <1>14, <2>1 DEF Exact
  <2>9. V.repos_done <= V.repos_total
    BY <1>13, <2>7, <2>8
  <2>10. V.tags_done + M <= V.tags_total
    BY <1>5, <2>2, <2>6
  <2> QED
    BY <2>5, <2>6, <2>7, <2>8, <2>9, <2>10 DEF Exact, M, P
<1>15. Tally(U, V, J, F, j \notin unsaved')
  BY <1>8, <1>9, <1>11, <1>14 DEF Tally
<1> QED
  BY <1>3, <1>15 DEF U, V, J, F

LEMMA CopyTally ==
    ASSUME CInv, NEW j \in Jobs, NEW r \in Repos, NEW i \in DOMAIN task[j][r].copies,
           CopyStep(j, r, i)
    PROVE  Tally(task[j], row[j], job[j], fetched[j], j \notin unsaved)'
<1> DEFINE T == task[j]
           U == task'[j]
           W == row[j]
           J == job[j]
           F == fetched[j]
           G == fetched'[j]
           L == Cardinality(Grid(Left(T)))
           M == Cardinality(Grid(Left(U)))
           O == Cardinality(Grid(Owed(T)))
           P == Cardinality(Grid(Owed(U)))
           t == T[r]
           u == U[r]
           b == Wants(t, i)
           N == Cardinality(Downloaded(F))
           K == Cardinality(Downloaded(G))
<1>1. TInv /\ IInv /\ Locks(j) /\ TaskOK(t) /\ CopiesFit(t) /\ IsFiniteSet(Downloaded(F))
  BY DEF CInv, LInv, TInv, IInv, Shape, Tally
<1>2. /\ CopyKind(j, r, i, t.copies[i], u.copies[i], b) /\ SameBut(t, u, i) /\ b \in Blobs
      /\ TaskOK(u) /\ UNCHANGED <<row, job, unsaved>>
      /\ \A q \in Repos : q # r => U[q] = T[q]
  BY <1>1, CopyKinds
<1>3. T \in [Repos -> Task] /\ W \in Row /\ U \in [Repos -> Task]
  <2>1. IInv'
    BY <1>1, BlobMoves
  <2> QED
    BY <1>1, <2>1 DEF IInv, Shape
<1>4. t.at = "blobs" /\ u.at = "blobs" /\ u.tags = t.tags /\ u.copied = t.copied
  BY <1>1, <1>2, Wanted DEF SameBut
<1>5. Tally(T, W, J, F, j \notin unsaved)
  BY DEF CInv
<1>6. M + TagsLeft(t) = L + TagsLeft(u) /\ P + BlobsOwed(t) = O + BlobsOwed(u)
  <2> HIDE DEF T, U
  <2> QED
    BY <1>2, <1>3, TaskMeasure
<1>7. L \in Nat /\ M \in Nat /\ O \in Nat /\ P \in Nat
  <2> HIDE DEF T, U
  <2> QED
    BY <1>3, Measured
<1>8. TagsLeft(t) \in Nat /\ TagsLeft(u) = TagsLeft(t)
  BY <1>3, <1>4, MeasureType DEF TagsLeft
<1> DEFINE c == Cardinality(CopiedNow(t))
           d == Cardinality(CopiedNow(u))
<1>9. /\ BlobsOwed(t) = t.copied + c /\ BlobsOwed(u) = t.copied + d
      /\ c \in Nat /\ d \in Nat /\ t.copied \in Nat
  BY <1>3, <1>4, CopiedFinite DEF BlobsOwed, Tagging, Task
<1>10. IsFiniteSet(CopiedNow(t)) /\ IsFiniteSet(CopiedNow(u))
  BY <1>3, CopiedFinite
<1>11. IsFiniteSet(Downloaded(G)) /\ d + N <= c + K
  <2>1. fetched \in [Jobs -> [Blobs -> Nat]] /\ N \in Nat
    BY <1>1, FS_CardinalityType DEF TInv, Content
  <2>2. CASE UNCHANGED fetched /\ u.copies[i] # "copied"
    <3>1. CopiedNow(u) \subseteq CopiedNow(t)
      BY <1>2, <2>2 DEF CopiedNow, SameBut
    <3>2. d <= c
      BY <1>10, <3>1, FS_Subset
    <3>3. G = F
      BY <2>2
    <3> QED
      BY <1>1, <1>9, <2>1, <3>2, <3>3
  <2>3. CASE /\ t.copies[i] = "download" /\ u.copies[i] = "copied"
             /\ fetched' = [fetched EXCEPT ![j][b] = @ + 1]
    <3>1. F[b] = 0
      BY <1>1, <2>3 DEF Locks, Unfetched
    <3>2. F \in [Blobs -> Nat] /\ G = [F EXCEPT ![b] = 1]
      BY <1>2, <2>1, <2>3, <3>1
    <3>3. Downloaded(G) = Downloaded(F) \cup {b} /\ b \notin Downloaded(F)
      <4> HIDE DEF F, G, b
      <4> QED
        BY <1>2, <3>1, <3>2 DEF Downloaded
    <3>4. IsFiniteSet(Downloaded(G)) /\ K = N + 1
      BY <1>1, <3>3, FS_AddElement
    <3>5. CopiedNow(u) = CopiedNow(t) \cup {i} /\ i \notin CopiedNow(t)
      BY <1>2, <2>3 DEF CopiedNow, SameBut
    <3>6. d = c + 1
      BY <1>10, <3>5, FS_AddElement
    <3> QED
      BY <1>9, <2>1, <3>4, <3>6
  <2> QED
    BY <1>2, <2>2, <2>3 DEF CopyKind
<1>12. N \in Nat /\ K \in Nat
  BY <1>1, <1>11, FS_CardinalityType
<1>13. /\ DoneRepos(U) = DoneRepos(T)
       /\ \A q \in Repos : U[q].at = "total" => U[q].tags = Tagged[q]
  BY <1>2, <1>4, <1>5 DEF DoneRepos, Tally
<1>14. J.at = "copy"
  BY <1>1, <1>4, CopiesWhere
<1> HIDE DEF T, U, W, J, F, G, L, M, O, P, t, u, b, N, K, c, d
<1>15. ASSUME j \notin unsaved PROVE Exact(U, W, J, G)
  <2>1. Exact(T, W, J, F)
    BY <1>5, <1>15 DEF Tally
  <2>2. W.blobs_done \in Nat
    BY <1>3 DEF Row
  <2>3. W.blobs_done + O <= N
    BY <2>1 DEF Exact, O, N
  <2>4. W.blobs_done + P <= K
    BY <1>6, <1>7, <1>9, <1>11, <1>12, <2>2, <2>3
  <2>5. M = L
    BY <1>6, <1>7, <1>8
  <2> QED
    BY <1>13, <2>1, <2>4, <2>5 DEF Exact, M, L, P, K
<1>16. Tally(U, W, J, G, j \notin unsaved)
  BY <1>5, <1>11, <1>13, <1>15 DEF Tally
<1> QED
  BY <1>2, <1>16 DEF U, W, J, G

LEMMA JobTally ==
    ASSUME CInv, NEW j \in Jobs, StartImport(j) \/ DropHandler(j) \/ JobStep(j)
    PROVE  /\ Tally(task[j], row[j], job[j], fetched[j], j \notin unsaved)'
           /\ UNCHANGED <<task, fetched, unsaved>>
           /\ \A k \in Jobs \ {j} : row'[k] = row[k] /\ job'[k] = job[k]
<1> DEFINE T == task[j]
           W == row[j]
           V == row'[j]
           J == job[j]
           K == job'[j]
           F == fetched[j]
           L == Cardinality(Grid(Left(T)))
           O == Cardinality(Grid(Owed(T)))
<1>1. /\ T \in [Repos -> Task] /\ W \in Row /\ J \in Job /\ RowFits(j) /\ CopiesBelow(j)
      /\ row \in [Jobs -> Row] /\ job \in [Jobs -> Job]
  BY DEF CInv, LInv, TInv, IInv, Shape
<1>2. Tally(T, W, J, F, j \notin unsaved)
  BY DEF CInv
<1>3. L \in Nat /\ O \in Nat /\ IsFiniteSet(DoneRepos(T)) /\ Cardinality(DoneRepos(T)) \in Nat
  <2> HIDE DEF T
  <2> QED
    BY <1>1, Measured
<1>4. UNCHANGED <<task, fetched, unsaved>>
  BY DEF StartImport, DropHandler, JobStep, Spawn, Enumerate, SetReposTotal, CopyDone, FinishJob,
         content, history
<1>5. \A k \in Jobs \ {j} : row'[k] = row[k] /\ job'[k] = job[k]
  BY <1>1 DEF StartImport, DropHandler, JobStep, Spawn, Enumerate, SetReposTotal, CopyDone, FinishJob,
         Goto
<1>6. SUFFICES Tally(T, V, K, F, j \notin unsaved)
  BY <1>4, <1>5
<1>7. CASE StartImport(j) \/ DropHandler(j) \/ Spawn(j)
  <2>1. /\ J.at # "gone" /\ K.repos = J.repos
        /\ K.at \notin {"copy", "completed"} /\ V.status # "completed"
        /\ V.blobs_done = W.blobs_done /\ V.tags_done = W.tags_done /\ V.tags_total = W.tags_total
        /\ V.repos_done = W.repos_done /\ V.repos_total = W.repos_total
    <3>1. CASE StartImport(j)
      BY <1>1, <3>1 DEF StartImport, Goto, RowFits, Row, Job
    <3>2. CASE DropHandler(j) \/ Spawn(j)
      BY <1>1, <3>2 DEF DropHandler, Spawn, Goto, RowFits, Row, Job
    <3> QED
      BY <1>7, <3>1, <3>2
  <2> HIDE DEF T, W, V, J, K, F
  <2> QED
    BY <1>2, <2>1 DEF Tally, Exact
<1>8. CASE Enumerate(j)
  <2>1. /\ J.at = "enumerate" /\ K.at \in {"total", "failed"} /\ (K.repos = J.repos \/ K.repos = Repos)
        /\ V = W /\ W.status = "running"
    <3>1. J.at = "enumerate" /\ V = W
      BY <1>8 DEF Enumerate
    <3>2. W.status = "running"
      BY <1>1, <3>1 DEF RowFits
    <3>3. CASE job' = [job EXCEPT ![j] = [at |-> "total", repos |-> Repos]]
      BY <1>1, <3>1, <3>2, <3>3
    <3>4. CASE \E at \in {"total", "failed"} : Goto(j, at)
      <4>1. PICK at \in {"total", "failed"} : Goto(j, at)
        BY <3>4
      <4>2. K = [J EXCEPT !.at = at]
        BY <1>1, <4>1 DEF Goto
      <4>3. K.at = at /\ K.repos = J.repos
        BY <1>1, <4>2 DEF Job
      <4> QED
        BY <3>1, <3>2, <4>3
    <3> QED
      BY <1>8, <3>3, <3>4 DEF Enumerate
  <2>2. DoneRepos(T) \subseteq Repos
    BY DEF DoneRepos
  <2> HIDE DEF T, W, V, J, K, F
  <2> QED
    BY <1>2, <2>1, <2>2 DEF Tally, Exact
<1>9. CASE SetReposTotal(j)
  <2>1. J.at = "total" /\ W.status = "running" /\ W.repos_done = 0
    BY <1>1, <1>9 DEF SetReposTotal, RowFits
  <2>2. CASE Goto(j, "failed") /\ UNCHANGED row
    <3>1. K.at = "failed" /\ K.repos = J.repos /\ V = W
      BY <1>1, <2>2 DEF Goto, Job
    <3> HIDE DEF T, W, V, J, K, F
    <3> QED
      BY <1>2, <2>1, <3>1 DEF Tally, Exact
  <2>3. CASE Goto(j, "copy") /\ row' = [row EXCEPT ![j].repos_total = Cardinality(job[j].repos)]
    <3> DEFINE n == Cardinality(J.repos)
    <3>1. n \in Nat
      BY <1>1, ReposFinite, FS_Subset, FS_CardinalityType DEF Job
    <3>2. K.at = "copy" /\ K.repos = J.repos
      BY <1>1, <2>3 DEF Goto, Job
    <3>3. V = [W EXCEPT !.repos_total = n]
      BY <1>1, <2>3
    <3> HIDE DEF n
    <3>4. /\ V.status = W.status /\ V.repos_done = W.repos_done /\ V.repos_total = n
          /\ V.tags_done = W.tags_done /\ V.tags_total = W.tags_total
          /\ V.blobs_done = W.blobs_done
      BY <1>1, <3>3 DEF Row
    <3> HIDE DEF T, W, V, J, K, F
    <3>5. V.repos_done <= V.repos_total /\ V.repos_total = Cardinality(K.repos)
      BY <2>1, <3>1, <3>2, <3>4 DEF n
    <3> QED
      BY <1>2, <2>1, <3>2, <3>4, <3>5 DEF Tally, Exact
  <2> QED
    BY <1>9, <2>2, <2>3 DEF SetReposTotal
<1>10. CASE CopyDone(j)
  <2>1. /\ J.at = "copy" /\ K.at = "completed" /\ K.repos = J.repos /\ V = W
        /\ \A r \in J.repos : T[r].at = "done"
    BY <1>1, <1>10 DEF CopyDone, Completed, Goto, Job
  <2>2. W.status = "running" /\ J.repos \subseteq Repos
    BY <1>1, <2>1 DEF RowFits, Job
  <2>3. J.repos \subseteq DoneRepos(T)
    BY <2>1, <2>2 DEF DoneRepos
  <2> HIDE DEF T, W, V, J, K, F
  <2> QED
    BY <1>2, <2>1, <2>2, <2>3 DEF Tally, Exact
<1>11. CASE FinishJob(j)
  <2>1. /\ J.at \in {"completed", "failed"} /\ K.at = "gone" /\ K.repos = J.repos
        /\ V = W \/ V = [W EXCEPT !.status = J.at]
    BY <1>1, <1>11 DEF FinishJob, Goto, Job
  <2>2. /\ V.repos_done = W.repos_done /\ V.repos_total = W.repos_total
        /\ V.tags_done = W.tags_done /\ V.tags_total = W.tags_total
        /\ V.blobs_done = W.blobs_done
        /\ V.status = "completed" => J.at = "completed"
    <3>1. W.status = "running"
      BY <1>1, <2>1 DEF RowFits
    <3>2. CASE V = W
      BY <3>1, <3>2
    <3>3. CASE V = [W EXCEPT !.status = J.at]
      BY <1>1, <2>1, <3>3 DEF Row
    <3> QED
      BY <2>1, <3>2, <3>3
  <2>3. L = 0
    <3>1. \A r \in Repos : T[r].at \notin Tagging
      BY <1>1, <2>1 DEF CopiesBelow, Tagging
    <3> HIDE DEF T
    <3> QED
      BY <3>1, NothingLeft
  <2>4. W.tags_done \in Nat
    BY <1>1 DEF Row
  <2> HIDE DEF T, W, V, J, K, F
  <2>5. ASSUME j \notin unsaved PROVE Exact(T, V, K, F)
    <3>1. Exact(T, W, J, F)
      BY <1>2, <2>5 DEF Tally
    <3>2. J.at = "completed" => V.repos_done = V.repos_total
      BY <1>2, <2>1, <2>2, <3>1 DEF Tally, Exact
    <3>3. W.tags_done = W.tags_total
      <4>1. W.tags_done + L = W.tags_total
        BY <2>1, <3>1 DEF Exact
      <4> QED
        BY <2>3, <2>4, <4>1
    <3> QED
      BY <2>1, <2>2, <3>1, <3>2, <3>3 DEF Exact
  <2> QED
    BY <1>2, <2>1, <2>5 DEF Tally
<1> QED
  BY <1>7, <1>8, <1>9, <1>10, <1>11 DEF JobStep

LEMMA RestartTally ==
    ASSUME CInv, Restart, NEW j \in Jobs
    PROVE  Tally(task[j], row[j], job[j], fetched[j], j \notin unsaved)'
<1> DEFINE T == task[j]
           U == task'[j]
           W == row[j]
           V == row'[j]
           J == job[j]
           K == job'[j]
           F == fetched[j]
           L == Cardinality(Grid(Left(T)))
           O == Cardinality(Grid(Owed(T)))
<1>1. T \in [Repos -> Task] /\ W \in Row /\ RowFits(j) /\ CopiesBelow(j)
  BY DEF CInv, LInv, TInv, IInv, Shape
<1>2. Tally(T, W, J, F, j \notin unsaved)
  BY DEF CInv
<1>3. L \in Nat /\ O \in Nat
  <2> HIDE DEF T
  <2> QED
    BY <1>1, Measured
<1>4. /\ UNCHANGED <<fetched, unsaved>> /\ \A r \in Repos : U[r] = NoTask
      /\ K.at = (IF W.status = "none" THEN "none" ELSE "gone") /\ K.repos = {}
      /\ V = [W EXCEPT !.status = FailInterrupted(@)]
  BY DEF Restart, content
<1>5. /\ V.repos_done = W.repos_done /\ V.repos_total = W.repos_total
      /\ V.tags_done = W.tags_done /\ V.tags_total = W.tags_total
      /\ V.blobs_done = W.blobs_done /\ V.status = FailInterrupted(W.status)
  BY <1>1, <1>4 DEF Row
<1>6. V.status = "completed" => W.status = "completed"
  BY <1>5 DEF FailInterrupted
<1>7. NoTask.at = "none"
  BY DEF NoTask
<1>8. /\ Cardinality(Grid(Left(U))) = 0 /\ Cardinality(Grid(Owed(U))) = 0
  <2>1. \A r \in Repos : U[r].at \notin Tagging
    BY <1>4, <1>7 DEF Tagging
  <2> HIDE DEF U
  <2> QED
    BY <2>1, NothingLeft
<1>9. DoneRepos(U) = {} /\ Cardinality({}) = 0
  BY <1>4, <1>7, FS_EmptySet DEF DoneRepos
<1>10. W.status = "none" => J.at = "none" /\ W.repos_done = 0 /\ L = 0
  <2>1. W.status = "none" => J.at = "none" /\ W.repos_done = 0
    BY <1>1 DEF RowFits
  <2>2. ASSUME W.status = "none" PROVE L = 0
    <3>1. \A r \in Repos : T[r].at \notin Tagging
      BY <1>1, <2>1, <2>2 DEF CopiesBelow, Tagging
    <3> HIDE DEF T
    <3> QED
      BY <3>1, NothingLeft
  <2> QED
    BY <2>1, <2>2
<1>11. /\ W.tags_done \in Nat /\ W.tags_total \in Nat /\ W.blobs_done \in Nat
       /\ Cardinality(Downloaded(F)) \in Nat
  BY <1>1, <1>2, FS_CardinalityType DEF Row, Tally
<1>12. \A r \in Repos : U[r].at # "total"
  BY <1>4, <1>7
<1> HIDE DEF T, U, W, V, J, K, F, L, O
<1>13. ASSUME j \notin unsaved PROVE Exact(U, V, K, F)
  <2>1. Exact(T, W, J, F)
    BY <1>2, <1>13 DEF Tally
  <2>2. W.blobs_done + O <= Cardinality(Downloaded(F)) /\ W.tags_done + L <= W.tags_total
    BY <2>1 DEF Exact, L, O
  <2>3. V.blobs_done + 0 <= Cardinality(Downloaded(F)) /\ V.tags_done + 0 <= V.tags_total
    BY <1>3, <1>5, <1>11, <2>2
  <2>4. K.at # "gone" => V.tags_done + 0 = V.tags_total /\ V.repos_done = 0
    <3>1. ASSUME W.status = "none" PROVE W.tags_done + 0 = W.tags_total /\ W.repos_done = 0
      <4>1. W.tags_done + L = W.tags_total
        BY <1>10, <2>1, <3>1 DEF Exact, L
      <4> QED
        BY <1>10, <3>1, <4>1
    <3> QED
      BY <1>4, <1>5, <3>1
  <2>5. V.status = "completed" => V.repos_done = V.repos_total /\ V.tags_done = V.tags_total
    BY <1>5, <1>6, <2>1 DEF Exact
  <2>6. V.repos_done <= V.repos_total /\ K.at \notin {"copy", "completed"}
    BY <1>4, <1>5, <2>1 DEF Exact
  <2> QED
    BY <1>8, <1>9, <2>3, <2>4, <2>5, <2>6 DEF Exact
<1>14. Tally(U, V, K, F, j \notin unsaved)
  BY <1>2, <1>4, <1>9, <1>12, <1>13 DEF Tally
<1> QED
  BY <1>4, <1>14 DEF U, V, K, F

LEMMA StepCInv == CInv /\ [Next]_vars => CInv'
<1> SUFFICES ASSUME CInv, [Next]_vars PROVE CInv'
  OBVIOUS
<1>1. LInv /\ LInv' /\ TInv /\ IInv
  BY StepLocks DEF CInv, LInv, TInv
<1> SUFFICES ASSUME NEW j \in Jobs
             PROVE  Tally(task[j], row[j], job[j], fetched[j], j \notin unsaved)'
  BY <1>1 DEF CInv
<1>2. Tally(task[j], row[j], job[j], fetched[j], j \notin unsaved)
  BY DEF CInv
<1>3. ASSUME task'[j] = task[j], row'[j] = row[j], job'[j] = job[j], fetched'[j] = fetched[j],
             unsaved \subseteq unsaved'
      PROVE  Tally(task[j], row[j], job[j], fetched[j], j \notin unsaved)'
  <2>1. Tally(task[j], row[j], job[j], fetched[j], j \notin unsaved')
    BY <1>2, <1>3 DEF Tally
  <2> QED
    BY <1>3, <2>1
<1>4. CASE Restart
  BY <1>4, RestartTally
<1>5. CASE \E k \in Jobs : StartImport(k) \/ DropHandler(k) \/ JobStep(k)
  <2>1. PICK k \in Jobs : StartImport(k) \/ DropHandler(k) \/ JobStep(k)
    BY <1>5
  <2>2. CASE k = j
    BY <2>1, <2>2, JobTally
  <2>3. CASE k # j
    <3>1. UNCHANGED <<task, fetched, unsaved>> /\ row'[j] = row[j] /\ job'[j] = job[j]
      BY <2>1, <2>3, JobTally
    <3> QED
      BY <1>3, <3>1
  <2> QED
    BY <2>2, <2>3
<1>6. CASE \E k \in Jobs, r \in Repos : RepoStep(k, r)
  <2>1. PICK k \in Jobs, r \in Repos : RepoStep(k, r)
    BY <1>6
  <2>2. CASE k = j
    BY <2>1, <2>2, RepoTally
  <2>3. CASE k # j
    <3>1. UNCHANGED <<fetched, job>> /\ \A q \in Repos : task'[j][q] = task[j][q]
      BY <1>1, <2>1, <2>3, RepoTask
    <3>2. task'[j] = task[j]
      <4>1. IInv'
        BY <1>1, <2>1, RepoTask
      <4>2. task[j] \in [Repos -> Task] /\ task'[j] \in [Repos -> Task]
        BY <1>1, <4>1 DEF IInv, Shape
      <4> QED
        BY <3>1, <4>2
    <3>3. row'[j] = row[j] /\ unsaved \subseteq unsaved'
      <4>1. row \in [Jobs -> Row]
        BY <1>1 DEF IInv, Shape
      <4>2. UNCHANGED <<row, unsaved>> \/ \E new : Update(k, new)
        BY <2>1 DEF RepoStep, StartRepo, ListTags, AddTagsTotal, CountTag, CountRepo,
                    FetchReference, JoinBlobs, StoreManifest, history
      <4> QED
        BY <2>3, <4>1, <4>2 DEF Update, history
    <3> QED
      BY <1>3, <3>1, <3>2, <3>3
  <2> QED
    BY <2>2, <2>3
<1>7. CASE \E k \in Jobs, r \in Repos : \E i \in DOMAIN task[k][r].copies : CopyStep(k, r, i)
  <2>1. PICK k \in Jobs, r \in Repos : \E i \in DOMAIN task[k][r].copies : CopyStep(k, r, i)
    BY <1>7
  <2>2. PICK i \in DOMAIN task[k][r].copies : CopyStep(k, r, i)
    BY <2>1
  <2>3. CASE k = j
    BY <2>2, <2>3, CopyTally
  <2>4. CASE k # j
    <3>1. /\ UNCHANGED <<row, job, unsaved>> /\ \A q \in Repos : task'[j][q] = task[j][q]
          /\ CopyKind(k, r, i, task[k][r].copies[i], task'[k][r].copies[i], Wants(task[k][r], i))
      BY <1>1, <2>2, <2>4, CopyKinds
    <3>2. task'[j] = task[j]
      <4>1. IInv'
        BY <1>1, <2>2, BlobMoves
      <4>2. task[j] \in [Repos -> Task] /\ task'[j] \in [Repos -> Task]
        BY <1>1, <4>1 DEF IInv, Shape
      <4> QED
        BY <3>1, <4>2
    <3>3. fetched'[j] = fetched[j]
      <4>1. fetched \in [Jobs -> [Blobs -> Nat]]
        BY <1>1 DEF TInv, Content
      <4> QED
        BY <2>4, <3>1, <4>1 DEF CopyKind
    <3> QED
      BY <1>3, <3>1, <3>2, <3>3
  <2> QED
    BY <2>3, <2>4
<1>8. CASE UNCHANGED vars
  BY <1>3, <1>8 DEF vars, content, history
<1> QED
  BY <1>4, <1>5, <1>6, <1>7, <1>8 DEF Next, Work

LEMMA CountsAlways == Spec => []CInv
<1>1. Init => CInv
  <2> SUFFICES ASSUME Init PROVE CInv
    OBVIOUS
  <2>1. LInv
    BY InitLInv
  <2> SUFFICES ASSUME NEW j \in Jobs
               PROVE  Tally(task[j], row[j], job[j], fetched[j], j \notin unsaved)
    BY <2>1 DEF CInv
  <2>2. \A r \in Repos : task[j][r].at = "none"
    BY DEF Init, NoTask
  <2>3. Cardinality(Grid(Left(task[j]))) = 0 /\ Cardinality(Grid(Owed(task[j]))) = 0
    <3>1. \A r \in Repos : task[j][r].at \notin Tagging
      BY <2>2 DEF Tagging
    <3> DEFINE T == task[j]
    <3> HIDE DEF T
    <3> QED
      BY <3>1, NothingLeft DEF T
  <2>4. DoneRepos(task[j]) = {} /\ Downloaded(fetched[j]) = {}
    BY <2>2 DEF DoneRepos, Downloaded, Init
  <2>5. row[j] = NewRow /\ job[j] = [at |-> "none", repos |-> {}]
    BY DEF Init
  <2>6. IsFiniteSet({}) /\ Cardinality({}) = 0
    BY FS_EmptySet
  <2> QED
    BY <2>2, <2>3, <2>4, <2>5, <2>6 DEF Tally, Exact, NewRow
<1> QED
  BY <1>1, StepCInv, PTL DEF Spec

\* A client that polls never sees more done than there is, and sees a job that
\* completed with everything done, whatever the job had to skip or retry on its way and
\* over restarts, unless an update of its row was lost (import.rs, advance).
THEOREM ProgressAlways == Spec => []ProgressExact
<1>1. CInv => ProgressExact
  <2> SUFFICES ASSUME CInv, NEW j \in Jobs \ unsaved
               PROVE  /\ row[j].repos_done <= row[j].repos_total
                      /\ row[j].tags_done <= row[j].tags_total
                      /\ row[j].blobs_done <= Cardinality({b \in Blobs : fetched[j][b] > 0})
                      /\ row[j].status = "completed" => row[j].repos_done = row[j].repos_total
                            /\ row[j].tags_done = row[j].tags_total
    BY DEF ProgressExact
  <2> DEFINE T == task[j]
             W == row[j]
             F == fetched[j]
             L == Cardinality(Grid(Left(T)))
             O == Cardinality(Grid(Owed(T)))
             N == Cardinality(Downloaded(F))
  <2>1. T \in [Repos -> Task] /\ W \in Row /\ Tally(T, W, job[j], F, TRUE)
    <3>1. Tally(T, W, job[j], F, j \notin unsaved)
      BY DEF CInv
    <3> QED
      BY <3>1 DEF CInv, LInv, TInv, IInv, Shape, Tally
  <2>2. L \in Nat /\ O \in Nat /\ N \in Nat
    <3> HIDE DEF T
    <3> QED
      BY <2>1, Measured, FS_CardinalityType DEF Tally
  <2>3. Exact(T, W, job[j], F)
    BY <2>1 DEF Tally
  <2>4. W.blobs_done \in Nat /\ W.tags_done \in Nat /\ W.tags_total \in Nat
    BY <2>1 DEF Row
  <2>5. W.blobs_done + O <= N /\ W.tags_done + L <= W.tags_total
    BY <2>3 DEF Exact
  <2> HIDE DEF L, O, N
  <2>6. W.blobs_done <= N /\ W.tags_done <= W.tags_total
    BY <2>2, <2>4, <2>5
  <2> QED
    BY <2>3, <2>6 DEF Exact, N, Downloaded
<1> QED
  BY CountsAlways, <1>1, PTL
=============================================================================
