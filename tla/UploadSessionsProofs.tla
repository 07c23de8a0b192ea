------------------------ MODULE UploadSessionsProofs ------------------------
(***************************************************************************)
(* Proofs about UploadSessions, for any sessions, requests, sizes, faults  *)
(* and bounds: its types; that no race leaves a multipart upload behind;   *)
(* that what is recorded under a digest is the bytes of that digest, but   *)
(* for a session that dropped a part; and that nothing over the limit is   *)
(* recorded.                                                               *)
(*                                                                         *)
(* The argument is in four layers.  TypeInv: a worker refers to a session  *)
(* where it works on one.  WorkInv: the mutex keeps the workers apart, and *)
(* a session is unknown until it is created; every step of a worker is a   *)
(* Move, which changes only the session the worker is at.  BytesInv: every *)
(* unit that was hashed is in the buffer, in a part or in the worker's     *)
(* hands.  On these rest OrphanInv, Stored and LimitInv, one for each of   *)
(* the theorems.                                                           *)
(***************************************************************************)
EXTENDS UploadSessions, FiniteSetTheorems, TLAPS

-----------------------------------------------------------------------------
(***************************************************************************)
(* What each step does to the work and to a session                        *)
(***************************************************************************)
Named == Stages \ {"idle", "scan", "slot"}
Reaping == {"scan", "expired", "reap", "abort"}

\* A worker refers to a session where it works on one, and carries expired sessions
\* only while it reaps.
References ==
    \A w \in Workers :
        /\ work[w].at \in Named => work[w].id \in Sessions
        /\ work[w].expired # {} => work[w].at \in Reaping

\* One worker goes on, the others stay where they are.
Turn(w, op, at, id, expired) ==
    /\ work' \in [Workers -> Work]
    /\ \A v \in Workers : v # w => work'[v] = work[v]
    /\ work'[w].op = op /\ work'[w].at = at /\ work'[w].id = id /\ work'[w].expired = expired

LEMMA NoWorkType == NoWork \in Work /\ NoWork.op = "none" /\ NoWork.at = "idle" /\ NoWork.id = None
                    /\ NoWork.expired = {} /\ NoWork.part = {}
BY DEF NoWork, Work, Ops, Stages

LEMMA GotoTurn ==
    ASSUME TypeOK, NEW w \in Workers, NEW at \in Stages, Goto(w, at)
    PROVE  Turn(w, work[w].op, at, work[w].id, work[w].expired) /\ work'[w].part = work[w].part
<1> work \in [Workers -> Work]
  BY DEF TypeOK
<1> work[w] \in Work
  OBVIOUS
<1> QED
  BY DEF Goto, Turn, Work

LEMMA FinishTurn ==
    ASSUME TypeOK, NEW w \in Workers, Finish(w)
    PROVE  Turn(w, "none", "idle", None, {})
<1> work \in [Workers -> Work]
  BY DEF TypeOK
<1> QED
  BY NoWorkType DEF Finish, Turn

LEMMA ReapTickTurn ==
    ASSUME TypeOK, ReapTick
    PROVE  Turn(Reaper, "reap", "scan", None, {})
<1> work \in [Workers -> Work] /\ Reaper \in Workers /\ registry \in SUBSET Sessions
  BY DEF TypeOK, Workers
<1> QED
  BY DEF ReapTick, Turn, Work, NoWork, Ops, Stages

LEMMA ScanTurn ==
    ASSUME TypeOK, NEW w \in Workers, Scan(w)
    PROVE  \/ Turn(w, work[w].op, "scan", None, work[w].expired)
           \/ \E s \in registry :
                /\ ShouldReap(s)
                /\ Turn(w, work[w].op, "expired", s, work[w].expired)
<1> work \in [Workers -> Work] /\ registry \in SUBSET Sessions
  BY DEF TypeOK
<1> work[w] \in Work
  OBVIOUS
<1> PICK s \in work[w].todo :
        work' = [work EXCEPT ![w].todo = @ \ {s},
                             ![w].id = IF s \in registry /\ ShouldReap(s) THEN s ELSE None,
                             ![w].at = IF s \in registry /\ ShouldReap(s) THEN "expired" ELSE @]
  BY DEF Scan
<1> HIDE DEF ShouldReap
<1>1. CASE s \in registry /\ ShouldReap(s)
  BY <1>1 DEF Turn, Work, Stages
<1>2. CASE ~(s \in registry /\ ShouldReap(s))
  BY <1>2 DEF Turn, Work, Stages, Scan, At
<1> QED
  BY <1>1, <1>2

LEMMA TakeExpiredTurn ==
    ASSUME TypeOK, References, NEW w \in Workers, TakeExpired(w)
    PROVE  Turn(w, work[w].op, "scan", None, work[w].expired \cup {Id(w)}) /\ Id(w) \in Sessions
<1> work \in [Workers -> Work]
  BY DEF TypeOK
<1> work[w] \in Work
  OBVIOUS
<1>1. Id(w) \in Sessions
  BY DEF TakeExpired, At, References, Named, Stages, Id
<1> QED
  BY <1>1 DEF TakeExpired, Turn, Work, Stages, Id

LEMMA ScanDoneTurn ==
    ASSUME TypeOK, NEW w \in Workers, ScanDone(w)
    PROVE  \/ work[w].expired = {} /\ w = Reaper /\ Turn(w, "none", "idle", None, {})
           \/ work[w].expired = {} /\ Turn(w, work[w].op, "slot", work[w].id, {})
           \/ \E s \in work[w].expired : Turn(w, work[w].op, "reap", s, work[w].expired)
<1> work \in [Workers -> Work]
  BY DEF TypeOK
<1> work[w] \in Work
  OBVIOUS
<1>1. CASE work[w].expired = {}
  BY <1>1, FinishTurn, GotoTurn DEF ScanDone, Stages
<1>2. CASE work[w].expired # {}
  BY <1>2 DEF ScanDone, Turn, Work, Stages
<1> QED
  BY <1>1, <1>2

LEMMA ReapAbortTurn ==
    ASSUME TypeOK, NEW w \in Workers, ReapAbort(w)
    PROVE  Turn(w, work[w].op, "scan", None, work[w].expired \ {Id(w)})
<1> work \in [Workers -> Work]
  BY DEF TypeOK
<1> work[w] \in Work
  OBVIOUS
<1> QED
  BY DEF ReapAbort, Turn, Work, Stages, Id


\* A new task.
LEMMA NewTurn ==
    ASSUME TypeOK, NEW w \in Workers, NEW op \in Ops, NEW at \in Stages, NEW id \in Sessions,
           work' = [work EXCEPT ![w] = [NoWork EXCEPT !.op = op, !.at = at, !.id = id]]
    PROVE  Turn(w, op, at, id, {})
<1> DEFINE r == [NoWork EXCEPT !.op = op, !.at = at, !.id = id]
<1>1. /\ r \in Work /\ r.op = op /\ r.at = at /\ r.id = id /\ r.expired = {}
  BY DEF Work, NoWork
<1>2. work \in [Workers -> Work]
  BY DEF TypeOK
<1> HIDE DEF r
<1>3. work' = [work EXCEPT ![w] = r]
  BY DEF r
<1> QED
  BY <1>1, <1>2, <1>3 DEF Turn

LEMMA ClaimTurn ==
    ASSUME TypeOK, NEW w \in Workers, Claim(w)
    PROVE  \E s \in Sessions : SlotFree /\ Fresh(s) /\ Turn(w, "start", "create", s, {})
<1>1. "start" \in Ops /\ "create" \in Stages
  BY DEF Ops, Stages
<1>2. PICK s \in Sessions :
        /\ SlotFree /\ Fresh(s)
        /\ work' = [work EXCEPT ![w] = [NoWork EXCEPT !.op = "start", !.at = "create", !.id = s]]
  BY DEF Claim
<1>3. Turn(w, "start", "create", s, {})
  BY <1>1, <1>2, NewTurn
<1> QED
  BY <1>2, <1>3

LEMMA StartTurn ==
    ASSUME TypeOK, NEW w \in Workers, Start(w)
    PROVE  Claim(w) \/ Turn(w, "start", "scan", None, {})
<1> DEFINE r == [NoWork EXCEPT !.op = "start", !.at = "scan", !.todo = registry]
<1>1. work \in [Workers -> Work] /\ registry \in SUBSET Sessions
  BY DEF TypeOK
<1>2. r \in Work /\ r.op = "start" /\ r.at = "scan" /\ r.id = None /\ r.expired = {}
  BY <1>1 DEF Work, NoWork, Ops, Stages
<1> HIDE DEF r
<1>3. Claim(w) \/ work' = [work EXCEPT ![w] = r]
  BY DEF Start, r
<1> QED
  BY <1>1, <1>2, <1>3 DEF Turn

LEMMA GetTurn ==
    ASSUME TypeOK, NEW w \in Workers, NEW op \in {"patch", "finish", "cancel"}, Get(w, op)
    PROVE  \E s \in registry : s \in Sessions /\ Turn(w, op, "wait", s, {})
<1>1. op \in Ops /\ "wait" \in Stages /\ registry \in SUBSET Sessions
  BY DEF Ops, Stages, TypeOK
<1>2. PICK s \in registry :
        work' = [work EXCEPT ![w] = [NoWork EXCEPT !.op = op, !.at = "wait", !.id = s]]
  BY DEF Get
<1> QED
  BY <1>1, <1>2, NewTurn

\* One session changes, and keeps the fields that are not named.
Edit(s, total, buffer, parts, finalizing) ==
    /\ session' \in [Sessions -> Session]
    /\ \A t \in Sessions : t # s => session'[t] = session[t]
    /\ session'[s].total = total /\ session'[s].buffer = buffer
    /\ session'[s].parts = parts /\ session'[s].finalizing = finalizing

LEMMA EditType ==
    ASSUME TypeOK, NEW s \in Sessions, NEW r \in Session, session' = [session EXCEPT ![s] = r]
    PROVE  Edit(s, r.total, r.buffer, r.parts, r.finalizing)
BY DEF TypeOK, Edit

LEMMA SessionTypes ==
    ASSUME TypeOK, NEW s \in Sessions
    PROVE  /\ session[s].total \in 0..MaxUnits /\ session[s].buffer \in SUBSET Units
           /\ session[s].parts \in SUBSET Units /\ session[s].finalizing \in BOOLEAN
           /\ session[s] \in Session
BY DEF TypeOK, Session

LEMMA PartType ==
    ASSUME TypeOK, NEW w \in Workers
    PROVE  work[w].part \in SUBSET Units /\ work[w].expired \in SUBSET Sessions
           /\ work[w].id \in Sessions \cup {None} /\ work[w].op \in Ops /\ work[w].at \in Stages
BY DEF TypeOK, Work

LEMMA PartTurn ==
    ASSUME TypeOK, NEW w \in Workers, NEW part \in SUBSET Units, NEW at \in Stages,
           work' = [work EXCEPT ![w].part = part, ![w].at = at]
    PROVE  Turn(w, work[w].op, at, work[w].id, work[w].expired) /\ work'[w].part = part
<1>1. work \in [Workers -> Work] /\ work[w] \in Work
  BY DEF TypeOK
<1>2. work' = [work EXCEPT ![w] = [work[w] EXCEPT !.part = part, !.at = at]]
  BY <1>1
<1> DEFINE r == [work[w] EXCEPT !.part = part, !.at = at]
<1>3. r \in Work /\ r.op = work[w].op /\ r.at = at /\ r.id = work[w].id
      /\ r.expired = work[w].expired /\ r.part = part
  BY <1>1 DEF Work
<1> HIDE DEF r
<1>4. work' = [work EXCEPT ![w] = r]
  BY <1>2 DEF r
<1> QED
  BY <1>1, <1>3, <1>4 DEF Turn

\* A unit is written: it goes to the buffer, and a buffer that is full is taken out.
LEMMA WriteTurn ==
    ASSUME TypeOK, NEW w \in Workers, Id(w) \in Sessions, Write(w)
    PROVE  LET s == Id(w)
               total == session[s].total + 1
               buffer == session[s].buffer \cup {total}
           IN  /\ total \in 1..MaxUnits
               /\ \/ /\ Cardinality(buffer) >= PartSize
                     /\ Turn(w, work[w].op, "part", s, work[w].expired)
                     /\ work'[w].part = buffer
                     /\ Edit(s, total, {}, session[s].parts, session[s].finalizing)
                  \/ /\ ~(Cardinality(buffer) >= PartSize)
                     /\ Turn(w, work[w].op, AfterWrite(total), s, work[w].expired)
                     /\ Edit(s, total, buffer, session[s].parts, session[s].finalizing)
<1> DEFINE s == Id(w)
           total == session[s].total + 1
           buffer == session[s].buffer \cup {total}
           full == Cardinality(buffer) >= PartSize
           r == [session[s] EXCEPT !.total = total, !.idle = FALSE,
                          !.buffer = IF full THEN {} ELSE buffer]
           at == IF full THEN "part" ELSE AfterWrite(total)
<1>1. total \in 1..MaxUnits /\ buffer \in SUBSET Units
  BY SessionTypes, SizesAssumption DEF Write, Units
<1>2. session' = [session EXCEPT ![s] = r]
  BY DEF Write
<1>3. work' = [work EXCEPT ![w].part = IF full THEN buffer ELSE {}, ![w].at = at]
  BY DEF Write
<1>4. at \in Stages
  BY DEF AfterWrite, Stages
<1> HIDE DEF full, at, total, buffer
<1>5. r \in Session /\ r.total = total /\ r.buffer = (IF full THEN {} ELSE buffer)
      /\ r.parts = session[s].parts /\ r.finalizing = session[s].finalizing
  <2>1. total \in 0..MaxUnits /\ (IF full THEN {} ELSE buffer) \in SUBSET Units
    BY <1>1
  <2>2. session[s] \in Session
    BY DEF TypeOK
  <2> QED
    BY <2>1, <2>2 DEF Session
<1> HIDE DEF r
<1>6. Edit(s, total, IF full THEN {} ELSE buffer, session[s].parts, session[s].finalizing)
  BY <1>2, <1>5, EditType
<1>7. Turn(w, work[w].op, at, s, work[w].expired) /\ work'[w].part = IF full THEN buffer ELSE {}
  <2>1. (IF full THEN buffer ELSE {}) \in SUBSET Units
    BY <1>1
  <2> QED
    BY <2>1, <1>3, <1>4, PartTurn DEF Id
<1> QED
  BY <1>1, <1>6, <1>7 DEF full, at, total, buffer

LEMMA UploadPartTurn ==
    ASSUME TypeOK, NEW w \in Workers, Id(w) \in Sessions, UploadPart(w)
    PROVE  LET s == Id(w) IN
           /\ Turn(w, work[w].op, AfterWrite(session[s].total), s, work[w].expired)
           /\ Edit(s, session[s].total, session[s].buffer, session[s].parts \cup work[w].part,
                   session[s].finalizing)
<1> DEFINE s == Id(w)
           at == AfterWrite(session[s].total)
           r == [session[s] EXCEPT !.parts = @ \cup work[w].part]
<1>1. session' = [session EXCEPT ![s] = r]
  BY DEF UploadPart
<1>2. r \in Session /\ r.total = session[s].total /\ r.buffer = session[s].buffer
      /\ r.parts = session[s].parts \cup work[w].part /\ r.finalizing = session[s].finalizing
  BY SessionTypes, PartType DEF Session
<1>3. at \in Stages
  BY DEF AfterWrite, Stages
<1>4. work' = [work EXCEPT ![w].part = {}, ![w].at = at]
  BY DEF UploadPart
<1> HIDE DEF r, at
<1>5. Edit(s, session[s].total, session[s].buffer, session[s].parts \cup work[w].part,
                   session[s].finalizing)
  BY <1>1, <1>2, EditType
<1>6. Turn(w, work[w].op, at, s, work[w].expired)
  BY <1>3, <1>4 DEF Turn, TypeOK, Work, Id
<1> QED
  BY <1>5, <1>6 DEF at

LEMMA CommitSmallTurn ==
    ASSUME TypeOK, NEW w \in Workers, Id(w) \in Sessions, CommitSmall(w)
    PROVE  LET s == Id(w) IN
           /\ Turn(w, work[w].op, "put", s, work[w].expired)
           /\ work'[w].part = session[s].buffer
           /\ Edit(s, session[s].total, {}, session[s].parts, session[s].finalizing)
<1> DEFINE s == Id(w)
           r == [session[s] EXCEPT !.buffer = {}]
<1>1. session' = [session EXCEPT ![s] = r]
  BY DEF CommitSmall
<1>2. r \in Session /\ r.total = session[s].total /\ r.buffer = {}
      /\ r.parts = session[s].parts /\ r.finalizing = session[s].finalizing
  BY SessionTypes DEF Session
<1> HIDE DEF r
<1>3. Edit(s, session[s].total, {}, session[s].parts, session[s].finalizing)
  BY <1>1, <1>2, EditType
<1>4. Turn(w, work[w].op, "put", s, work[w].expired) /\ work'[w].part = session[s].buffer
  <2>1. "put" \in Stages /\ session[s].buffer \in SUBSET Units
    BY SessionTypes DEF Stages
  <2> QED
    BY <2>1, PartTurn DEF CommitSmall, Id
<1> QED
  BY <1>3, <1>4

LEMMA PutTurn ==
    ASSUME TypeOK, NEW w \in Workers, Put(w)
    PROVE  Turn(w, work[w].op, "copy", Id(w), work[w].expired)
<1>1. "copy" \in Stages /\ {} \in SUBSET Units
  BY DEF Stages
<1> QED
  BY <1>1, PartTurn DEF Put, Id

LEMMA CommitPartsTurn ==
    ASSUME TypeOK, NEW w \in Workers, Id(w) \in Sessions, CommitParts(w)
    PROVE  LET s == Id(w) IN
           /\ Turn(w, work[w].op, IF session[s].buffer = {} THEN "complete" ELSE "tail",
                   s, work[w].expired)
           /\ work'[w].part = session[s].buffer
           /\ Edit(s, session[s].total, {}, session[s].parts, session[s].finalizing)
<1> DEFINE s == Id(w)
           r == [session[s] EXCEPT !.buffer = {}]
           at == IF session[s].buffer = {} THEN "complete" ELSE "tail"
<1>1. session' = [session EXCEPT ![s] = r]
  BY DEF CommitParts
<1>2. r \in Session /\ r.total = session[s].total /\ r.buffer = {}
      /\ r.parts = session[s].parts /\ r.finalizing = session[s].finalizing
  BY SessionTypes DEF Session
<1>3. work' = [work EXCEPT ![w].part = session[s].buffer, ![w].at = at]
  BY DEF CommitParts
<1>4. at \in Stages
  BY DEF Stages
<1> HIDE DEF r, at
<1>5. Edit(s, session[s].total, {}, session[s].parts, session[s].finalizing)
  BY <1>1, <1>2, EditType
<1>6. Turn(w, work[w].op, at, s, work[w].expired) /\ work'[w].part = session[s].buffer
  BY <1>3, <1>4, SessionTypes, PartTurn DEF Id
<1> QED
  BY <1>5, <1>6 DEF at

LEMMA TailTurn ==
    ASSUME TypeOK, NEW w \in Workers, Id(w) \in Sessions, Tail(w)
    PROVE  LET s == Id(w) IN
           /\ Turn(w, work[w].op, "complete", s, work[w].expired)
           /\ Edit(s, session[s].total, session[s].buffer, session[s].parts \cup work[w].part,
                   session[s].finalizing)
<1> DEFINE s == Id(w)
           r == [session[s] EXCEPT !.parts = @ \cup work[w].part]
<1>1. session' = [session EXCEPT ![s] = r]
  BY DEF Tail
<1>2. r \in Session /\ r.total = session[s].total /\ r.buffer = session[s].buffer
      /\ r.parts = session[s].parts \cup work[w].part /\ r.finalizing = session[s].finalizing
  BY SessionTypes, PartType DEF Session
<1> HIDE DEF r
<1>3. Edit(s, session[s].total, session[s].buffer, session[s].parts \cup work[w].part,
                   session[s].finalizing)
  BY <1>1, <1>2, EditType
<1>4. Turn(w, work[w].op, "complete", s, work[w].expired)
  <2>1. "complete" \in Stages /\ {} \in SUBSET Units
    BY DEF Stages
  <2> QED
    BY <2>1, PartTurn DEF Tail, Id
<1> QED
  BY <1>3, <1>4

LEMMA CompleteTurn ==
    ASSUME TypeOK, NEW w \in Workers, Id(w) \in Sessions, Complete(w)
    PROVE  LET s == Id(w) IN
           /\ Turn(w, work[w].op, "copy", s, work[w].expired)
           /\ Edit(s, session[s].total, session[s].buffer, {}, session[s].finalizing)
<1> DEFINE s == Id(w)
           r == [session[s] EXCEPT !.parts = {}]
<1>1. session' = [session EXCEPT ![s] = r]
  BY DEF Complete
<1>2. r \in Session /\ r.total = session[s].total /\ r.buffer = session[s].buffer
      /\ r.parts = {} /\ r.finalizing = session[s].finalizing
  BY SessionTypes DEF Session
<1> HIDE DEF r
<1>3. Edit(s, session[s].total, session[s].buffer, {}, session[s].finalizing)
  BY <1>1, <1>2, EditType
<1>4. Turn(w, work[w].op, "copy", s, work[w].expired)
  BY GotoTurn DEF Complete, Stages, Id
<1> QED
  BY <1>3, <1>4

LEMMA FinishEnterTurn ==
    ASSUME TypeOK, NEW w \in Workers, Id(w) \in Sessions, FinishEnter(w)
    PROVE  LET s == Id(w) IN
           /\ Turn(w, "finish", "body", s, work[w].expired)
           /\ Edit(s, session[s].total, session[s].buffer, session[s].parts, TRUE)
<1> DEFINE s == Id(w)
           r == [session[s] EXCEPT !.finalizing = TRUE]
<1>1. session' = [session EXCEPT ![s] = r]
  BY DEF FinishEnter
<1>2. r \in Session /\ r.total = session[s].total /\ r.buffer = session[s].buffer
      /\ r.parts = session[s].parts /\ r.finalizing = TRUE
  BY SessionTypes DEF Session
<1> HIDE DEF r
<1>3. Edit(s, session[s].total, session[s].buffer, session[s].parts, TRUE)
  BY <1>1, <1>2, EditType
<1>4. Turn(w, "finish", "body", s, work[w].expired)
  BY GotoTurn DEF FinishEnter, Stages, Id
<1> QED
  BY <1>3, <1>4

LEMMA InsertEdit ==
    ASSUME TypeOK, NEW w \in Workers, Id(w) \in Sessions, Insert(w)
    PROVE  Edit(Id(w), 0, {}, {}, FALSE) /\ session'[Id(w)] = NewSession
<1>1. NewSession \in Session /\ NewSession.total = 0 /\ NewSession.buffer = {}
      /\ NewSession.parts = {} /\ NewSession.finalizing = FALSE
  BY SizesAssumption DEF NewSession, Session
<1>2. session' = [session EXCEPT ![Id(w)] = NewSession]
  BY DEF Insert
<1> QED
  BY <1>1, <1>2, EditType DEF TypeOK

LEMMA AgeEdit ==
    ASSUME TypeOK, NEW s \in Sessions, Age(s)
    PROVE  Edit(s, session[s].total, session[s].buffer, session[s].parts, session[s].finalizing)
<1> DEFINE r == [session[s] EXCEPT !.idle = TRUE]
<1>1. session' = [session EXCEPT ![s] = r]
  BY DEF Age
<1>2. r \in Session /\ r.total = session[s].total /\ r.buffer = session[s].buffer
      /\ r.parts = session[s].parts /\ r.finalizing = session[s].finalizing
  BY SessionTypes DEF Session
<1> HIDE DEF r
<1> QED
  BY <1>1, <1>2, EditType

-----------------------------------------------------------------------------
(***************************************************************************)
(* Types                                                                   *)
(***************************************************************************)
Counts == calls' \in 0..MaxCalls /\ faults' \in 0..MaxFaults
Histories == lost' \in SUBSET Sessions /\ unaborted' \in SUBSET Sessions

LEMMA CountTypes ==
    ASSUME TypeOK
    PROVE  /\ Call => Counts /\ Histories
           /\ \A op, at : Fault(op, at) => Counts
           /\ UNCHANGED rest => Counts /\ Histories
           /\ UNCHANGED bounds => Counts
BY SizesAssumption DEF TypeOK, Call, Fault, rest, bounds, Counts, Histories

LEMMA LockTypes ==
    ASSUME TypeOK, NEW w \in Workers, NEW s
    PROVE  Lock(w, s) \/ Unlock(s) => lock' \in [Sessions -> Holders]
BY DEF TypeOK, Lock, Unlock, Holders

LEMMA AbortTypes ==
    ASSUME TypeOK, NEW w \in Workers, Id(w) \in Sessions, AbortUpload(w)
    PROVE  /\ upload' \in [Sessions -> {"none", "open", "aborted", "completed"}]
           /\ Counts /\ Histories
<1>1. CASE UNCHANGED rest
  <2>1. upload' = [upload EXCEPT ![Id(w)] = IF @ = "open" THEN "aborted" ELSE @]
        \/ UNCHANGED upload
    BY DEF AbortUpload
  <2> QED
    BY <1>1, <2>1, CountTypes DEF TypeOK
<1>2. CASE Fault("storage", "abort") /\ unaborted' = unaborted \cup {Id(w)} /\ UNCHANGED <<upload, lost>>
  BY <1>2, CountTypes DEF TypeOK, Histories
<1> QED
  BY <1>1, <1>2 DEF AbortUpload

TypeInv == TypeOK /\ References

LEMMA NamedHasId ==
    ASSUME TypeInv, NEW w \in Workers, work[w].at \in Named
    PROVE  Id(w) \in Sessions
BY DEF TypeInv, References, Id

\* A turn keeps the references.
LEMMA TurnReferences ==
    ASSUME TypeInv, NEW w \in Workers, NEW op, NEW at, NEW id, NEW expired, Turn(w, op, at, id, expired),
           at \in Named => id \in Sessions, expired # {} => at \in Reaping
    PROVE  References'
BY DEF TypeInv, References, Turn

\* A step is typed when the work, the references and what else it changes are.
LEMMA TypeStep ==
    ASSUME TypeInv, work' \in [Workers -> Work], References', Counts, Histories,
           registry' \in SUBSET Sessions, session' \in [Sessions -> Session],
           lock' \in [Sessions -> Holders],
           upload' \in [Sessions -> {"none", "open", "aborted", "completed"}],
           temp' \in [Sessions -> (SUBSET Units) \cup {None}],
           objects' \in [0..MaxUnits -> (SUBSET Units) \cup {None}],
           recorded' \in SUBSET (0..MaxUnits)
    PROVE  TypeInv'
BY DEF TypeInv, TypeOK, Counts, Histories

LEMMA SameTypes ==
    ASSUME TypeOK
    PROVE  /\ UNCHANGED registry => registry' \in SUBSET Sessions
           /\ UNCHANGED session => session' \in [Sessions -> Session]
           /\ UNCHANGED lock => lock' \in [Sessions -> Holders]
           /\ UNCHANGED upload => upload' \in [Sessions -> {"none", "open", "aborted", "completed"}]
           /\ UNCHANGED temp => temp' \in [Sessions -> (SUBSET Units) \cup {None}]
           /\ UNCHANGED objects => objects' \in [0..MaxUnits -> (SUBSET Units) \cup {None}]
           /\ UNCHANGED recorded => recorded' \in SUBSET (0..MaxUnits)
           /\ UNCHANGED work => work' \in [Workers -> Work]
BY DEF TypeOK

\* Moves that only concern the worker itself and the registry.
LEMMA TypeReap ==
    ASSUME TypeInv, NEW w \in Workers, Reap(w) \/ (ReapTick /\ w = Reaper)
    PROVE  TypeInv'
<1> TypeOK /\ References
  BY DEF TypeInv
<1> USE SameTypes, CountTypes, TypeStep
<1>1. CASE ReapTick /\ w = Reaper
  <2>1. Turn(w, "reap", "scan", None, {})
    BY <1>1, ReapTickTurn
  <2>2. References'
    BY <2>1, TurnReferences DEF Named
  <2> QED
    BY <1>1, <2>1, <2>2 DEF ReapTick, Turn, bucket
<1>2. CASE Scan(w)
  <2>1. work' \in [Workers -> Work] /\ References'
    <3>1. CASE Turn(w, work[w].op, "scan", None, work[w].expired)
      BY <3>1, TurnReferences DEF Named, Reaping, Turn
    <3>2. ASSUME NEW s \in registry, Turn(w, work[w].op, "expired", s, work[w].expired)
          PROVE  work' \in [Workers -> Work] /\ References'
      <4>1. s \in Sessions
        BY DEF TypeOK
      <4> QED
        BY <3>2, <4>1, TurnReferences DEF Reaping, Turn
    <3> QED
      BY <1>2, <3>1, <3>2, ScanTurn
  <2> QED
    BY <1>2, <2>1 DEF Scan, bucket
<1>3. CASE TakeExpired(w)
  <2>1. Turn(w, work[w].op, "scan", None, work[w].expired \cup {Id(w)})
    BY <1>3, TakeExpiredTurn
  <2>2. References'
    BY <2>1, TurnReferences DEF Named, Reaping
  <2>3. registry' \in SUBSET Sessions
    BY <1>3 DEF TakeExpired, TypeOK
  <2> QED
    BY <1>3, <2>1, <2>2, <2>3 DEF TakeExpired, Turn, bucket
<1>4. CASE ScanDone(w)
  <2>1. work' \in [Workers -> Work] /\ References'
    <3>1. CASE Turn(w, "none", "idle", None, {})
      BY <3>1, TurnReferences DEF Named, Turn
    <3>2. CASE Turn(w, work[w].op, "slot", work[w].id, {})
      BY <3>2, TurnReferences DEF Named, Turn
    <3>3. ASSUME NEW s \in work[w].expired, Turn(w, work[w].op, "reap", s, work[w].expired)
          PROVE  work' \in [Workers -> Work] /\ References'
      <4>1. s \in Sessions
        BY PartType
      <4> QED
        BY <3>3, <4>1, TurnReferences DEF Reaping, Turn
    <3> QED
      BY <1>4, <3>1, <3>2, <3>3, ScanDoneTurn
  <2> QED
    BY <1>4, <2>1 DEF ScanDone, bucket
<1>5. CASE ReapLock(w)
  <2>1. Turn(w, work[w].op, "abort", Id(w), work[w].expired)
    BY <1>5, GotoTurn DEF ReapLock, Stages, Id
  <2>2. Id(w) \in Sessions
    BY <1>5, NamedHasId DEF ReapLock, At, Named, Stages
  <2>3. References'
    BY <2>1, <2>2, TurnReferences DEF Reaping
  <2> QED
    BY <1>5, <2>1, <2>3, LockTypes DEF ReapLock, Turn, bucket
<1>6. CASE ReapAbort(w)
  <2>1. Turn(w, work[w].op, "scan", None, work[w].expired \ {Id(w)})
    BY <1>6, ReapAbortTurn
  <2>2. Id(w) \in Sessions
    BY <1>6, NamedHasId DEF ReapAbort, At, Named, Stages
  <2>3. References'
    BY <2>1, TurnReferences DEF Named, Reaping
  <2> QED
    BY <1>6, <2>1, <2>2, <2>3, LockTypes, AbortTypes DEF ReapAbort, Turn
<1> QED
  BY <1>1, <1>2, <1>3, <1>4, <1>5, <1>6 DEF Reap

\* A worker that goes on with its session keeps the references.
LEMMA GoesOn ==
    ASSUME TypeInv, NEW w \in Workers, NEW op, NEW at, work[w].at \in Named \ Reaping \/ work[w].expired = {},
           work[w].at \in Named, Turn(w, op, at, Id(w), work[w].expired)
    PROVE  References' /\ work' \in [Workers -> Work] /\ Id(w) \in Sessions
<1>1. Id(w) \in Sessions /\ work[w].expired = {}
  BY NamedHasId DEF TypeInv, References
<1> QED
  BY <1>1, TurnReferences DEF Turn

LEMMA LetsGo ==
    ASSUME TypeInv, NEW w \in Workers, Finish(w)
    PROVE  References' /\ work' \in [Workers -> Work]
BY FinishTurn, TurnReferences DEF TypeInv, Named, Turn

LEMMA GoesTo ==
    ASSUME TypeInv, NEW w \in Workers, work[w].at \in Named \ Reaping \/ work[w].expired = {},
           work[w].at \in Named, NEW at \in Stages, Goto(w, at)
    PROVE  References' /\ work' \in [Workers -> Work] /\ Id(w) \in Sessions
BY GotoTurn, GoesOn DEF TypeInv, Id

LEMMA TypeClaim ==
    ASSUME TypeInv, NEW w \in Workers, Claim(w)
    PROVE  References' /\ work' \in [Workers -> Work]
<1>1. PICK s \in Sessions : Turn(w, "start", "create", s, {})
  BY ClaimTurn DEF TypeInv
<1> QED
  BY <1>1, TurnReferences DEF Turn

\* Requests that begin, and those that are turned away.
LEMMA TypeBegin ==
    ASSUME TypeInv, NEW w \in Workers,
           Start(w) \/ StartAgain(w) \/ Create(w) \/ Insert(w) \/ GetPatch(w) \/ GetFinish(w)
           \/ GetCancel(w) \/ Refused(w)
    PROVE  TypeInv'
<1> TypeOK /\ References
  BY DEF TypeInv
<1> USE SameTypes, CountTypes, TypeStep
<1>1. CASE Start(w)
  <2>1. References' /\ work' \in [Workers -> Work]
    BY <1>1, StartTurn, TypeClaim, TurnReferences DEF Named, Reaping, Turn
  <2> QED
    BY <1>1, <2>1 DEF Start, bucket
<1>2. CASE StartAgain(w)
  <2>1. References' /\ work' \in [Workers -> Work]
    BY <1>2, LetsGo, TypeClaim DEF StartAgain
  <2> QED
    BY <1>2, <2>1 DEF StartAgain, bucket
<1>3. CASE Create(w) \/ Insert(w)
  <2>1. Id(w) \in Sessions
    BY <1>3, NamedHasId DEF Create, Insert, At, Named, Stages
  <2>2. References' /\ work' \in [Workers -> Work]
    <3>1. CASE Create(w)
      BY <3>1, GoesTo DEF Create, Stages, Named, Reaping, At
    <3>2. CASE Insert(w)
      BY <3>2, LetsGo DEF Insert
    <3> QED
      BY <1>3, <3>1, <3>2
  <2>3. session' \in [Sessions -> Session]
    BY <1>3, <2>1, InsertEdit DEF Edit, Create, TypeOK
  <2>4. /\ upload' \in [Sessions -> {"none", "open", "aborted", "completed"}]
        /\ registry' \in SUBSET Sessions
    BY <1>3, <2>1 DEF Create, Insert, TypeOK, bucket
  <2> QED
    BY <1>3, <2>2, <2>3, <2>4 DEF Create, Insert, bucket
<1>4. ASSUME NEW op \in {"patch", "finish", "cancel"}, Get(w, op) PROVE TypeInv'
  <2>1. References' /\ work' \in [Workers -> Work]
    BY <1>4, GetTurn, TurnReferences DEF Turn
  <2> QED
    BY <1>4, <2>1 DEF Get, bucket
<1>5. CASE Refused(w)
  <2>1. References' /\ work' \in [Workers -> Work]
    BY <1>5, LetsGo DEF Refused
  <2> QED
    BY <1>5, <2>1 DEF Refused, bucket
<1> QED
  BY <1>1, <1>2, <1>3, <1>4, <1>5 DEF GetPatch, GetFinish, GetCancel

\* The lock is taken.
LEMMA TypeEnter ==
    ASSUME TypeInv, NEW w \in Workers, PatchEnter(w) \/ FinishEnter(w) \/ CancelEnter(w)
    PROVE  TypeInv'
<1> TypeOK /\ References
  BY DEF TypeInv
<1>1. work[w].at \in Named \ Reaping /\ Id(w) \in Sessions /\ {"body", "abort"} \subseteq Stages
  BY NamedHasId DEF PatchEnter, FinishEnter, CancelEnter, At, Named, Reaping, Stages
<1> USE SameTypes, CountTypes, TypeStep
<1>2. CASE PatchEnter(w)
  <2>1. References' /\ work' \in [Workers -> Work]
    BY <1>1, <1>2, GoesTo DEF PatchEnter
  <2> QED
    BY <1>2, <2>1, LockTypes DEF PatchEnter, bucket
<1>3. CASE FinishEnter(w)
  <2>1. References' /\ work' \in [Workers -> Work]
    BY <1>1, <1>3, GoesTo DEF FinishEnter
  <2>2. session' \in [Sessions -> Session]
    BY <1>1, <1>3, FinishEnterTurn DEF Edit
  <2> QED
    BY <1>3, <2>1, <2>2, LockTypes DEF FinishEnter, bucket
<1>4. CASE CancelEnter(w)
  <2>1. References' /\ work' \in [Workers -> Work]
    BY <1>1, <1>4, GoesTo DEF CancelEnter
  <2> QED
    BY <1>4, <2>1, LockTypes DEF CancelEnter, bucket
<1> QED
  BY <1>2, <1>3, <1>4

\* The request, or the upload under it, ends in the middle.
LEMMA TypeLeave ==
    ASSUME TypeInv, NEW w \in Workers, Fail(w) \/ UploadGone(w)
    PROVE  TypeInv'
<1> TypeOK /\ References
  BY DEF TypeInv
<1>1. Leave(w)
  BY DEF Fail, UploadGone
<1>2. References' /\ work' \in [Workers -> Work]
  BY <1>1, LetsGo DEF Leave
<1>3. lock' \in [Sessions -> Holders]
  BY <1>1 DEF Leave, TypeOK, Holders
<1>4. lost' \in SUBSET Sessions
  BY <1>1, NamedHasId DEF Leave, TypeOK, At, Named, Stages
<1>5. unaborted' \in SUBSET Sessions /\ Counts
  <2>1. CASE Fail(w)
    <3>1. work[w].at \in {"insert", "expired", "abort"} => Id(w) \in Sessions
      BY NamedHasId DEF Named, Stages
    <3>2. Charge(w) \in SUBSET Sessions
      BY <3>1, PartType DEF Charge
    <3> QED
      BY <2>1, <3>2, CountTypes DEF Fail, TypeOK
  <2>2. CASE UploadGone(w)
    BY <2>2, CountTypes DEF UploadGone, TypeOK
  <2> QED
    BY <2>1, <2>2
<1> QED
  BY <1>1, <1>2, <1>3, <1>4, <1>5, SameTypes, TypeStep DEF Leave, Histories, bucket

\* The process starts again, or time passes.
LEMMA TypeRestart == ASSUME TypeInv, Restart PROVE TypeInv'
<1> TypeOK /\ References
  BY DEF TypeInv
<1>1. work' \in [Workers -> Work] /\ References'
  BY NoWorkType DEF Restart, References, Named
<1>2. Counts /\ Histories
  BY CountTypes DEF Restart, TypeOK, Histories
<1> QED
  BY <1>1, <1>2, SameTypes, TypeStep DEF Restart, bucket, Holders

LEMMA TypeAge == ASSUME TypeInv, NEW s \in Sessions, Age(s) PROVE TypeInv'
<1> TypeOK /\ References
  BY DEF TypeInv
<1> QED
  BY AgeEdit, SameTypes, CountTypes, TypeStep DEF Age, Edit, bucket, References

\* The body of a request.
LEMMA TypeBody ==
    ASSUME TypeInv, NEW w \in Workers, Write(w) \/ UploadPart(w) \/ PatchDone(w) \/ Verify(w)
    PROVE  TypeInv'
<1> TypeOK /\ References
  BY DEF TypeInv
<1>1. work[w].at \in Named \ Reaping /\ Id(w) \in Sessions
  BY NamedHasId DEF Write, UploadPart, PatchDone, Verify, At, Named, Reaping, Stages
<1> USE SameTypes, CountTypes, TypeStep
<1>2. CASE Write(w)
  <2>1. PICK at : Turn(w, work[w].op, at, Id(w), work[w].expired)
    BY <1>1, <1>2, WriteTurn
  <2>2. References' /\ work' \in [Workers -> Work]
    BY <1>1, <2>1, GoesOn
  <2>3. session' \in [Sessions -> Session]
    BY <1>1, <1>2, WriteTurn DEF Edit
  <2> QED
    BY <1>2, <2>2, <2>3 DEF Write, bucket
<1>3. CASE UploadPart(w)
  <2>1. References' /\ work' \in [Workers -> Work]
    BY <1>1, <1>3, UploadPartTurn, GoesOn
  <2>2. session' \in [Sessions -> Session]
    BY <1>1, <1>3, UploadPartTurn DEF Edit
  <2> QED
    BY <1>3, <2>1, <2>2 DEF UploadPart, bucket
<1>4. CASE PatchDone(w)
  <2>1. References' /\ work' \in [Workers -> Work]
    BY <1>4, LetsGo DEF PatchDone
  <2> QED
    BY <1>4, <2>1, LockTypes DEF PatchDone, bucket
<1>5. CASE Verify(w)
  <2>1. {"quota", "mismatch"} \subseteq Stages
    BY DEF Stages
  <2>2. References' /\ work' \in [Workers -> Work]
    BY <1>1, <1>5, <2>1, GoesTo DEF Verify
  <2> QED
    BY <1>5, <2>2 DEF Verify, bucket
<1> QED
  BY <1>2, <1>3, <1>4, <1>5

\* finish, once the body is in.
LEMMA TypeCommit ==
    ASSUME TypeInv, NEW w \in Workers, Commit(w)
    PROVE  TypeInv'
<1> TypeOK /\ References
  BY DEF TypeInv
<1>1. /\ work[w].at \in Named \ Reaping \/ work[w].expired = {}
      /\ work[w].at \in Named /\ Id(w) \in Sessions
  BY NamedHasId DEF Commit, Mismatch, CheckQuota, CommitSmall, Put, CommitParts, Tail, Complete,
     Copy, Cleanup, Record, Abort, Remove, At, Named, Reaping, Stages
<1>2. {"commit", "abort", "put", "copy", "cleanup", "record", "remove"} \subseteq Stages
  BY DEF Stages
<1> USE SameTypes, CountTypes, TypeStep
<1>3. CASE Mismatch(w)
  <2>1. References' /\ work' \in [Workers -> Work]
    BY <1>3, LetsGo DEF Mismatch
  <2>2. registry' \in SUBSET Sessions
    BY <1>3 DEF Mismatch, TypeOK
  <2> QED
    BY <1>1, <1>3, <2>1, <2>2, LockTypes, AbortTypes DEF Mismatch
<1>4. CASE CheckQuota(w)
  <2>1. References' /\ work' \in [Workers -> Work]
    BY <1>1, <1>2, <1>4, GoesTo DEF CheckQuota
  <2> QED
    BY <1>4, <2>1 DEF CheckQuota, bucket
<1>5. CASE CommitSmall(w)
  <2>1. References' /\ work' \in [Workers -> Work]
    BY <1>1, <1>5, CommitSmallTurn, GoesOn
  <2>2. session' \in [Sessions -> Session]
    BY <1>1, <1>5, CommitSmallTurn DEF Edit
  <2> QED
    BY <1>1, <1>5, <2>1, <2>2, AbortTypes DEF CommitSmall
<1>6. CASE Put(w)
  <2>1. References' /\ work' \in [Workers -> Work]
    BY <1>1, <1>6, PutTurn, GoesOn
  <2>2. temp' \in [Sessions -> (SUBSET Units) \cup {None}]
    <3>1. work[w].part \in (SUBSET Units) \cup {None}
      BY PartType
    <3>2. temp' = [temp EXCEPT ![Id(w)] = work[w].part]
      BY <1>6 DEF Put
    <3> QED
      BY <3>1, <3>2 DEF TypeOK
  <2> QED
    BY <1>6, <2>1, <2>2 DEF Put
<1>7. CASE CommitParts(w)
  <2>1. References' /\ work' \in [Workers -> Work]
    BY <1>1, <1>7, CommitPartsTurn, GoesOn
  <2>2. session' \in [Sessions -> Session]
    BY <1>1, <1>7, CommitPartsTurn DEF Edit
  <2> QED
    BY <1>7, <2>1, <2>2 DEF CommitParts, bucket
<1>8. CASE Tail(w)
  <2>1. References' /\ work' \in [Workers -> Work]
    BY <1>1, <1>8, TailTurn, GoesOn
  <2>2. session' \in [Sessions -> Session]
    BY <1>1, <1>8, TailTurn DEF Edit
  <2> QED
    BY <1>8, <2>1, <2>2 DEF Tail, bucket
<1>9. CASE Complete(w)
  <2>1. References' /\ work' \in [Workers -> Work]
    BY <1>1, <1>9, CompleteTurn, GoesOn
  <2>2. session' \in [Sessions -> Session]
    BY <1>1, <1>9, CompleteTurn DEF Edit
  <2>3. temp' \in [Sessions -> (SUBSET Units) \cup {None}]
    <3>1. session[Id(w)].parts \in (SUBSET Units) \cup {None}
      BY <1>1, SessionTypes
    <3>2. temp' = [temp EXCEPT ![Id(w)] = session[Id(w)].parts]
      BY <1>9 DEF Complete
    <3> QED
      BY <3>1, <3>2 DEF TypeOK
  <2>4. upload' \in [Sessions -> {"none", "open", "aborted", "completed"}]
    BY <1>9 DEF Complete, TypeOK
  <2> QED
    BY <1>9, <2>1, <2>2, <2>3, <2>4 DEF Complete
<1>10. CASE Copy(w)
  <2>1. References' /\ work' \in [Workers -> Work]
    BY <1>1, <1>2, <1>10, GoesTo DEF Copy
  <2>2. objects' \in [0..MaxUnits -> (SUBSET Units) \cup {None}]
    BY <1>1, <1>10, SessionTypes DEF Copy, TypeOK
  <2> QED
    BY <1>10, <2>1, <2>2 DEF Copy
<1>11. CASE Cleanup(w)
  <2>1. References' /\ work' \in [Workers -> Work]
    BY <1>1, <1>2, <1>11, GoesTo DEF Cleanup
  <2>2. temp' \in [Sessions -> (SUBSET Units) \cup {None}] /\ Counts /\ Histories
    <3>1. CASE temp' = [temp EXCEPT ![Id(w)] = None] /\ UNCHANGED rest
      <4>1. temp' \in [Sessions -> (SUBSET Units) \cup {None}]
        BY <3>1 DEF TypeOK
      <4> QED
        BY <3>1, <4>1
    <3>2. CASE Fault("storage", "cleanup") /\ UNCHANGED <<temp, lost, unaborted>>
      BY <3>2 DEF TypeOK, Histories
    <3> QED
      BY <1>11, <3>1, <3>2 DEF Cleanup
  <2> QED
    BY <1>11, <2>1, <2>2 DEF Cleanup
<1>12. CASE Record(w)
  <2>1. References' /\ work' \in [Workers -> Work]
    BY <1>1, <1>2, <1>12, GoesTo DEF Record
  <2>2. recorded' \in SUBSET (0..MaxUnits)
    BY <1>1, <1>12, SessionTypes DEF Record, TypeOK
  <2> QED
    BY <1>12, <2>1, <2>2, LockTypes DEF Record, bucket
<1>13. CASE Abort(w)
  <2>1. References' /\ work' \in [Workers -> Work]
    BY <1>1, <1>2, <1>13, GoesTo DEF Abort
  <2> QED
    BY <1>1, <1>13, <2>1, LockTypes, AbortTypes DEF Abort
<1>14. CASE Remove(w)
  <2>1. References' /\ work' \in [Workers -> Work]
    BY <1>14, LetsGo DEF Remove
  <2>2. registry' \in SUBSET Sessions
    BY <1>14 DEF Remove, TypeOK
  <2> QED
    BY <1>14, <2>1, <2>2 DEF Remove, bucket
<1> QED
  BY <1>3, <1>4, <1>5, <1>6, <1>7, <1>8, <1>9, <1>10, <1>11, <1>12, <1>13, <1>14 DEF Commit

LEMMA TypeInvariant == Spec => []TypeInv
<1>1. Init => TypeInv
  <2> SUFFICES ASSUME Init PROVE TypeInv
    OBVIOUS
  <2>1. work \in [Workers -> Work] /\ References
    BY NoWorkType DEF Init, References, Named
  <2>2. session \in [Sessions -> Session]
    BY SizesAssumption DEF Init, NewSession, Session
  <2>3. /\ lock \in [Sessions -> Holders]
        /\ upload \in [Sessions -> {"none", "open", "aborted", "completed"}]
        /\ temp \in [Sessions -> (SUBSET Units) \cup {None}]
        /\ objects \in [0..MaxUnits -> (SUBSET Units) \cup {None}]
    BY DEF Init, Holders
  <2>4. calls \in 0..MaxCalls /\ faults \in 0..MaxFaults
    BY SizesAssumption DEF Init
  <2> QED
    BY <2>1, <2>2, <2>3, <2>4 DEF Init, TypeInv, TypeOK
<1>2. TypeInv /\ [Next]_vars => TypeInv'
  <2> SUFFICES ASSUME TypeInv, [Next]_vars PROVE TypeInv'
    OBVIOUS
  <2>1. CASE UNCHANGED vars
    BY <2>1 DEF vars, TypeInv, TypeOK, References
  <2>2. Reaper \in Workers /\ Requests \subseteq Workers
    BY DEF Workers
  <2> QED
    BY <2>1, <2>2, TypeReap, TypeBegin, TypeEnter, TypeLeave, TypeRestart, TypeAge, TypeBody,
       TypeCommit
    DEF Next, Proceed, Enter, Body
<1> QED
  BY <1>1, <1>2, PTL DEF Spec

\* Every variable has its type: what is counted and written stays within the bounds.
THEOREM TypeCorrect == Spec => []TypeOK
BY TypeInvariant, PTL DEF TypeInv

-----------------------------------------------------------------------------
(***************************************************************************)
(* The mutex, and the sessions that are not created yet                    *)
(***************************************************************************)
Committing ==
    {"mismatch", "quota", "commit", "put", "tail", "complete", "copy", "cleanup", "record"}
Locked == {"body", "part", "abort"} \cup Committing

\* A session's mutex is held by the worker that is inside it, and by no other.
Exclusive ==
    \A w \in Workers, s \in Sessions :
        lock[s] = w <=> (work[w].id = s /\ work[w].at \in Locked)

\* A session that is not registered yet is as Insert will make it, and nobody has taken
\* it to abort it.
Making == {"create", "insert"}
Unknown(s) ==
    /\ session[s] = NewSession /\ s \notin registry \cup lost
    /\ \A w \in Workers : s \notin work[w].expired

\* So is one whose multipart upload was never created, and only the request that is to
\* create it knows of it.
New ==
    \A s \in Sessions : upload[s] = "none" =>
        Unknown(s) /\ \A w \in Workers : work[w].id = s => work[w].at = "create"

\* Until it is registered, the session is the starting request's alone.
Creates ==
    \A w \in Workers : work[w].at \in Making =>
        /\ Unknown(work[w].id)
        /\ work[w].at = "create" => upload[work[w].id] = "none"
        /\ \A v \in Workers : v # w => work[v].id # work[w].id

WorkInv == TypeInv /\ Exclusive /\ New /\ Creates

\* The worker leaves the session or stays outside, goes on inside, or enters.
Locks(w, at, id) ==
    \/ /\ at \notin Locked
       /\ \A t \in Sessions : lock'[t] = IF lock[t] = w THEN None ELSE lock[t]
    \/ at \in Locked /\ work[w].at \in Locked /\ id = Id(w) /\ UNCHANGED lock
    \/ /\ at \in Locked /\ work[w].at \notin Locked /\ id \in Sessions /\ lock[id] = None
       /\ lock' = [lock EXCEPT ![id] = w]

\* Where the ids come from that a worker refers to.
Names(w, at, id, expired) ==
    /\ \/ at = "create" /\ id \in Sessions /\ Fresh(id)
       \/ at = "insert" /\ work[w].at = "create" /\ id = Id(w) /\ upload'[id] # "none"
       \/ /\ at \notin Making
          /\ \/ id \in {None} \cup registry \cup work[w].expired
             \/ id = Id(w) /\ work[w].at \notin Making
    /\ \A s \in expired : s \in work[w].expired \/ (work[w].at = "expired" /\ s = Id(w))
    /\ \A s \in registry' : s \in registry \/ (work[w].at = "insert" /\ s = Id(w))

\* What happens to the sessions: only the worker's own changes.
Touches(w) ==
    /\ \A s \in Sessions \ {Id(w)} :
        upload'[s] = upload[s] /\ session'[s] = session[s] /\ temp'[s] = temp[s]
    /\ Id(w) \in Sessions =>
        /\ upload[Id(w)] # "none" => upload'[Id(w)] # "none"
        /\ work[w].at \in Making => session'[Id(w)] = session[Id(w)]
        /\ upload'[Id(w)] = "open" => upload[Id(w)] = "open" \/ work[w].at = "create"
        /\ session[Id(w)].finalizing => session'[Id(w)].finalizing
    /\ lost \subseteq lost' /\ unaborted \subseteq unaborted'
    /\ \A s \in lost' : s \in lost \/ (work[w].at = "part" /\ s = Id(w))

Move(w) ==
    \E op, at, id, expired :
        /\ Turn(w, op, at, id, expired) /\ Locks(w, at, id)
        /\ Names(w, at, id, expired) /\ Touches(w)

\* A step outside a session.
LEMMA StaysOutside ==
    ASSUME Exclusive, NEW w \in Workers, work[w].at \notin Locked, UNCHANGED lock, NEW at, NEW id,
           at \notin Locked
    PROVE  Locks(w, at, id)
BY DEF Exclusive, Locks

LEMMA TouchesNothing ==
    ASSUME NEW w \in Workers, UNCHANGED <<upload, session, temp, lost, unaborted>>
    PROVE  Touches(w)
BY DEF Touches

LEMMA MoveReap ==
    ASSUME WorkInv, NEW w \in Workers, Reap(w) \/ (ReapTick /\ w = Reaper)
    PROVE  Move(w)
<1> TypeInv /\ TypeOK /\ Exclusive /\ References
  BY DEF WorkInv, TypeInv
<1>1. CASE ReapTick /\ w = Reaper
  <2>1. Turn(w, "reap", "scan", None, {})
    BY <1>1, ReapTickTurn
  <2>2. Locks(w, "scan", None)
    BY <1>1, StaysOutside DEF ReapTick, At, Locked, Committing
  <2>3. Names(w, "scan", None, {}) /\ Touches(w)
    BY <1>1, TouchesNothing DEF Names, Making, ReapTick, rest, bucket, At
  <2> QED
    BY <2>1, <2>2, <2>3 DEF Move
<1>2. CASE Scan(w)
  <2>1. UNCHANGED <<upload, session, temp, lost, unaborted, lock, registry>> /\ work[w].at = "scan"
    BY <1>2 DEF Scan, bucket, rest, At
  <2>2. Touches(w)
    BY <2>1, TouchesNothing
  <2>3. CASE Turn(w, work[w].op, "scan", None, work[w].expired)
    <3>1. Locks(w, "scan", None) /\ Names(w, "scan", None, work[w].expired)
      BY <2>1, StaysOutside DEF Names, Making, Locked, Committing
    <3> QED
      BY <2>2, <2>3, <3>1 DEF Move
  <2>4. ASSUME NEW s \in registry, Turn(w, work[w].op, "expired", s, work[w].expired)
        PROVE  Move(w)
    <3>1. Locks(w, "expired", s) /\ Names(w, "expired", s, work[w].expired)
      BY <2>1, StaysOutside DEF Names, Making, Locked, Committing
    <3> QED
      BY <2>2, <2>4, <3>1 DEF Move
  <2> QED
    BY <1>2, <2>3, <2>4, ScanTurn
<1>3. CASE TakeExpired(w)
  <2>1. Turn(w, work[w].op, "scan", None, work[w].expired \cup {Id(w)})
    BY <1>3, TakeExpiredTurn
  <2>2. UNCHANGED <<upload, session, temp, lost, unaborted, lock>> /\ work[w].at = "expired"
        /\ registry' = registry \ {Id(w)}
    BY <1>3 DEF TakeExpired, bucket, rest, At
  <2>3. Touches(w) /\ Locks(w, "scan", None) /\ Names(w, "scan", None, work[w].expired \cup {Id(w)})
    BY <2>2, TouchesNothing, StaysOutside DEF Names, Making, Locked, Committing
  <2> QED
    BY <2>1, <2>3 DEF Move
<1>4. CASE ScanDone(w)
  <2>1. UNCHANGED <<upload, session, temp, lost, unaborted, lock, registry>> /\ work[w].at = "scan"
    BY <1>4 DEF ScanDone, bucket, rest, At
  <2>2. Touches(w)
    BY <2>1, TouchesNothing
  <2>3. CASE Turn(w, "none", "idle", None, {})
    <3>1. Locks(w, "idle", None) /\ Names(w, "idle", None, {})
      BY <2>1, StaysOutside DEF Names, Making, Locked, Committing
    <3> QED
      BY <2>2, <2>3, <3>1 DEF Move
  <2>4. CASE Turn(w, work[w].op, "slot", work[w].id, {})
    <3>1. Locks(w, "slot", work[w].id) /\ Names(w, "slot", work[w].id, {})
      BY <2>1, StaysOutside DEF Names, Making, Locked, Committing, Id
    <3> QED
      BY <2>2, <2>4, <3>1 DEF Move
  <2>5. ASSUME NEW s \in work[w].expired, Turn(w, work[w].op, "reap", s, work[w].expired)
        PROVE  Move(w)
    <3>1. Locks(w, "reap", s) /\ Names(w, "reap", s, work[w].expired)
      BY <2>1, StaysOutside DEF Names, Making, Locked, Committing
    <3> QED
      BY <2>2, <2>5, <3>1 DEF Move
  <2> QED
    BY <1>4, <2>3, <2>4, <2>5, ScanDoneTurn
<1>5. CASE ReapLock(w)
  <2>1. Turn(w, work[w].op, "abort", Id(w), work[w].expired)
    BY <1>5, GotoTurn DEF ReapLock, Stages, Id
  <2>2. Id(w) \in Sessions
    BY <1>5, NamedHasId DEF ReapLock, At, Named, Stages
  <2>3. UNCHANGED <<upload, session, temp, lost, unaborted, registry>> /\ work[w].at = "reap"
        /\ Lock(w, Id(w))
    BY <1>5 DEF ReapLock, bucket, rest, At
  <2>4. Touches(w) /\ Locks(w, "abort", Id(w)) /\ Names(w, "abort", Id(w), work[w].expired)
    BY <2>2, <2>3, TouchesNothing DEF Names, Making, Locks, Locked, Committing, Lock
  <2> QED
    BY <2>1, <2>4 DEF Move
<1>6. CASE ReapAbort(w)
  <2>1. Turn(w, work[w].op, "scan", None, work[w].expired \ {Id(w)})
    BY <1>6, ReapAbortTurn
  <2>2. Id(w) \in Sessions
    BY <1>6, NamedHasId DEF ReapAbort, At, Named, Stages
  <2>3. UNCHANGED <<session, temp, registry>> /\ work[w].at = "abort" /\ Unlock(Id(w))
        /\ AbortUpload(w)
    BY <1>6 DEF ReapAbort, At
  <2>4. Touches(w)
    BY <2>2, <2>3 DEF AbortUpload, Touches, Making, rest, TypeOK
  <2>5. Locks(w, "scan", None)
    BY <2>2, <2>3 DEF Locks, Locked, Committing, Unlock, Exclusive, TypeOK, Id
  <2>6. Names(w, "scan", None, work[w].expired \ {Id(w)})
    BY <2>3 DEF Names, Making
  <2> QED
    BY <2>1, <2>4, <2>5, <2>6 DEF Move
<1> QED
  BY <1>1, <1>2, <1>3, <1>4, <1>5, <1>6 DEF Reap

LEMMA MoveBegin ==
    ASSUME WorkInv, NEW w \in Workers,
           Start(w) \/ StartAgain(w) \/ Create(w) \/ Insert(w) \/ GetPatch(w) \/ GetFinish(w)
           \/ GetCancel(w) \/ Refused(w)
    PROVE  Move(w)
<1> TypeInv /\ TypeOK /\ Exclusive /\ References
  BY DEF WorkInv, TypeInv
<1>1. ASSUME work[w].at \notin Locked, UNCHANGED <<upload, session, temp, lost, unaborted, lock, registry>>,
             work[w].at \notin Making, Claim(w)
      PROVE  Move(w)
  <2>1. PICK s \in Sessions : Fresh(s) /\ Turn(w, "start", "create", s, {})
    BY <1>1, ClaimTurn
  <2>2. Touches(w) /\ Locks(w, "create", s) /\ Names(w, "create", s, {})
    BY <1>1, <2>1, TouchesNothing, StaysOutside DEF Names, Making, Locked, Committing
  <2> QED
    BY <2>1, <2>2 DEF Move
<1>2. ASSUME work[w].at \notin Locked, UNCHANGED <<upload, session, temp, lost, unaborted, lock, registry>>,
             work[w].at \notin Making, Finish(w)
      PROVE  Move(w)
  <2>1. Turn(w, "none", "idle", None, {})
    BY <1>2, FinishTurn
  <2>2. Touches(w) /\ Locks(w, "idle", None) /\ Names(w, "idle", None, {})
    BY <1>2, TouchesNothing, StaysOutside DEF Names, Making, Locked, Committing
  <2> QED
    BY <2>1, <2>2 DEF Move
<1>3. CASE Start(w)
  <2>1. UNCHANGED <<upload, session, temp, lost, unaborted, lock, registry>> /\ work[w].at = "idle"
    BY <1>3 DEF Start, bucket, Call, At
  <2>2. CASE Turn(w, "start", "scan", None, {})
    <3>1. Touches(w) /\ Locks(w, "scan", None) /\ Names(w, "scan", None, {})
      BY <2>1, TouchesNothing, StaysOutside DEF Names, Making, Locked, Committing
    <3> QED
      BY <2>2, <3>1 DEF Move
  <2> QED
    BY <1>1, <1>3, <2>1, <2>2, StartTurn DEF Making, Locked, Committing
<1>4. CASE StartAgain(w)
  <2>1. UNCHANGED <<upload, session, temp, lost, unaborted, lock, registry>> /\ work[w].at = "slot"
    BY <1>4 DEF StartAgain, bucket, rest, At
  <2> QED
    BY <1>1, <1>2, <1>4, <2>1 DEF StartAgain, Making, Locked, Committing
<1>5. CASE Create(w)
  <2>1. Id(w) \in Sessions /\ "insert" \in Stages
    BY <1>5, NamedHasId DEF Create, At, Named, Stages
  <2>2. Turn(w, work[w].op, "insert", Id(w), work[w].expired)
    BY <1>5, <2>1, GotoTurn DEF Create, Id
  <2>3. /\ work[w].at = "create" /\ UNCHANGED <<temp, lost, unaborted, lock, session, registry>>
        /\ upload' = [upload EXCEPT ![Id(w)] = "open"]
    BY <1>5 DEF Create, At, rest
  <2>4. upload'[Id(w)] = "open" /\ \A s \in Sessions : s # Id(w) => upload'[s] = upload[s]
    BY <2>1, <2>3 DEF TypeOK
  <2>5. Touches(w)
    BY <2>3, <2>4 DEF Touches
  <2>6. Locks(w, "insert", Id(w)) /\ Names(w, "insert", Id(w), work[w].expired)
    BY <2>1, <2>3, <2>4, StaysOutside DEF Names, Making, Locked, Committing
  <2> QED
    BY <2>2, <2>5, <2>6 DEF Move
<1>8. CASE Insert(w)
  <2>1. Id(w) \in Sessions
    BY <1>8, NamedHasId DEF Insert, At, Named, Stages
  <2>2. Turn(w, "none", "idle", None, {})
    BY <1>8, FinishTurn DEF Insert
  <2>3. /\ work[w].at = "insert" /\ UNCHANGED <<upload, temp, lost, unaborted, lock>>
        /\ registry' = registry \cup {Id(w)}
    BY <1>8 DEF Insert, At, rest, bucket
  <2>4. session'[Id(w)] = session[Id(w)] /\ \A s \in Sessions : s # Id(w) => session'[s] = session[s]
    BY <1>8, <2>1, <2>3, InsertEdit DEF Edit, WorkInv, Creates, Unknown, Making, Id
  <2>5. Touches(w)
    BY <2>3, <2>4 DEF Touches
  <2>6. Locks(w, "idle", None) /\ Names(w, "idle", None, {})
    BY <2>1, <2>3, StaysOutside DEF Names, Making, Locked, Committing
  <2> QED
    BY <2>2, <2>5, <2>6 DEF Move
<1>6. ASSUME NEW op \in {"patch", "finish", "cancel"}, Get(w, op) PROVE Move(w)
  <2>1. PICK s \in registry : Turn(w, op, "wait", s, {})
    BY <1>6, GetTurn
  <2>2. UNCHANGED <<upload, session, temp, lost, unaborted, lock, registry>> /\ work[w].at = "idle"
    BY <1>6 DEF Get, bucket, Call, At
  <2>3. Touches(w) /\ Locks(w, "wait", s) /\ Names(w, "wait", s, {})
    BY <2>1, <2>2, TouchesNothing, StaysOutside DEF Names, Making, Locked, Committing
  <2> QED
    BY <2>1, <2>3 DEF Move
<1>7. CASE Refused(w)
  <2>1. UNCHANGED <<upload, session, temp, lost, unaborted, lock, registry>> /\ work[w].at = "wait"
    BY <1>7 DEF Refused, bucket, rest, At
  <2> QED
    BY <1>2, <1>7, <2>1 DEF Refused, Making, Locked, Committing
<1> QED
  BY <1>3, <1>4, <1>5, <1>6, <1>7, <1>8 DEF GetPatch, GetFinish, GetCancel

\* A worker that is inside a session and stays there.
LEMMA StaysInside ==
    ASSUME WorkInv, NEW w \in Workers, work[w].at \in Locked, UNCHANGED <<lock, registry>>, Touches(w),
           NEW op, NEW at \in Locked, Turn(w, op, at, Id(w), work[w].expired)
    PROVE  Move(w)
<1>1. Locks(w, at, Id(w)) /\ Names(w, at, Id(w), work[w].expired)
  BY DEF Locks, Names, Making, Locked, Committing
<1> QED
  BY <1>1 DEF Move

\* A worker that is inside a session and leaves it.
LEMMA GoesOutside ==
    ASSUME WorkInv, NEW w \in Workers, work[w].at \in Locked, registry' \subseteq registry, Touches(w),
           Unlock(Id(w)) \/ lock' = [s \in Sessions |-> IF lock[s] = w THEN None ELSE lock[s]],
           NEW op, NEW at, at \notin Locked, at \notin Making,
           NEW id \in {Id(w), None}, NEW expired \in SUBSET work[w].expired, Turn(w, op, at, id, expired)
    PROVE  Move(w)
<1>1. Id(w) \in Sessions
  BY NamedHasId DEF WorkInv, Locked, Committing, Named, Stages
<1>2. Locks(w, at, id)
  BY <1>1 DEF Locks, Unlock, WorkInv, Exclusive, TypeInv, TypeOK, Id
<1>3. Names(w, at, id, expired)
  BY DEF Names, Making, Locked, Committing
<1> QED
  BY <1>2, <1>3 DEF Move

\* A worker that takes the lock of the session it refers to.
LEMMA GoesInside ==
    ASSUME WorkInv, NEW w \in Workers, work[w].at \notin Locked \cup Making,
           UNCHANGED registry, Touches(w),
           Lock(w, Id(w)), Id(w) \in Sessions,
           NEW op, NEW at \in Locked, Turn(w, op, at, Id(w), work[w].expired)
    PROVE  Move(w)
<1>1. Locks(w, at, Id(w)) /\ Names(w, at, Id(w), work[w].expired)
  BY DEF Locks, Names, Lock, Making, Locked, Committing
<1> QED
  BY <1>1 DEF Move

LEMMA AbortTouches ==
    ASSUME TypeOK, NEW w \in Workers, Id(w) \in Sessions, AbortUpload(w), UNCHANGED temp,
           work[w].at \notin Making,
           NEW total, NEW buffer, NEW parts,
           Edit(Id(w), total, buffer, parts, session[Id(w)].finalizing) \/ UNCHANGED session
    PROVE  Touches(w)
BY DEF AbortUpload, Touches, Edit, rest, TypeOK

LEMMA EditTouches ==
    ASSUME TypeOK, NEW w \in Workers, UNCHANGED <<upload, temp, lost, unaborted>>, work[w].at \notin Making,
           NEW total, NEW buffer, NEW parts, NEW finalizing,
           session[Id(w)].finalizing => finalizing,
           Edit(Id(w), total, buffer, parts, finalizing)
    PROVE  Touches(w)
BY DEF Touches, Edit

LEMMA MoveEnter ==
    ASSUME WorkInv, NEW w \in Workers, PatchEnter(w) \/ FinishEnter(w) \/ CancelEnter(w)
    PROVE  Move(w)
<1> TypeInv /\ TypeOK
  BY DEF WorkInv, TypeInv
<1>1. /\ work[w].at = "wait" /\ Id(w) \in Sessions /\ {"body", "abort"} \subseteq Stages
      /\ work[w].at \notin Locked \cup Making /\ {"body", "abort"} \subseteq Locked
  BY NamedHasId DEF PatchEnter, FinishEnter, CancelEnter, At, Named, Making, Reaping, Stages, Locked, Committing
<1>2. Lock(w, Id(w)) /\ UNCHANGED <<upload, temp, lost, unaborted, registry>>
  BY DEF PatchEnter, FinishEnter, CancelEnter, bucket, rest
<1>3. CASE PatchEnter(w) \/ CancelEnter(w)
  <2>1. PICK at \in {"body", "abort"} : Turn(w, work[w].op, at, Id(w), work[w].expired)
    BY <1>1, <1>3, GotoTurn DEF PatchEnter, CancelEnter, Id
  <2>2. Touches(w)
    BY <1>1, <1>2, <1>3, TouchesNothing DEF PatchEnter, CancelEnter
  <2> QED
    BY <1>1, <1>2, <2>1, <2>2, GoesInside
<1>4. CASE FinishEnter(w)
  <2>1. /\ Turn(w, "finish", "body", Id(w), work[w].expired)
        /\ Edit(Id(w), session[Id(w)].total, session[Id(w)].buffer, session[Id(w)].parts, TRUE)
    BY <1>1, <1>4, FinishEnterTurn
  <2>2. Touches(w)
    BY <1>1, <1>2, <2>1, EditTouches
  <2> QED
    BY <1>1, <1>2, <2>1, <2>2, GoesInside
<1> QED
  BY <1>3, <1>4

LEMMA MoveLeave ==
    ASSUME WorkInv, NEW w \in Workers, Fail(w) \/ UploadGone(w)
    PROVE  Move(w)
<1> TypeInv /\ TypeOK /\ Exclusive
  BY DEF WorkInv, TypeInv
<1>1. Leave(w)
  BY DEF Fail, UploadGone
<1>2. Turn(w, "none", "idle", None, {})
  BY <1>1, FinishTurn DEF Leave
<1>3. Locks(w, "idle", None)
  BY <1>1 DEF Leave, Locks, Locked, Committing
<1>4. Names(w, "idle", None, {})
  BY <1>1 DEF Leave, Names, Making
<1>5. Touches(w)
  <2>1. unaborted \subseteq unaborted'
    BY DEF Fail, UploadGone
  <2>2. /\ UNCHANGED <<upload, session, temp, registry>>
        /\ lost' = IF work[w].at = "part" THEN lost \cup {Id(w)} ELSE lost
    BY <1>1 DEF Leave, bucket, At
  <2> QED
    BY <2>1, <2>2 DEF Touches
<1> QED
  BY <1>2, <1>3, <1>4, <1>5 DEF Move

LEMMA MoveBody ==
    ASSUME WorkInv, NEW w \in Workers, Write(w) \/ UploadPart(w) \/ PatchDone(w) \/ Verify(w)
    PROVE  Move(w)
<1> TypeInv /\ TypeOK
  BY DEF WorkInv, TypeInv
<1>1. work[w].at \in Locked /\ work[w].at \notin Making /\ Id(w) \in Sessions
  BY NamedHasId DEF Write, UploadPart, PatchDone, Verify, At, Named, Making, Stages, Locked, Committing
<1>2. UNCHANGED <<upload, temp, lost, unaborted, registry>>
  BY DEF Write, UploadPart, PatchDone, Verify, bucket, rest
<1>3. CASE Write(w)
  <2>1. /\ "part" \in Locked /\ \A n : AfterWrite(n) \in Locked
        /\ UNCHANGED lock
    BY <1>3 DEF Locked, AfterWrite, Write
  <2>2. ASSUME NEW total, NEW buffer, NEW at \in Locked,
               Turn(w, work[w].op, at, Id(w), work[w].expired),
               Edit(Id(w), total, buffer, session[Id(w)].parts, session[Id(w)].finalizing)
        PROVE  Move(w)
    BY <1>1, <1>2, <2>1, <2>2, EditTouches, StaysInside
  <2> QED
    BY <1>1, <1>3, <2>1, <2>2, WriteTurn
<1>4. CASE UploadPart(w)
  <2>1. AfterWrite(session[Id(w)].total) \in Locked /\ UNCHANGED lock
    BY <1>4 DEF Locked, AfterWrite, UploadPart
  <2>2. Touches(w)
    BY <1>1, <1>2, <1>4, UploadPartTurn, EditTouches
  <2> QED
    BY <1>1, <1>2, <1>4, <2>1, <2>2, UploadPartTurn, StaysInside
<1>5. CASE PatchDone(w)
  <2>1. Turn(w, "none", "idle", None, {})
    BY <1>5, FinishTurn DEF PatchDone
  <2>2. Touches(w) /\ Unlock(Id(w))
    BY <1>1, <1>2, <1>5, TouchesNothing DEF PatchDone
  <2> QED
    BY <1>1, <1>2, <2>1, <2>2, GoesOutside DEF Making, Locked, Committing
<1>6. CASE Verify(w)
  <2>1. {"quota", "mismatch"} \subseteq Stages \cap Locked
    BY DEF Stages, Locked, Committing
  <2>2. PICK at \in {"quota", "mismatch"} : Turn(w, work[w].op, at, Id(w), work[w].expired)
    BY <1>6, <2>1, GotoTurn DEF Verify, Id
  <2>3. Touches(w) /\ UNCHANGED lock
    BY <1>1, <1>2, <1>6, TouchesNothing DEF Verify
  <2> QED
    BY <1>1, <1>2, <2>1, <2>2, <2>3, StaysInside
<1> QED
  BY <1>3, <1>4, <1>5, <1>6

LEMMA MoveCommit ==
    ASSUME WorkInv, NEW w \in Workers, Commit(w)
    PROVE  Move(w)
<1> TypeInv /\ TypeOK
  BY DEF WorkInv, TypeInv
<1>1. /\ work[w].at \in Named /\ Id(w) \in Sessions /\ work[w].at \notin Making
      /\ work[w].at \in Locked \/ work[w].at = "remove"
  BY NamedHasId DEF Commit, Mismatch, CheckQuota, CommitSmall, Put, CommitParts, Tail, Complete,
     Copy, Cleanup, Record, Abort, Remove, At, Named, Making, Stages, Locked, Committing
<1>2. /\ {"commit", "abort", "put", "copy", "cleanup", "record"} \subseteq Stages \cap Locked
      /\ "remove" \in Stages \ Locked /\ "idle" \notin Locked
      /\ {"tail", "complete"} \subseteq Locked
  BY DEF Stages, Locked, Committing
<1>3. CASE Mismatch(w)
  <2>1. Turn(w, "none", "idle", None, {}) /\ Unlock(Id(w)) /\ registry' \subseteq registry
        /\ work[w].at = "mismatch"
    BY <1>3, FinishTurn DEF Mismatch, At
  <2>2. Touches(w)
    BY <1>1, <1>3, AbortTouches DEF Mismatch
  <2> QED
    BY <1>2, <2>1, <2>2, GoesOutside DEF Making, Locked, Committing
<1>4. CASE CheckQuota(w)
  <2>1. PICK at \in {"commit", "abort"} : Turn(w, work[w].op, at, Id(w), work[w].expired)
    BY <1>2, <1>4, GotoTurn DEF CheckQuota, Id
  <2>2. Touches(w) /\ UNCHANGED <<lock, registry>> /\ work[w].at = "quota"
    BY <1>1, <1>4, TouchesNothing DEF CheckQuota, bucket, rest, At
  <2> QED
    BY <1>1, <1>2, <2>1, <2>2, StaysInside
<1>5. CASE CommitSmall(w)
  <2>1. Touches(w)
    BY <1>1, <1>5, CommitSmallTurn, AbortTouches DEF CommitSmall
  <2>2. UNCHANGED <<lock, registry>> /\ work[w].at = "commit"
    BY <1>5 DEF CommitSmall, At
  <2> QED
    BY <1>1, <1>2, <1>5, <2>1, <2>2, CommitSmallTurn, StaysInside
<1>6. CASE Put(w)
  <2>1. /\ UNCHANGED <<lock, registry, upload, session, lost, unaborted>> /\ work[w].at = "put"
        /\ temp' = [temp EXCEPT ![Id(w)] = work[w].part]
    BY <1>6 DEF Put, At, rest
  <2>2. Touches(w)
    BY <1>1, <2>1 DEF Touches, Making, TypeOK
  <2> QED
    BY <1>1, <1>2, <1>6, <2>1, <2>2, PutTurn, StaysInside
<1>7. CASE CommitParts(w)
  <2>1. UNCHANGED <<lock, registry, upload, temp, lost, unaborted>> /\ work[w].at = "commit"
    BY <1>7 DEF CommitParts, At, rest, bucket
  <2>2. Touches(w)
    BY <1>1, <1>7, <2>1, CommitPartsTurn, EditTouches
  <2> QED
    BY <1>1, <1>2, <1>7, <2>1, <2>2, CommitPartsTurn, StaysInside
<1>8. CASE Tail(w)
  <2>1. UNCHANGED <<lock, registry, upload, temp, lost, unaborted>> /\ work[w].at = "tail"
    BY <1>8 DEF Tail, At, rest, bucket
  <2>2. Touches(w)
    BY <1>1, <1>8, <2>1, TailTurn, EditTouches
  <2> QED
    BY <1>1, <1>2, <1>8, <2>1, <2>2, TailTurn, StaysInside
<1>9. CASE Complete(w)
  <2>1. /\ UNCHANGED <<lock, registry, lost, unaborted>> /\ work[w].at = "complete"
        /\ upload' = [upload EXCEPT ![Id(w)] = "completed"]
        /\ temp' = [temp EXCEPT ![Id(w)] = session[Id(w)].parts]
    BY <1>9 DEF Complete, At, rest
  <2>2. /\ Turn(w, work[w].op, "copy", Id(w), work[w].expired)
        /\ Edit(Id(w), session[Id(w)].total, session[Id(w)].buffer, {},
                session[Id(w)].finalizing)
    BY <1>1, <1>9, CompleteTurn
  <2>3. Touches(w)
    BY <1>1, <2>1, <2>2 DEF Touches, Edit, TypeOK
  <2> QED
    BY <1>1, <1>2, <2>1, <2>2, <2>3, StaysInside
<1>10. CASE Copy(w)
  <2>1. UNCHANGED <<lock, registry, upload, session, temp, lost, unaborted>> /\ work[w].at = "copy"
    BY <1>10 DEF Copy, At, rest
  <2>2. Turn(w, work[w].op, "cleanup", Id(w), work[w].expired) /\ Touches(w)
    BY <1>2, <1>10, <2>1, GotoTurn, TouchesNothing DEF Copy, Id
  <2> QED
    BY <1>1, <1>2, <2>1, <2>2, StaysInside
<1>11. CASE Cleanup(w)
  <2>1. /\ UNCHANGED <<lock, registry, upload, session, lost, unaborted>> /\ work[w].at = "cleanup"
        /\ temp' = [temp EXCEPT ![Id(w)] = None] \/ UNCHANGED temp
    BY <1>11 DEF Cleanup, At, rest
  <2>2. Turn(w, work[w].op, "record", Id(w), work[w].expired)
    BY <1>2, <1>11, GotoTurn DEF Cleanup, Id
  <2>3. Touches(w)
    BY <1>1, <2>1 DEF Touches, Making, TypeOK
  <2> QED
    BY <1>1, <1>2, <2>1, <2>2, <2>3, StaysInside
<1>12. CASE Record(w)
  <2>1. /\ UNCHANGED <<registry, upload, session, temp, lost, unaborted>> /\ work[w].at = "record"
        /\ Unlock(Id(w))
    BY <1>12 DEF Record, At, rest, bucket
  <2>2. Turn(w, work[w].op, "remove", Id(w), work[w].expired) /\ Touches(w)
    BY <1>2, <1>12, <2>1, GotoTurn, TouchesNothing DEF Record, Id
  <2> QED
    BY <1>2, <2>1, <2>2, GoesOutside DEF Making, Locked, Committing
<1>13. CASE Abort(w)
  <2>1. Turn(w, work[w].op, "remove", Id(w), work[w].expired)
    BY <1>2, <1>13, GotoTurn DEF Abort, Id
  <2>2. Touches(w) /\ Unlock(Id(w)) /\ UNCHANGED registry /\ work[w].at = "abort"
    BY <1>1, <1>13, AbortTouches DEF Abort, At
  <2> QED
    BY <1>2, <2>1, <2>2, GoesOutside DEF Making, Locked, Committing
<1>14. CASE Remove(w)
  <2>1. /\ UNCHANGED <<upload, session, temp, lost, unaborted, lock>> /\ work[w].at = "remove"
        /\ registry' = registry \ {Id(w)}
    BY <1>14 DEF Remove, At, rest, bucket
  <2>2. Turn(w, "none", "idle", None, {})
    BY <1>14, FinishTurn DEF Remove
  <2>3. Touches(w) /\ Locks(w, "idle", None) /\ Names(w, "idle", None, {})
    BY <2>1, TouchesNothing, StaysOutside DEF Names, Making, Locked, Committing, WorkInv
  <2> QED
    BY <2>2, <2>3 DEF Move
<1> QED
  BY <1>3, <1>4, <1>5, <1>6, <1>7, <1>8, <1>9, <1>10, <1>11, <1>12, <1>13, <1>14 DEF Commit

\* Every step of a worker is a move.
LEMMA StepsMove ==
    ASSUME WorkInv, NEW w \in Workers,
           \/ Proceed(w) \/ (ReapTick /\ w = Reaper)
           \/ Start(w) \/ GetPatch(w) \/ GetFinish(w) \/ GetCancel(w) \/ Fail(w)
    PROVE  Move(w)
BY MoveReap, MoveBegin, MoveEnter, MoveLeave, MoveBody, MoveCommit DEF Proceed, Enter, Body

LEMMA NoneIsNoSession == None \notin Sessions /\ None \notin Workers
BY NamesAssumption DEF Workers

\* A move keeps the locks exclusive, and new sessions new.
LEMMA MoveKeeps ==
    ASSUME WorkInv, TypeInv', NEW w \in Workers, Move(w)
    PROVE  WorkInv'
<1> TypeInv /\ TypeOK /\ Exclusive /\ New /\ Creates
  BY DEF WorkInv, TypeInv
<1>1. PICK op, at, id, expired :
        /\ Turn(w, op, at, id, expired) /\ Locks(w, at, id)
        /\ Names(w, at, id, expired) /\ Touches(w)
  BY DEF Move
<1>2. /\ \A v \in Workers : v # w => work'[v] = work[v]
      /\ work'[w].at = at /\ work'[w].id = id /\ work'[w].expired = expired
  BY <1>1 DEF Turn
<1>3. Exclusive'
  <2>1. ASSUME NEW v \in Workers, NEW s \in Sessions
        PROVE  lock'[s] = v <=> (work'[v].id = s /\ work'[v].at \in Locked)
    <3>1. CASE at \notin Locked /\ \A t \in Sessions : lock'[t] = IF lock[t] = w THEN None ELSE lock[t]
      BY <1>2, <3>1, NoneIsNoSession DEF Exclusive
    <3>2. CASE at \in Locked /\ work[w].at \in Locked /\ id = Id(w) /\ UNCHANGED lock
      BY <1>2, <3>2 DEF Exclusive, Id
    <3>3. CASE /\ at \in Locked /\ work[w].at \notin Locked /\ id \in Sessions /\ lock[id] = None
               /\ lock' = [lock EXCEPT ![id] = w]
      <4>1. lock'[s] = IF s = id THEN w ELSE lock[s]
        BY <3>3 DEF TypeOK
      <4> QED
        BY <1>2, <3>3, <4>1, NoneIsNoSession DEF Exclusive
    <3> QED
      BY <1>1, <3>1, <3>2, <3>3 DEF Locks
  <2> QED
    BY <2>1 DEF Exclusive
<1>6. ASSUME NEW x \in Sessions, Unknown(x), work[w].at = "insert" => x # Id(w),
             work[w].at \notin Making => x # Id(w)
      PROVE  Unknown(x)'
  <2>1. session'[x] = session[x]
    BY <1>1, <1>6 DEF Touches
  <2>2. x \notin registry'
    BY <1>1, <1>6 DEF Names, Unknown
  <2>3. x \notin lost'
    BY <1>1, <1>6 DEF Touches, Unknown, Making
  <2>4. x \notin expired
    BY <1>1, <1>6 DEF Names, Unknown, Making
  <2> QED
    BY <1>2, <1>6, <2>1, <2>2, <2>3, <2>4 DEF Unknown
<1>4. New'
  <2>1. ASSUME NEW s \in Sessions, upload'[s] = "none"
        PROVE  Unknown(s)' /\ \A v \in Workers : work'[v].id = s => work'[v].at = "create"
    <3>1. upload[s] = "none"
      BY <1>1, <2>1 DEF Touches
    <3>2. Unknown(s) /\ \A v \in Workers : work[v].id = s => work[v].at = "create"
      BY <3>1 DEF New
    <3>3. Unknown(s)'
      BY <1>6, <3>2 DEF Id, Making
    <3>4. id = s => at = "create"
      BY <1>1, <2>1, <3>2, NoneIsNoSession DEF Names, Unknown, Making, Id
    <3> QED
      BY <1>2, <3>2, <3>3, <3>4
  <2>2. \A s \in Sessions : upload'[s] = "none" =>
            Unknown(s)' /\ \A v \in Workers : work'[v].id = s => work'[v].at = "create"
    BY <2>1
  <2> QED
    BY <2>2 DEF New
<1>5. Creates'
  <2>1. ASSUME NEW v \in Workers, work'[v].at \in Making
        PROVE  /\ Unknown(work[v].id)'
               /\ work'[v].at = "create" => upload'[work'[v].id] = "none"
               /\ \A u \in Workers : u # v => work'[u].id # work'[v].id
    <3>1. CASE v = w /\ at = "create"
      <4>1. id \in Sessions /\ Fresh(id)
        BY <1>1, <3>1 DEF Names, Making
      <4>2. upload[id] = "none" /\ id # Id(w) /\ \A u \in Workers : work[u].id # id
        BY <4>1 DEF Fresh, Held, Id
      <4>3. upload'[id] = "none"
        BY <1>1, <4>1, <4>2 DEF Touches
      <4>4. Unknown(id)'
        BY <1>6, <4>1, <4>2 DEF New
      <4>5. Unknown(work[v].id)'
        BY <1>2, <3>1, <4>4 DEF Unknown
      <4> QED
        BY <1>2, <3>1, <4>2, <4>3, <4>5
    <3>2. CASE v = w /\ at = "insert"
      <4>1. work[w].at = "create" /\ id = Id(w)
        BY <1>1, <3>2 DEF Names, Making
      <4>2. id \in Sessions
        BY <4>1, NamedHasId DEF Named, Stages
      <4>3. Unknown(id) /\ \A u \in Workers : u # w => work[u].id # id
        BY <4>1 DEF Creates, Making, Id
      <4>4. Unknown(id)'
        BY <1>6, <4>1, <4>2, <4>3 DEF Making
      <4>5. Unknown(work[v].id)'
        BY <1>2, <3>2, <4>4 DEF Unknown
      <4> QED
        BY <1>2, <3>2, <4>3, <4>5
    <3>3. CASE v # w
      <4>0. work'[v] = work[v] /\ work[v].at \in Making /\ work[v].id \in Sessions
        BY <1>2, <2>1, <3>3, NamedHasId DEF Named, Making, Stages, Id
      <4>1. PICK x \in Sessions : x = work[v].id /\ x = work'[v].id
        BY <4>0
      <4>2. /\ Unknown(x)
            /\ work[v].at = "create" => upload[x] = "none"
            /\ \A u \in Workers : u # v => work[u].id # x
        BY <4>0, <4>1 DEF Creates
      <4>3. work[v].at = "create" => upload'[x] = "none"
        BY <1>1, <3>3, <4>1, <4>2 DEF Touches, Id
      <4>4. x \in Held /\ x \notin registry /\ x \notin work[w].expired /\ x # Id(w)
        BY <3>3, <4>1, <4>2 DEF Held, Unknown, Id
      <4>5. id # x
        BY <1>1, <4>1, <4>4, NoneIsNoSession DEF Names, Fresh
      <4>6. Unknown(x)'
        <5>1. work[w].at = "insert" => x # Id(w)
          BY <4>4
        <5> QED
          BY <1>6, <4>2, <4>4, <5>1
      <4>7. Unknown(work[v].id)'
        BY <4>1, <4>6 DEF Unknown
      <4> QED
        BY <1>2, <4>0, <4>1, <4>2, <4>3, <4>5, <4>7
    <3> QED
      BY <1>2, <2>1, <3>1, <3>2, <3>3 DEF Making
  <2>2. \A v \in Workers : work'[v].at \in Making =>
            /\ Unknown(work[v].id)'
            /\ work'[v].at = "create" => upload'[work'[v].id] = "none"
            /\ \A u \in Workers : u # v => work'[u].id # work'[v].id
    BY <2>1
  <2> QED
    BY <2>2 DEF Creates
<1> QED
  BY <1>3, <1>4, <1>5 DEF WorkInv

LEMMA WorkRestart == ASSUME WorkInv, TypeInv', Restart PROVE WorkInv'
<1>1. /\ \A w \in Workers : work'[w].id = None /\ work'[w].at = "idle" /\ work'[w].expired = {}
      /\ \A s \in Sessions : lock'[s] = None
      /\ registry' = {} /\ UNCHANGED <<session, upload, lost>>
  BY NoWorkType DEF Restart, bucket
<1>2. Exclusive'
  BY <1>1, NoneIsNoSession DEF Exclusive
<1>3. New'
  BY <1>1, NoneIsNoSession DEF New, Unknown, WorkInv
<1>4. Creates'
  BY <1>1 DEF Creates, Making
<1> QED
  BY <1>2, <1>3, <1>4 DEF WorkInv

LEMMA WorkAge == ASSUME WorkInv, TypeInv', NEW s \in Sessions, Age(s) PROVE WorkInv'
<1>1. /\ UNCHANGED <<registry, lock, upload, work, lost>> /\ s \in registry
      /\ \A t \in Sessions : t # s => session'[t] = session[t]
  BY AgeEdit DEF Age, Edit, bucket, rest, WorkInv, TypeInv
<1>4. ASSUME NEW t \in Sessions, Unknown(t) PROVE Unknown(t)'
  BY <1>1, <1>4 DEF Unknown
<1>5. \A w \in Workers : work[w].at \in Making => work[w].id \in Sessions
  BY NamedHasId DEF WorkInv, Named, Making, Stages, Id
<1>2. Exclusive' /\ Creates'
  BY <1>1, <1>4, <1>5 DEF Exclusive, Creates, WorkInv
<1>3. New'
  BY <1>1, <1>4 DEF New, WorkInv
<1> QED
  BY <1>2, <1>3 DEF WorkInv

LEMMA WorkInvariant == Spec => []WorkInv
<1>1. Init /\ TypeInv => WorkInv
  <2> SUFFICES ASSUME Init, TypeInv PROVE WorkInv
    OBVIOUS
  <2>1. \A w \in Workers : work[w].id = None /\ work[w].at = "idle" /\ work[w].expired = {}
    BY NoWorkType DEF Init
  <2>2. Exclusive
    BY <2>1, NoneIsNoSession DEF Init, Exclusive
  <2>3. New
    BY <2>1, NoneIsNoSession DEF Init, New, Unknown
  <2>4. Creates
    BY <2>1 DEF Creates, Making
  <2> QED
    BY <2>2, <2>3, <2>4 DEF WorkInv
<1>2. WorkInv /\ TypeInv' /\ [Next]_vars => WorkInv'
  <2> SUFFICES ASSUME WorkInv, TypeInv', [Next]_vars PROVE WorkInv'
    OBVIOUS
  <2>1. CASE UNCHANGED vars
    BY <2>1 DEF vars, WorkInv, Exclusive, New, Unknown, Creates
  <2>2. Reaper \in Workers /\ Requests \subseteq Workers
    BY DEF Workers
  <2> QED
    BY <2>1, <2>2, StepsMove, MoveKeeps, WorkRestart, WorkAge DEF Next
<1> QED
  BY <1>1, <1>2, TypeInvariant, PTL DEF Spec

-----------------------------------------------------------------------------
(***************************************************************************)
(* What becomes of the multipart uploads                                   *)
(***************************************************************************)
\* Somebody will see to the session's multipart upload, or a fault kept them from it.
Kept(s) ==
    \/ s \in registry \cup unaborted
    \/ \E w \in Workers :
        s \in work[w].expired \/ (work[w].id = s /\ work[w].at \in {"insert", "expired"})
OpenIsKept == \A s \in Sessions : upload[s] = "open" => Kept(s)

\* Once a request is past its abort, its put or its completion, the upload is over.
Past == {"remove", "put", "copy", "cleanup", "record"}
UploadOver ==
    \A w \in Workers : work[w].at \in Past =>
        upload[work[w].id] # "open" \/ work[w].id \in unaborted

OrphanInv == OpenIsKept /\ UploadOver

LEMMA AbortOutcome ==
    ASSUME TypeOK, NEW w \in Workers, Id(w) \in Sessions, AbortUpload(w)
    PROVE  upload'[Id(w)] # "open" \/ Id(w) \in unaborted'
BY DEF AbortUpload, TypeOK

LEMMA OverStep ==
    ASSUME WorkInv, OrphanInv, NEW w \in Workers, Move(w),
           work'[w].at \in Past =>
                upload'[work'[w].id] # "open" \/ work'[w].id \in unaborted'
    PROVE  UploadOver'
<1>1. PICK op, at, id, expired : Turn(w, op, at, id, expired) /\ Touches(w)
  BY DEF Move
<1>2. ASSUME NEW v \in Workers, v # w, work'[v].at \in Past
      PROVE  upload'[work'[v].id] # "open" \/ work'[v].id \in unaborted'
  <2>1. work'[v] = work[v]
    BY <1>1, <1>2 DEF Turn
  <2>2. work[v].id \in Sessions
    BY <1>2, <2>1, NamedHasId DEF Past, Named, Stages, Id, WorkInv
  <2>3. upload[work[v].id] # "open" \/ work[v].id \in unaborted
    BY <1>2, <2>1 DEF OrphanInv, UploadOver
  <2>4. work[v].id = Id(w) => work[w].at # "create"
    BY <1>2 DEF WorkInv, Creates, Making, Id
  <2> QED
    BY <1>1, <2>1, <2>2, <2>3, <2>4 DEF Touches
<1> QED
  BY <1>2 DEF UploadOver

LEMMA KeptStep ==
    ASSUME WorkInv, OrphanInv, NEW w \in Workers, Move(w),
           \/ work[w].at # "create" \/ UNCHANGED upload
           \/ work'[w].at = "insert" /\ work'[w].id = Id(w),
           \A s \in Sessions : upload'[s] = "open" /\ Kept(s) => Kept(s)'
    PROVE  OpenIsKept'
<1>1. Touches(w)
  BY DEF Move
<1>2. ASSUME NEW s \in Sessions, upload'[s] = "open" PROVE Kept(s)'
  <2>1. CASE upload[s] = "open"
    BY <1>2, <2>1 DEF OrphanInv, OpenIsKept
  <2>2. CASE upload[s] # "open"
    <3>1. s = Id(w) /\ work[w].at = "create"
      BY <1>1, <1>2, <2>2 DEF Touches
    <3>2. work'[w].id = s /\ work'[w].at = "insert"
      BY <1>2, <2>2, <3>1
    <3> QED
      BY <3>2 DEF Kept
  <2> QED
    BY <2>1, <2>2
<1> QED
  BY <1>2 DEF OpenIsKept

\* Only a worker that reaps has sessions to see to.
LEMMA NoReaperKeeps ==
    ASSUME WorkInv, NEW w \in Workers, Move(w), work[w].at \notin Reaping, registry \subseteq registry',
           work[w].at = "insert" => Id(w) \in registry',
           NEW s \in Sessions, Kept(s)
    PROVE  Kept(s)'
<1>1. PICK op, at, id, expired : Turn(w, op, at, id, expired) /\ Touches(w)
  BY DEF Move
<1>2. work[w].expired = {} /\ work[w].at # "expired"
  BY DEF WorkInv, TypeInv, References, Reaping
<1> QED
  BY <1>1, <1>2 DEF Kept, Turn, Touches, Id

\* A step of a worker that does not reap, and is not past the end of an upload.
LEMMA OrphanPlain ==
    ASSUME WorkInv, OrphanInv, NEW w \in Workers, Move(w), work[w].at \notin Reaping,
           registry \subseteq registry', work[w].at \notin Making,
           work'[w].at \notin Past
    PROVE  OrphanInv'
BY OverStep, KeptStep, NoReaperKeeps DEF OrphanInv, Making

\* A step past the end of an upload.
LEMMA OrphanPast ==
    ASSUME WorkInv, OrphanInv, NEW w \in Workers, Move(w), work[w].at \in Past, work'[w].id = Id(w),
           registry \subseteq registry'
    PROVE  OrphanInv'
<1>1. work[w].at \notin Reaping \cup {"create", "insert"}
  BY DEF Past, Reaping
<1>2. Touches(w) /\ Id(w) \in Sessions
  BY NamedHasId DEF Move, Past, Named, Stages, WorkInv
<1>3. upload[Id(w)] # "open" \/ Id(w) \in unaborted
  BY DEF OrphanInv, UploadOver, Id
<1>4. upload'[work'[w].id] # "open" \/ work'[w].id \in unaborted'
  BY <1>1, <1>2, <1>3 DEF Touches
<1> QED
  BY <1>1, <1>4, OverStep, KeptStep, NoReaperKeeps DEF OrphanInv

LEMMA OrphanReap ==
    ASSUME WorkInv, OrphanInv, NEW w \in Workers, Reap(w) \/ (ReapTick /\ w = Reaper)
    PROVE  OrphanInv'
<1> TypeInv /\ TypeOK /\ Move(w) /\ Touches(w)
  BY MoveReap DEF WorkInv, TypeInv, Move
<1>1. CASE ReapTick /\ w = Reaper
  <2>1. work[w].at = "idle" /\ work'[w].at = "scan" /\ UNCHANGED registry
    BY <1>1, ReapTickTurn DEF ReapTick, At, Turn
  <2> QED
    BY <2>1, OrphanPlain DEF Reaping, Making, Past
<1>2. CASE Scan(w)
  <2>1. /\ work[w].at = "scan" /\ UNCHANGED registry /\ work'[w].at \in {"scan", "expired"}
        /\ work'[w].expired = work[w].expired
        /\ \A v \in Workers : v # w => work'[v] = work[v]
    BY <1>2, ScanTurn DEF Scan, At, Turn
  <2>2. ASSUME NEW s \in Sessions, Kept(s) PROVE Kept(s)'
    BY <2>1, <2>2 DEF Kept, Touches
  <2> QED
    BY <2>1, <2>2, OverStep, KeptStep DEF OrphanInv, Past
<1>3. CASE TakeExpired(w)
  <2>1. /\ work[w].at = "expired" /\ registry' = registry \ {Id(w)} /\ work'[w].at = "scan"
        /\ work'[w].expired = work[w].expired \cup {Id(w)}
        /\ \A v \in Workers : v # w => work'[v] = work[v]
    BY <1>3, TakeExpiredTurn DEF TakeExpired, At, Turn, TypeInv
  <2>2. ASSUME NEW s \in Sessions, Kept(s) PROVE Kept(s)'
    BY <2>1, <2>2 DEF Kept, Touches, Id
  <2> QED
    BY <2>1, <2>2, OverStep, KeptStep DEF OrphanInv, Past
<1>4. CASE ScanDone(w)
  <2>1. /\ work[w].at = "scan" /\ UNCHANGED registry /\ work'[w].at \in {"idle", "slot", "reap"}
        /\ work'[w].expired = work[w].expired
        /\ \A v \in Workers : v # w => work'[v] = work[v]
    BY <1>4, ScanDoneTurn DEF ScanDone, At, Turn
  <2>2. ASSUME NEW s \in Sessions, Kept(s) PROVE Kept(s)'
    BY <2>1, <2>2 DEF Kept, Touches
  <2> QED
    BY <2>1, <2>2, OverStep, KeptStep DEF OrphanInv, Past
<1>5. CASE ReapLock(w)
  <2>1. /\ work[w].at = "reap" /\ UNCHANGED registry /\ work'[w].at = "abort"
        /\ work'[w].expired = work[w].expired
        /\ \A v \in Workers : v # w => work'[v] = work[v]
    BY <1>5, GotoTurn DEF ReapLock, At, Turn, Stages
  <2>2. ASSUME NEW s \in Sessions, Kept(s) PROVE Kept(s)'
    BY <2>1, <2>2 DEF Kept, Touches
  <2> QED
    BY <2>1, <2>2, OverStep, KeptStep DEF OrphanInv, Past
<1>6. CASE ReapAbort(w)
  <2>1. /\ work[w].at = "abort" /\ UNCHANGED registry /\ work'[w].at = "scan"
        /\ work'[w].expired = work[w].expired \ {Id(w)}
        /\ \A v \in Workers : v # w => work'[v] = work[v]
    BY <1>6, ReapAbortTurn DEF ReapAbort, At, Turn
  <2>2. Id(w) \in Sessions
    BY <2>1, NamedHasId DEF Named, Stages
  <2>3. upload'[Id(w)] # "open" \/ Id(w) \in unaborted'
    BY <1>6, <2>2, AbortOutcome DEF ReapAbort
  <2>4. ASSUME NEW s \in Sessions, upload'[s] = "open", Kept(s) PROVE Kept(s)'
    BY <2>1, <2>3, <2>4 DEF Kept, Touches
  <2> QED
    BY <2>1, <2>4, OverStep, KeptStep DEF OrphanInv, Past
<1> QED
  BY <1>1, <1>2, <1>3, <1>4, <1>5, <1>6 DEF Reap

LEMMA OrphanBegin ==
    ASSUME WorkInv, OrphanInv, NEW w \in Workers,
           Start(w) \/ StartAgain(w) \/ Create(w) \/ Insert(w) \/ GetPatch(w) \/ GetFinish(w)
           \/ GetCancel(w) \/ Refused(w)
    PROVE  OrphanInv'
<1> TypeInv /\ TypeOK /\ Move(w)
  BY MoveBegin DEF WorkInv, TypeInv
<1>1. CASE Create(w)
  <2>1. /\ work[w].at = "create" /\ UNCHANGED registry /\ work'[w].at = "insert"
        /\ work'[w].id = Id(w)
    BY <1>1, GotoTurn DEF Create, At, Turn, Stages, Id
  <2> QED
    BY <2>1, OverStep, KeptStep, NoReaperKeeps DEF OrphanInv, Reaping, Past
<1>8. CASE Insert(w)
  <2>1. work[w].at = "insert" /\ registry' = registry \cup {Id(w)} /\ work'[w].at = "idle"
    BY <1>8, FinishTurn DEF Insert, At, Turn
  <2> QED
    BY <2>1, OverStep, KeptStep, NoReaperKeeps DEF OrphanInv, Reaping, Past
<1>2. ASSUME Claim(w) PROVE work'[w].at = "create"
  BY <1>2, ClaimTurn DEF Turn
<1>3. ASSUME Finish(w) PROVE work'[w].at = "idle"
  BY <1>3, FinishTurn DEF Turn
<1>4. CASE Start(w)
  <2>1. work[w].at = "idle" /\ UNCHANGED registry /\ work'[w].at \in {"create", "scan"}
    BY <1>2, <1>4, StartTurn DEF Start, At, Turn
  <2> QED
    BY <2>1, OrphanPlain DEF Reaping, Making, Past
<1>5. CASE StartAgain(w)
  <2>1. work[w].at = "slot" /\ UNCHANGED registry /\ work'[w].at \in {"create", "idle"}
    BY <1>2, <1>3, <1>5 DEF StartAgain, At
  <2> QED
    BY <2>1, OrphanPlain DEF Reaping, Making, Past
<1>6. ASSUME NEW op \in {"patch", "finish", "cancel"}, Get(w, op) PROVE OrphanInv'
  <2>1. work[w].at = "idle" /\ UNCHANGED registry /\ work'[w].at = "wait"
    BY <1>6, GetTurn DEF Get, At, Turn
  <2> QED
    BY <2>1, OrphanPlain DEF Reaping, Making, Past
<1>7. CASE Refused(w)
  <2>1. work[w].at = "wait" /\ UNCHANGED registry /\ work'[w].at = "idle"
    BY <1>3, <1>7 DEF Refused, At
  <2> QED
    BY <2>1, OrphanPlain DEF Reaping, Making, Past
<1> QED
  BY <1>1, <1>4, <1>5, <1>6, <1>7, <1>8 DEF GetPatch, GetFinish, GetCancel

LEMMA OrphanEnter ==
    ASSUME WorkInv, OrphanInv, NEW w \in Workers, PatchEnter(w) \/ FinishEnter(w) \/ CancelEnter(w)
    PROVE  OrphanInv'
<1> TypeInv /\ TypeOK /\ Move(w)
  BY MoveEnter DEF WorkInv, TypeInv
<1>1. work[w].at = "wait" /\ UNCHANGED registry
  BY DEF PatchEnter, FinishEnter, CancelEnter, At
<1>2. work'[w].at \in {"body", "abort"}
  BY GotoTurn DEF PatchEnter, FinishEnter, CancelEnter, Turn, Stages
<1> QED
  BY <1>1, <1>2, OrphanPlain DEF Reaping, Making, Past

LEMMA OrphanBody ==
    ASSUME WorkInv, OrphanInv, NEW w \in Workers,
           Write(w) \/ UploadPart(w) \/ PatchDone(w) \/ Verify(w) \/ UploadGone(w)
    PROVE  OrphanInv'
<1> TypeInv /\ TypeOK /\ Move(w)
  BY MoveBody, MoveLeave DEF WorkInv, TypeInv
<1>1. work[w].at \in {"body", "part", "tail", "complete"} /\ UNCHANGED registry
  BY DEF Write, UploadPart, PatchDone, Verify, UploadGone, Leave, At
<1>2. Id(w) \in Sessions
  BY <1>1, NamedHasId DEF Named, Stages
<1>3. work'[w].at \in {"body", "part", "abort", "idle", "quota", "mismatch"}
  <2>1. \A n : AfterWrite(n) \in {"body", "abort"}
    BY DEF AfterWrite
  <2>2. CASE Write(w)
    BY <1>2, <2>1, <2>2, WriteTurn DEF Turn
  <2>3. CASE UploadPart(w)
    BY <1>2, <2>1, <2>3, UploadPartTurn DEF Turn
  <2>4. CASE PatchDone(w) \/ UploadGone(w)
    BY <2>4, FinishTurn DEF PatchDone, UploadGone, Leave, Turn
  <2>5. CASE Verify(w)
    BY <2>5, GotoTurn DEF Verify, Turn, Stages
  <2> QED
    BY <2>2, <2>3, <2>4, <2>5
<1> QED
  BY <1>1, <1>3, OrphanPlain DEF Reaping, Making, Past

LEMMA OrphanCommit ==
    ASSUME WorkInv, OrphanInv, NEW w \in Workers, Commit(w)
    PROVE  OrphanInv'
<1> TypeInv /\ TypeOK /\ Move(w) /\ Touches(w)
  BY MoveCommit DEF WorkInv, TypeInv, Move
<1>1. Id(w) \in Sessions /\ work[w].at \notin Making
  BY NamedHasId DEF Commit, Mismatch, CheckQuota, CommitSmall, Put, CommitParts, Tail, Complete,
     Copy, Cleanup, Record, Abort, Remove, At, Named, Making, Stages
<1>2. {"commit", "abort", "put", "copy", "cleanup", "record", "remove"} \subseteq Stages
  BY DEF Stages
<1>3. CASE Mismatch(w)
  <2>1. /\ work[w].at = "mismatch" /\ registry' = registry \ {Id(w)} /\ work'[w].at = "idle"
        /\ work'[w].expired = {} /\ \A v \in Workers : v # w => work'[v] = work[v]
    BY <1>3, FinishTurn DEF Mismatch, At, Turn
  <2>2. upload'[Id(w)] # "open" \/ Id(w) \in unaborted'
    BY <1>1, <1>3, AbortOutcome DEF Mismatch
  <2>3. work[w].expired = {}
    BY <2>1 DEF TypeInv, References, Reaping
  <2>4. ASSUME NEW s \in Sessions, upload'[s] = "open", Kept(s) PROVE Kept(s)'
    BY <2>1, <2>2, <2>3, <2>4 DEF Kept, Touches
  <2> QED
    BY <1>1, <2>1, <2>4, OverStep, KeptStep DEF OrphanInv, Past
<1>4. CASE CheckQuota(w) \/ CommitParts(w) \/ Tail(w)
  <2>1. work[w].at \in {"quota", "commit", "tail"} /\ UNCHANGED registry
    BY <1>4 DEF CheckQuota, CommitParts, Tail, At
  <2>2. work'[w].at \in {"commit", "abort", "complete", "tail"}
    BY <1>1, <1>2, <1>4, GotoTurn, CommitPartsTurn, TailTurn DEF CheckQuota, Turn
  <2> QED
    BY <1>1, <2>1, <2>2, OrphanPlain DEF Reaping, Making, Past
<1>5. CASE CommitSmall(w)
  <2>1. work[w].at = "commit" /\ UNCHANGED registry /\ work'[w].id = Id(w)
    BY <1>1, <1>5, CommitSmallTurn DEF CommitSmall, At, Turn
  <2>2. upload'[Id(w)] # "open" \/ Id(w) \in unaborted'
    BY <1>1, <1>5, AbortOutcome DEF CommitSmall
  <2> QED
    BY <1>1, <2>1, <2>2, OverStep, KeptStep, NoReaperKeeps DEF OrphanInv, Reaping
<1>6. CASE Complete(w)
  <2>1. work[w].at = "complete" /\ UNCHANGED registry /\ work'[w].id = Id(w)
    BY <1>1, <1>6, CompleteTurn DEF Complete, At, Turn
  <2>2. upload'[Id(w)] # "open"
    BY <1>1, <1>6 DEF Complete, TypeOK
  <2> QED
    BY <1>1, <2>1, <2>2, OverStep, KeptStep, NoReaperKeeps DEF OrphanInv, Reaping
<1>7. CASE Put(w) \/ Copy(w) \/ Cleanup(w) \/ Record(w)
  <2>1. work[w].at \in {"put", "copy", "cleanup", "record"} /\ UNCHANGED registry
    BY <1>7 DEF Put, Copy, Cleanup, Record, At
  <2>2. work'[w].id = Id(w)
    BY <1>2, <1>7, PutTurn, GotoTurn DEF Copy, Cleanup, Record, Turn, Id
  <2> QED
    BY <2>1, <2>2, OrphanPast DEF Past
<1>8. CASE Abort(w)
  <2>1. /\ work[w].at = "abort" /\ UNCHANGED registry /\ work[w].expired = {}
        /\ work'[w].id = Id(w) /\ work'[w].expired = {}
        /\ \A v \in Workers : v # w => work'[v] = work[v]
    BY <1>2, <1>8, GotoTurn DEF Abort, At, Turn, Id
  <2>2. upload'[Id(w)] # "open" \/ Id(w) \in unaborted'
    BY <1>1, <1>8, AbortOutcome DEF Abort
  <2>3. ASSUME NEW s \in Sessions, Kept(s) PROVE Kept(s)'
    BY <2>1, <2>3 DEF Kept, Touches
  <2> QED
    BY <1>1, <2>1, <2>2, <2>3, OverStep, KeptStep DEF OrphanInv
<1>9. CASE Remove(w)
  <2>1. /\ work[w].at = "remove" /\ registry' = registry \ {Id(w)} /\ work'[w].at = "idle"
        /\ work'[w].expired = {} /\ \A v \in Workers : v # w => work'[v] = work[v]
        /\ UNCHANGED upload
    BY <1>9, FinishTurn DEF Remove, At, Turn, bucket
  <2>2. upload[Id(w)] # "open" \/ Id(w) \in unaborted
    BY <2>1 DEF OrphanInv, UploadOver, Past, Id
  <2>3. work[w].expired = {}
    BY <2>1 DEF TypeInv, References, Reaping
  <2>4. ASSUME NEW s \in Sessions, upload'[s] = "open", Kept(s) PROVE Kept(s)'
    BY <2>1, <2>2, <2>3, <2>4 DEF Kept, Touches
  <2> QED
    BY <1>1, <2>1, <2>4, OverStep, KeptStep DEF OrphanInv, Past
<1> QED
  BY <1>3, <1>4, <1>5, <1>6, <1>7, <1>8, <1>9 DEF Commit

LEMMA OrphanFail ==
    ASSUME WorkInv, OrphanInv, NEW w \in Workers, Fail(w)
    PROVE  OrphanInv'
<1> TypeInv /\ TypeOK /\ Move(w) /\ Touches(w)
  BY MoveLeave DEF WorkInv, TypeInv, Move
<1>1. /\ UNCHANGED <<registry, upload>> /\ work'[w].at = "idle"
      /\ unaborted' = unaborted \cup Charge(w)
      /\ \A v \in Workers : v # w => work'[v] = work[v]
  BY FinishTurn DEF Fail, Leave, Turn, bucket
<1>2. ASSUME NEW s \in Sessions, Kept(s) PROVE Kept(s)'
  BY <1>1, <1>2 DEF Kept, Charge, Id
<1> QED
  BY <1>1, <1>2, OverStep, KeptStep DEF OrphanInv, Past

LEMMA OrphanRestart == ASSUME WorkInv, OrphanInv, Restart PROVE OrphanInv'
<1>1. \A w \in Workers : work'[w].at = "idle"
  BY NoWorkType DEF Restart
<1>2. UNCHANGED upload /\ unaborted' = unaborted \cup (Held \cap Sessions)
  BY DEF Restart, bucket
<1>3. ASSUME NEW s \in Sessions, Kept(s) PROVE s \in unaborted'
  BY <1>2, <1>3 DEF Kept, Held, Id
<1> QED
  BY <1>1, <1>2, <1>3 DEF OrphanInv, OpenIsKept, UploadOver, Past, Kept

\* A multipart upload that is left open, with nobody who refers to its session, is one
\* a fault left behind: an abort that failed, or a request that ended before it had
\* registered or aborted it, or a restart.  No race of requests and reaper leaves one.
THEOREM NoUploadOrphaned == Spec => []NoOrphanUpload
<1>1. Init => OrphanInv
  BY NoWorkType DEF Init, OrphanInv, OpenIsKept, UploadOver, Past
<1>2. WorkInv /\ OrphanInv /\ [Next]_vars => OrphanInv'
  <2> SUFFICES ASSUME WorkInv, OrphanInv, [Next]_vars PROVE OrphanInv'
    OBVIOUS
  <2>1. CASE UNCHANGED vars \/ \E s \in Sessions : Age(s)
    BY <2>1 DEF vars, Age, bucket, rest, OrphanInv, OpenIsKept, UploadOver, Kept
  <2>2. Reaper \in Workers /\ Requests \subseteq Workers
    BY DEF Workers
  <2> QED
    BY <2>1, <2>2, OrphanReap, OrphanBegin, OrphanEnter, OrphanBody, OrphanCommit, OrphanFail,
       OrphanRestart
    DEF Next, Proceed, Enter, Body
<1>3. OrphanInv => NoOrphanUpload
  BY DEF OrphanInv, OpenIsKept, Kept, NoOrphanUpload, Held, Id
<1> QED
  BY <1>1, <1>2, <1>3, WorkInvariant, PTL DEF Spec

-----------------------------------------------------------------------------
(***************************************************************************)
(* What a session has been sent, and what is stored of it                  *)
(***************************************************************************)
\* The steps of a worker, by what they do to the session it is at: it goes by, makes
\* the session, comes in, goes on inside, or goes out.
Acts(w) ==
    \/ Proceed(w) \/ (ReapTick /\ w = Reaper)
    \/ Start(w) \/ GetPatch(w) \/ GetFinish(w) \/ GetCancel(w) \/ Fail(w)

Passes(w) ==
    /\ work[w].at \notin Locked \cup Making /\ work'[w].at \notin Locked
    /\ UNCHANGED <<session, temp, objects, recorded, lost>>
Makes(w) ==
    /\ work[w].at \in Making /\ work'[w].at \notin Locked
    /\ UNCHANGED <<session, temp, objects, recorded, lost>>
Comes(w) == PatchEnter(w) \/ FinishEnter(w) \/ CancelEnter(w) \/ ReapLock(w)
Goes(w) ==
    /\ work[w].at \in Locked /\ work'[w].at \notin Locked
    /\ UNCHANGED <<session, temp, objects>>
    /\ work[w].at = "part" => Id(w) \in lost'
    /\ UNCHANGED recorded \/ Record(w)
    /\ work[w].at = "abort" => upload'[Id(w)] # "open" \/ Id(w) \in unaborted'
Works(w) ==
    \/ Write(w) \/ UploadPart(w) \/ Verify(w) \/ CheckQuota(w) \/ CommitSmall(w) \/ Put(w)
    \/ CommitParts(w) \/ Tail(w) \/ Complete(w) \/ Copy(w) \/ Cleanup(w)

LEMMA NextActs ==
    ASSUME [Next]_vars
    PROVE  \/ UNCHANGED vars \/ Restart \/ \E s \in Sessions : Age(s)
           \/ \E w \in Workers : Acts(w)
BY DEF Next, Acts, Workers

LEMMA ActsPass ==
    ASSUME WorkInv, NEW w \in Workers,
           \/ Scan(w) \/ TakeExpired(w) \/ ScanDone(w) \/ (ReapTick /\ w = Reaper)
           \/ Start(w) \/ StartAgain(w) \/ GetPatch(w) \/ GetFinish(w) \/ GetCancel(w)
           \/ Refused(w) \/ Remove(w)
    PROVE  Passes(w)
<1> TypeInv /\ TypeOK /\ References
  BY DEF WorkInv, TypeInv
<1>1. UNCHANGED <<session, temp, objects, recorded, lost>>
  BY DEF Scan, TakeExpired, ScanDone, ReapTick, Start, StartAgain, GetPatch, GetFinish, GetCancel,
     Get, Refused, Remove, bucket, rest, Call
<1>2. work[w].at \in {"scan", "expired", "idle", "slot", "wait", "remove"}
  BY DEF Scan, TakeExpired, ScanDone, ReapTick, Start, StartAgain, GetPatch, GetFinish, GetCancel,
     Get, Refused, Remove, At
<1>3. ASSUME Finish(w) PROVE work'[w].at = "idle"
  BY <1>3, FinishTurn DEF Turn
<1>4. ASSUME Claim(w) PROVE work'[w].at = "create"
  BY <1>4, ClaimTurn DEF Turn
<1>5. ASSUME NEW op \in {"patch", "finish", "cancel"}, Get(w, op) PROVE work'[w].at = "wait"
  BY <1>5, GetTurn DEF Turn
<1>6. CASE Scan(w) \/ TakeExpired(w) \/ ScanDone(w) \/ (ReapTick /\ w = Reaper)
  <2>1. work'[w].at \in {"scan", "expired", "idle", "slot", "reap"}
    BY <1>6, ScanTurn, TakeExpiredTurn, ScanDoneTurn, ReapTickTurn DEF Turn
  <2> QED
    BY <1>1, <1>2, <2>1 DEF Passes, Making, Locked, Committing
<1>7. CASE \/ Start(w) \/ StartAgain(w) \/ GetPatch(w) \/ GetFinish(w) \/ GetCancel(w)
           \/ Refused(w) \/ Remove(w)
  <2>1. work'[w].at \in {"scan", "create", "idle", "wait"}
    BY <1>3, <1>4, <1>5, <1>7, StartTurn
    DEF StartAgain, GetPatch, GetFinish, GetCancel, Refused, Remove, Turn
  <2> QED
    BY <1>1, <1>2, <2>1 DEF Passes, Making, Locked, Committing
<1> QED
  BY <1>6, <1>7

LEMMA ActsMake ==
    ASSUME WorkInv, NEW w \in Workers, Create(w) \/ Insert(w)
    PROVE  Makes(w)
<1> TypeInv /\ TypeOK
  BY DEF WorkInv, TypeInv
<1>1. work[w].at \in Making /\ UNCHANGED <<temp, objects, recorded, lost>> /\ Id(w) \in Sessions
  BY NamedHasId DEF Create, Insert, At, Making, Named, Stages, rest, bucket
<1>2. work'[w].at \in {"insert", "idle"}
  BY GotoTurn, FinishTurn DEF Create, Insert, Turn, Stages
<1>3. UNCHANGED session
  <2>1. CASE Create(w)
    BY <2>1 DEF Create
  <2>2. CASE Insert(w)
    <3>1. session[Id(w)] = NewSession /\ session \in [Sessions -> Session]
      BY <1>1 DEF WorkInv, Creates, Unknown, TypeOK, Id
    <3>2. session' = [session EXCEPT ![Id(w)] = NewSession]
      BY <2>2 DEF Insert
    <3> QED
      BY <1>1, <3>1, <3>2
  <2> QED
    BY <2>1, <2>2
<1> QED
  BY <1>1, <1>2, <1>3 DEF Makes, Locked, Committing

LEMMA ActsGo ==
    ASSUME WorkInv, NEW w \in Workers,
           \/ PatchDone(w) \/ Abort(w) \/ ReapAbort(w) \/ Mismatch(w) \/ Record(w) \/ UploadGone(w)
    PROVE  Goes(w)
<1> TypeInv /\ TypeOK /\ References
  BY DEF WorkInv, TypeInv
<1>1. UNCHANGED <<session, temp, objects>>
  BY DEF PatchDone, Abort, ReapAbort, Mismatch, Record, UploadGone, Leave, bucket
<1>2. UNCHANGED recorded \/ Record(w)
  BY DEF PatchDone, Abort, ReapAbort, Mismatch, UploadGone, Leave
<1>3. work[w].at \in Locked
  BY DEF PatchDone, Abort, ReapAbort, Mismatch, Record, UploadGone, At, Locked, Committing
<1>4. work'[w].at \in {"idle", "remove", "scan"}
  BY FinishTurn, GotoTurn, ReapAbortTurn DEF PatchDone, Abort, ReapAbort, Mismatch, Record,
     UploadGone, Leave, Turn, Stages
<1>5. Id(w) \in Sessions
  BY <1>3, NamedHasId DEF Named, Stages, Locked, Committing
<1>6. work[w].at = "abort" => upload'[Id(w)] # "open" \/ Id(w) \in unaborted'
  BY <1>5, AbortOutcome DEF PatchDone, Abort, ReapAbort, Mismatch, Record, UploadGone, At
<1>7. work[w].at = "part" => Id(w) \in lost'
  BY DEF PatchDone, Abort, ReapAbort, Mismatch, Record, UploadGone, Leave, At
<1> QED
  BY <1>1, <1>2, <1>3, <1>4, <1>6, <1>7 DEF Goes, Locked, Committing

LEMMA ActsFail ==
    ASSUME WorkInv, NEW w \in Workers, Fail(w)
    PROVE  Passes(w) \/ Makes(w) \/ Goes(w)
<1> TypeInv /\ TypeOK
  BY DEF WorkInv, TypeInv
<1>1. /\ UNCHANGED <<upload, session, temp, objects, recorded>>
      /\ unaborted' = unaborted \cup Charge(w)
      /\ lost' = IF work[w].at = "part" THEN lost \cup {Id(w)} ELSE lost
  BY DEF Fail, Leave, bucket, At
<1>2. work'[w].at = "idle" /\ work'[w].id = None
  BY FinishTurn DEF Fail, Leave, Turn
<1>3. work[w].at = "abort" => Id(w) \in unaborted'
  BY <1>1 DEF Charge
<1> QED
  BY <1>1, <1>2, <1>3 DEF Passes, Makes, Goes, Making, Locked, Committing

\* Every step of a worker is of one of these kinds.
LEMMA ActsAre ==
    ASSUME WorkInv, NEW w \in Workers, Acts(w)
    PROVE  Passes(w) \/ Makes(w) \/ Comes(w) \/ Works(w) \/ Goes(w)
BY ActsPass, ActsMake, ActsGo, ActsFail
DEF Acts, Proceed, Reap, Enter, Body, Commit, Comes, Works

\* A request that is past its body has claimed the session, and so has a finish in it.
Claimed ==
    \A w \in Workers :
        (work[w].at \in Committing \/ (work[w].at \in {"body", "part"} /\ work[w].op = "finish"))
            => session[work[w].id].finalizing

LEMMA OthersTurn ==
    ASSUME WorkInv, NEW w \in Workers, Acts(w), NEW v \in Workers, v # w
    PROVE  work'[v] = work[v]
<1>1. Move(w)
  BY StepsMove DEF Acts
<1> QED
  BY <1>1 DEF Move, Turn

\* While a worker is inside a session, the others leave the session alone.
LEMMA OthersPass ==
    ASSUME WorkInv, NEW w \in Workers, Acts(w), NEW v \in Workers, v # w, work[v].at \in Locked
    PROVE  /\ work'[v] = work[v] /\ work[v].id \in Sessions
           /\ session'[work[v].id] = session[work[v].id] /\ temp'[work[v].id] = temp[work[v].id]
<1> TypeInv /\ TypeOK
  BY DEF WorkInv, TypeInv
<1> DEFINE s == work[v].id
<1>1. Move(w) /\ Touches(w) /\ work'[v] = work[v]
  BY OthersTurn, StepsMove DEF Acts, Move
<1>2. s \in Sessions
  BY NamedHasId DEF Locked, Committing, Named, Stages, Id
<1>3. CASE s # Id(w)
  BY <1>1, <1>2, <1>3 DEF Touches
<1>4. CASE s = Id(w)
  <2>1. lock[s] = v
    BY <1>2 DEF WorkInv, Exclusive
  <2>2. work[w].at \notin Locked
    BY <1>2, <1>4, <2>1 DEF WorkInv, Exclusive, Id
  <2>3. work[w].at \notin Making
    BY <1>4 DEF WorkInv, Creates, Id
  <2>4. ~Comes(w)
    BY <1>4, <2>1, NoneIsNoSession DEF Comes, PatchEnter, FinishEnter, CancelEnter, ReapLock, Lock
  <2>5. ~Works(w) /\ ~Goes(w) /\ ~Makes(w)
    BY <2>2, <2>3 DEF Works, Write, UploadPart, Verify, CheckQuota, CommitSmall, Put, CommitParts,
       Tail, Complete, Copy, Cleanup, Goes, Makes, At, Locked, Committing
  <2> QED
    BY <1>1, <1>2, <2>4, <2>5, ActsAre DEF Passes
<1> QED
  BY <1>3, <1>4

LEMMA WorksGoOn ==
    ASSUME WorkInv, NEW w \in Workers, Works(w)
    PROVE  /\ work[w].at \in Locked /\ Id(w) \in Sessions /\ work[w].at # "abort"
           /\ work'[w].op = work[w].op /\ work'[w].id = Id(w) /\ work'[w].expired = work[w].expired
           /\ lost \subseteq lost' /\ work'[w].at \in Locked
           /\ work'[w].at \in {"body", "part"} => work[w].at \in {"body", "part"}
           /\ work'[w].at \in Committing =>
                work[w].at \in Committing \/ (work[w].at = "body" /\ work[w].op = "finish")
<1> TypeInv /\ TypeOK
  BY DEF WorkInv, TypeInv
<1>1. Id(w) \in Sessions /\ work[w].at \in Locked
  BY NamedHasId DEF Works, Write, UploadPart, Verify, CheckQuota, CommitSmall, Put, CommitParts,
     Tail, Complete, Copy, Cleanup, At, Named, Stages, Locked, Committing
<1>2. \A n : AfterWrite(n) \in {"body", "abort"}
  BY DEF AfterWrite
<1>3. lost \subseteq lost'
  BY DEF Works, Write, UploadPart, Verify, CheckQuota, CommitSmall, Put, CommitParts, Tail,
     Complete, Copy, Cleanup, AbortUpload, rest
<1>4. CASE Write(w) \/ UploadPart(w)
  <2>1. /\ work[w].at \in {"body", "part"} /\ work'[w].at \in {"body", "part", "abort"}
        /\ work'[w].op = work[w].op /\ work'[w].id = Id(w) /\ work'[w].expired = work[w].expired
    BY <1>1, <1>2, <1>4, WriteTurn, UploadPartTurn DEF Write, UploadPart, At, Turn
  <2> QED
    BY <1>1, <1>3, <2>1 DEF Locked, Committing
<1>5. CASE Verify(w)
  <2>1. /\ work[w].at = "body" /\ work[w].op = "finish" /\ work'[w].at \in {"quota", "mismatch"}
        /\ work'[w].op = work[w].op /\ work'[w].id = Id(w) /\ work'[w].expired = work[w].expired
    BY <1>5, GotoTurn DEF Verify, At, Turn, Stages, Id
  <2> QED
    BY <1>1, <1>3, <2>1 DEF Locked, Committing
<1>6. CASE \/ CheckQuota(w) \/ CommitSmall(w) \/ Put(w) \/ CommitParts(w)
           \/ Tail(w) \/ Complete(w) \/ Copy(w) \/ Cleanup(w)
  <2>1. work[w].at \in Committing
    BY <1>6 DEF CheckQuota, CommitSmall, Put, CommitParts, Tail, Complete, Copy, Cleanup, At,
       Committing
  <2>2. /\ work'[w].at \in Committing \cup {"abort"}
        /\ work'[w].op = work[w].op /\ work'[w].id = Id(w) /\ work'[w].expired = work[w].expired
    <3>1. CASE CheckQuota(w) \/ Copy(w) \/ Cleanup(w)
      BY <3>1, GotoTurn DEF CheckQuota, Copy, Cleanup, Turn, Stages, Committing, Id
    <3>2. CASE CommitSmall(w) \/ Put(w) \/ CommitParts(w) \/ Tail(w) \/ Complete(w)
      BY <1>1, <3>2, CommitSmallTurn, PutTurn, CommitPartsTurn, TailTurn, CompleteTurn
      DEF Turn, Committing
    <3> QED
      BY <1>6, <3>1, <3>2
  <2> QED
    BY <1>1, <1>3, <2>1, <2>2 DEF Locked, Committing
<1> QED
  BY <1>4, <1>5, <1>6 DEF Works

\* Who comes in finds the session unlocked.
LEMMA ComesIn ==
    ASSUME WorkInv, NEW w \in Workers, Comes(w)
    PROVE  /\ work[w].at \in {"wait", "reap"} /\ Id(w) \in Sessions
           /\ lock[Id(w)] = None /\ work'[w].id = Id(w) /\ UNCHANGED <<temp, objects, recorded, lost>>
           /\ \/ PatchEnter(w) /\ work'[w].at = "body" /\ work'[w].op = "patch" /\ UNCHANGED session
                 /\ ~session[Id(w)].finalizing
              \/ FinishEnter(w) /\ work'[w].at = "body" /\ work'[w].op = "finish"
                 /\ ~session[Id(w)].finalizing /\ session'[Id(w)].finalizing
                 /\ session'[Id(w)].total = session[Id(w)].total
                 /\ session'[Id(w)].buffer = session[Id(w)].buffer
                 /\ session'[Id(w)].parts = session[Id(w)].parts
                 /\ \A s \in Sessions : s # Id(w) => session'[s] = session[s]
              \/ work'[w].at = "abort" /\ UNCHANGED session
<1> TypeInv /\ TypeOK
  BY DEF WorkInv, TypeInv
<1>1. /\ work[w].at \in {"wait", "reap"} /\ Id(w) \in Sessions /\ lock[Id(w)] = None
      /\ UNCHANGED <<temp, objects, recorded, lost>>
  BY NamedHasId DEF Comes, PatchEnter, FinishEnter, CancelEnter, ReapLock, At, Named, Stages, Lock,
     bucket, rest
<1>2. CASE PatchEnter(w)
  BY <1>1, <1>2, GotoTurn DEF PatchEnter, Turn, Stages, Id
<1>3. CASE FinishEnter(w)
  BY <1>1, <1>3, FinishEnterTurn DEF FinishEnter, Claimable, Turn, Edit
<1>4. CASE CancelEnter(w) \/ ReapLock(w)
  BY <1>1, <1>4, GotoTurn DEF CancelEnter, ReapLock, Turn, Stages, Id
<1> QED
  BY <1>2, <1>3, <1>4 DEF Comes

LEMMA ClaimedStep ==
    ASSUME WorkInv, Claimed, NEW w \in Workers, Acts(w)
    PROVE  Claimed'
<1> TypeInv /\ TypeOK
  BY DEF WorkInv, TypeInv
<1>1. Touches(w)
  BY StepsMove DEF Acts, Move
<1>2. ASSUME NEW v \in Workers,
             \/ work'[v].at \in Committing
             \/ work'[v].at \in {"body", "part"} /\ work'[v].op = "finish"
      PROVE  session'[work'[v].id].finalizing
  <2>1. work'[v].at \in Locked
    BY <1>2 DEF Locked
  <2>2. CASE v # w
    <3>1. work'[v] = work[v]
      BY <2>2, OthersTurn
    <3>2. session'[work[v].id] = session[work[v].id]
      BY <2>1, <2>2, <3>1, OthersPass
    <3> QED
      BY <1>2, <3>1, <3>2 DEF Claimed
  <2>3. CASE v = w /\ Comes(w)
    BY <1>2, <2>3, ComesIn DEF Committing
  <2>4. CASE v = w /\ Works(w)
    <3>1. session[Id(w)].finalizing
      BY <1>2, <2>4, WorksGoOn DEF Claimed, Id
    <3>2. Id(w) \in Sessions /\ work'[w].id = Id(w)
      BY <2>4, WorksGoOn
    <3> QED
      BY <1>1, <2>4, <3>1, <3>2 DEF Touches
  <2>5. ~Passes(w) \/ v # w
    BY <2>1 DEF Passes
  <2>6. ~(Goes(w) \/ Makes(w)) \/ v # w
    BY <2>1 DEF Goes, Makes
  <2> QED
    BY <2>2, <2>3, <2>4, <2>5, <2>6, ActsAre
<1> QED
  BY <1>2 DEF Claimed

Written(s) == session[s].buffer \cup session[s].parts
All(s) == 1..session[s].total

\* At rest, a session that lost nothing and that no finish has claimed has every unit it
\* has hashed in its buffer or in a part.
Counted ==
    \A s \in Sessions :
        (s \in Held /\ s \notin lost /\ lock[s] = None /\ ~session[s].finalizing)
            => Written(s) = All(s)

\* While a worker is inside a session, it carries what is in neither.
Carries(w, s) ==
    /\ work[w].at \in {"body", "mismatch", "quota", "commit"} => Written(s) = All(s)
    /\ work[w].at = "abort" /\ ~session[s].finalizing => Written(s) = All(s)
    /\ work[w].at = "part" => Written(s) \cup work[w].part = All(s)
    /\ work[w].at = "tail" => session[s].parts \cup work[w].part = All(s)
    /\ work[w].at = "put" => work[w].part = All(s)
    /\ work[w].at = "complete" => session[s].parts = All(s)
    /\ work[w].at = "copy" => temp[s] = All(s)
Carried ==
    \A w \in Workers : work[w].id \in Sessions \ lost => Carries(w, work[w].id)

BytesInv == Claimed /\ Counted /\ Carried

\* What a worker does inside a session, it does with every unit.
LEMMA WorksCarry ==
    ASSUME WorkInv, NEW w \in Workers, Works(w), NEW s \in Sessions \ lost, work[w].id = s,
           Carries(w, s)
    PROVE  Carries(w, s)'
<1> TypeInv /\ TypeOK
  BY DEF WorkInv, TypeInv
<1> DEFINE n == session[s].total
<1>1. Id(w) = s /\ n \in Nat
  BY SessionTypes DEF Id
<1>2. CASE Write(w)
  <2> DEFINE b == session[s].buffer \cup {n + 1}
  <2>1. work[w].at = "body"
    BY <1>2 DEF Write, At
  <2>2. Written(s) = 1..n
    BY <2>1 DEF Carries, All
  <2>3. b \cup session[s].parts = 1..(n + 1)
    BY <1>1, <2>2 DEF Written
  <2>4. CASE /\ Turn(w, work[w].op, "part", s, work[w].expired) /\ work'[w].part = b
             /\ Edit(s, n + 1, {}, session[s].parts, session[s].finalizing)
    BY <2>3, <2>4 DEF Turn, Edit, Carries, Written, All
  <2>5. CASE /\ Turn(w, work[w].op, AfterWrite(n + 1), s, work[w].expired)
             /\ Edit(s, n + 1, b, session[s].parts, session[s].finalizing)
    <3>1. work'[w].at \in {"body", "abort"}
      BY <2>5 DEF Turn, AfterWrite
    <3> QED
      BY <2>3, <2>5, <3>1 DEF Edit, Carries, Written, All
  <2> QED
    BY <1>1, <1>2, <2>4, <2>5, WriteTurn
<1>3. CASE UploadPart(w)
  <2>1. /\ Turn(w, work[w].op, AfterWrite(n), s, work[w].expired)
        /\ Edit(s, n, session[s].buffer, session[s].parts \cup work[w].part, session[s].finalizing)
    BY <1>1, <1>3, UploadPartTurn
  <2>2. work'[w].at \in {"body", "abort"} /\ work[w].at = "part"
    BY <1>3, <2>1 DEF Turn, AfterWrite, UploadPart, At
  <2> QED
    BY <2>1, <2>2 DEF Edit, Carries, Written, All
<1>4. CASE Verify(w) \/ CheckQuota(w)
  <2>1. work[w].at \in {"body", "quota"} /\ UNCHANGED session
    BY <1>4 DEF Verify, CheckQuota, At
  <2>2. work'[w].at \in {"mismatch", "quota", "commit", "abort"}
    BY <1>4, GotoTurn DEF Verify, CheckQuota, Turn, Stages
  <2> QED
    BY <2>1, <2>2 DEF Carries, Written, All
<1>5. CASE CommitSmall(w)
  <2>1. /\ Turn(w, work[w].op, "put", s, work[w].expired) /\ work'[w].part = session[s].buffer
        /\ Edit(s, n, {}, session[s].parts, session[s].finalizing)
    BY <1>1, <1>5, CommitSmallTurn
  <2>2. work[w].at = "commit" /\ session[s].parts = {}
    BY <1>1, <1>5 DEF CommitSmall, At
  <2> QED
    BY <2>1, <2>2 DEF Turn, Edit, Carries, Written, All
<1>6. CASE Put(w)
  <2>1. work[w].at = "put" /\ UNCHANGED session /\ temp'[s] = work[w].part
    BY <1>1, <1>6 DEF Put, At, TypeOK
  <2>2. work'[w].at = "copy"
    BY <1>6, PutTurn DEF Turn
  <2> QED
    BY <2>1, <2>2 DEF Carries, All
<1>7. CASE CommitParts(w)
  <2>1. /\ Turn(w, work[w].op, IF session[s].buffer = {} THEN "complete" ELSE "tail",
                s, work[w].expired)
        /\ work'[w].part = session[s].buffer
        /\ Edit(s, n, {}, session[s].parts, session[s].finalizing)
    BY <1>1, <1>7, CommitPartsTurn
  <2>2. work[w].at = "commit"
    BY <1>7 DEF CommitParts, At
  <2>3. session[s].parts \cup session[s].buffer = 1..n
    BY <2>2 DEF Carries, Written, All
  <2> QED
    BY <2>1, <2>3 DEF Turn, Edit, Carries, All
<1>8. CASE Tail(w)
  <2>1. /\ Turn(w, work[w].op, "complete", s, work[w].expired)
        /\ Edit(s, n, session[s].buffer, session[s].parts \cup work[w].part, session[s].finalizing)
    BY <1>1, <1>8, TailTurn
  <2>2. work[w].at = "tail"
    BY <1>8 DEF Tail, At
  <2> QED
    BY <2>1, <2>2 DEF Turn, Edit, Carries, All
<1>9. CASE Complete(w)
  <2>1. /\ Turn(w, work[w].op, "copy", s, work[w].expired)
        /\ Edit(s, n, session[s].buffer, {}, session[s].finalizing)
    BY <1>1, <1>9, CompleteTurn
  <2>2. work[w].at = "complete" /\ temp'[s] = session[s].parts
    BY <1>1, <1>9 DEF Complete, At, TypeOK
  <2> QED
    BY <2>1, <2>2 DEF Turn, Edit, Carries, All
<1>10. CASE Copy(w) \/ Cleanup(w)
  <2>1. work'[w].at \in {"cleanup", "record"}
    BY <1>10, GotoTurn DEF Copy, Cleanup, Turn, Stages
  <2> QED
    BY <2>1 DEF Carries
<1> QED
  BY <1>2, <1>3, <1>4, <1>5, <1>6, <1>7, <1>8, <1>9, <1>10 DEF Works

\* Nobody comes to hold a session but the request that is to create it.
LEMMA HeldStep ==
    ASSUME WorkInv, NEW w \in Workers, Move(w), NEW s \in Sessions, s \in Held'
    PROVE  s \in Held \/ Fresh(s)
<1>1. PICK op, at, id, expired : Turn(w, op, at, id, expired) /\ Names(w, at, id, expired)
  BY DEF Move
<1>2. /\ \A v \in Workers : v # w => work'[v] = work[v]
      /\ work'[w].id = id /\ work'[w].expired = expired
  BY <1>1 DEF Turn
<1>3. CASE s \in registry'
  BY <1>1, <1>3 DEF Names, Held
<1>4. CASE \E v \in Workers : work'[v].id = s
  BY <1>1, <1>2, <1>4, NoneIsNoSession DEF Names, Held, Id
<1>5. CASE \E v \in Workers : s \in work'[v].expired
  BY <1>1, <1>2, <1>5 DEF Names, Held, Id
<1> QED
  BY <1>3, <1>4, <1>5 DEF Held, Id

LEMMA CountedStep ==
    ASSUME WorkInv, BytesInv, NEW w \in Workers, Acts(w)
    PROVE  Counted'
<1> TypeInv /\ TypeOK /\ Move(w) /\ Touches(w)
  BY StepsMove DEF WorkInv, TypeInv, Acts, Move
<1>1. ASSUME NEW s \in Sessions, s \in Held', s \notin lost', lock'[s] = None, ~session'[s].finalizing
      PROVE  Written(s)' = All(s)'
  <2>1. s \notin lost /\ w # None
    BY <1>1, NoneIsNoSession DEF Touches
  <2>2. ASSUME session'[s] = session[s], Written(s) = All(s) PROVE Written(s)' = All(s)'
    BY <2>2 DEF Written, All
  <2>3. CASE s # Id(w)
    <3>1. session'[s] = session[s]
      BY <2>3 DEF Touches
    <3>2. lock[s] = None
      <4>1. PICK at, id : Locks(w, at, id)
        BY DEF Move
      <4>2. lock[s] # w
        BY <2>3 DEF WorkInv, Exclusive, Id
      <4> QED
        BY <1>1, <2>1, <4>1, <4>2 DEF Locks, TypeOK
    <3>3. CASE s \in Held
      BY <1>1, <2>1, <2>2, <3>1, <3>2, <3>3 DEF BytesInv, Counted
    <3>4. CASE Fresh(s)
      <4>1. session[s] = NewSession
        BY <3>4 DEF WorkInv, New, Unknown, Fresh
      <4> QED
        BY <2>2, <3>1, <4>1 DEF Written, All, NewSession
    <3> QED
      BY <1>1, <3>3, <3>4, HeldStep
  <2>4. CASE s = Id(w)
    <3>1. s \in Held
      BY <2>4 DEF Held
    <3>2. CASE Passes(w)
      <4>1. lock[s] # w /\ session'[s] = session[s]
        BY <2>4, <3>2 DEF WorkInv, Exclusive, Passes, Id
      <4>2. lock[s] = None
        <5>1. PICK op, at, id, expired : Turn(w, op, at, id, expired) /\ Locks(w, at, id)
          BY DEF Move
        <5>2. at \notin Locked
          BY <3>2, <5>1 DEF Passes, Turn
        <5> QED
          BY <1>1, <4>1, <5>1, <5>2 DEF Locks
      <4> QED
        BY <1>1, <2>1, <2>2, <3>1, <4>1, <4>2 DEF BytesInv, Counted
    <3>3. CASE Makes(w)
      <4>1. session[s] = NewSession
        BY <2>4, <3>3 DEF WorkInv, Unknown, Creates, Makes, Id
      <4> QED
        BY <2>2, <3>3, <4>1 DEF Makes, Written, All, NewSession
    <3>5. CASE Comes(w) \/ Works(w)
      <4>1. work'[w].at \in Locked /\ work'[w].id = s
        BY <2>4, <3>5, ComesIn, WorksGoOn DEF Locked
      <4>2. PICK op, at, id, expired : Turn(w, op, at, id, expired) /\ Locks(w, at, id)
        BY DEF Move
      <4>3. lock'[s] = w
        BY <2>4, <4>1, <4>2 DEF Locks, Turn, WorkInv, Exclusive, TypeOK, Id
      <4> QED
        BY <1>1, <2>1, <4>3
    <3>6. CASE Goes(w)
      <4>1. work[w].at \in {"body", "abort"} \cup Committing /\ session'[s] = session[s]
        BY <1>1, <2>4, <3>6 DEF Goes, Locked
      <4>2. work[w].at \notin Committing
        BY <1>1, <2>4, <4>1 DEF BytesInv, Claimed, Id
      <4>3. Carries(w, s)
        BY <2>1, <2>4 DEF BytesInv, Carried, Id
      <4> QED
        BY <1>1, <2>2, <4>1, <4>2, <4>3 DEF Carries
    <3> QED
      BY <3>2, <3>3, <3>5, <3>6, ActsAre
  <2> QED
    BY <2>3, <2>4
<1> QED
  BY <1>1 DEF Counted

LEMMA CarriedStep ==
    ASSUME WorkInv, BytesInv, NEW w \in Workers, Acts(w)
    PROVE  Carried'
<1> TypeInv /\ TypeOK /\ Touches(w)
  BY StepsMove DEF WorkInv, TypeInv, Acts, Move
<1>1. ASSUME NEW v \in Workers, NEW s \in Sessions \ lost', work'[v].id = s
      PROVE  Carries(v, s)'
  <2>1. s \notin lost
    BY <1>1 DEF Touches
  <2>2. CASE work'[v].at \notin Locked
    BY <2>2 DEF Carries, Locked, Committing
  <2>3. CASE work'[v].at \in Locked /\ v # w
    <3>1. work'[v] = work[v]
      BY <2>3, OthersTurn
    <3>2. session'[s] = session[s] /\ temp'[s] = temp[s]
      BY <1>1, <2>3, <3>1, OthersPass
    <3>3. Carries(v, s)
      BY <1>1, <2>1, <3>1 DEF BytesInv, Carried
    <3> QED
      BY <3>1, <3>2, <3>3 DEF Carries, Written, All
  <2>4. CASE v = w /\ Works(w)
    <3>1. work[w].id = s
      BY <1>1, <2>4, WorksGoOn DEF Id
    <3> QED
      BY <2>1, <2>4, <3>1, WorksCarry DEF BytesInv, Carried
  <2>5. CASE v = w /\ Comes(w)
    <3>1. /\ s = Id(w) /\ lock[s] = None /\ s \in Held
          /\ session'[s].buffer = session[s].buffer /\ session'[s].parts = session[s].parts
          /\ session'[s].total = session[s].total /\ work'[w].at \in {"body", "abort"}
          /\ work'[w].at = "body" => ~session[s].finalizing
          /\ work'[w].at = "abort" => session'[s].finalizing = session[s].finalizing
      BY <1>1, <2>5, ComesIn DEF Held
    <3>2. ~session[s].finalizing => Written(s) = All(s)
      BY <2>1, <3>1 DEF BytesInv, Counted
    <3> QED
      BY <2>5, <3>1, <3>2 DEF Carries, Written, All
  <2>6. CASE v = w /\ work'[v].at \in Locked /\ ~Works(w) /\ ~Comes(w)
    BY <2>6, ActsAre DEF Passes, Makes, Goes
  <2> QED
    BY <2>2, <2>3, <2>4, <2>5, <2>6
<1> QED
  BY <1>1 DEF Carried

LEMMA BytesInvariant == Spec => []BytesInv
<1>1. Init => BytesInv
  <2> SUFFICES ASSUME Init PROVE BytesInv
    OBVIOUS
  <2>1. \A w \in Workers : work[w].id = None /\ work[w].at = "idle" /\ work[w].expired = {}
    BY NoWorkType DEF Init
  <2>2. registry = {}
    BY DEF Init
  <2>3. \A s \in Sessions : s \notin Held
    BY <2>1, <2>2, NoneIsNoSession DEF Held, Id
  <2> QED
    BY <2>1, <2>3, NoneIsNoSession DEF BytesInv, Claimed, Counted, Carried, Committing
<1>2. WorkInv /\ BytesInv /\ [Next]_vars => BytesInv'
  <2> SUFFICES ASSUME WorkInv, BytesInv, [Next]_vars PROVE BytesInv'
    OBVIOUS
  <2>1. CASE UNCHANGED vars
    BY <2>1 DEF vars, BytesInv, Claimed, Counted, Carried, Carries, Written, All, Held, Id
  <2>2. CASE Restart
    <3>1. \A w \in Workers : work'[w].id = None /\ work'[w].at = "idle" /\ work'[w].expired = {}
      BY <2>2, NoWorkType DEF Restart
    <3>2. registry' = {}
      BY <2>2 DEF Restart
    <3>3. \A s \in Sessions : s \notin Held'
      BY <3>1, <3>2, NoneIsNoSession DEF Held, Id
    <3> QED
      BY <3>1, <3>3, NoneIsNoSession DEF BytesInv, Claimed, Counted, Carried, Committing
  <2>3. ASSUME NEW s \in Sessions, Age(s) PROVE BytesInv'
    <3>1. /\ UNCHANGED <<registry, lock, temp, work, lost>>
          /\ \A t \in Sessions :
                /\ session'[t].total = session[t].total /\ session'[t].buffer = session[t].buffer
                /\ session'[t].parts = session[t].parts
                /\ session'[t].finalizing = session[t].finalizing
      BY <2>3, AgeEdit DEF Age, bucket, rest, Edit, WorkInv, TypeInv
    <3>2. \A t \in Sessions : Written(t)' = Written(t) /\ All(t)' = All(t)
      BY <3>1 DEF Written, All
    <3>3. Claimed'
      <4>1. \A w \in Workers : work[w].at \in Committing \cup {"body", "part"} => work[w].id \in Sessions
        BY NamedHasId DEF WorkInv, Committing, Named, Stages, Id
      <4> QED
        BY <3>1, <4>1 DEF BytesInv, Claimed
    <3>4. Counted'
      BY <3>1, <3>2 DEF BytesInv, Counted, Held, Id
    <3>5. Carried'
      BY <3>1, <3>2 DEF BytesInv, Carried, Carries
    <3> QED
      BY <3>3, <3>4, <3>5 DEF BytesInv
  <2>4. ASSUME NEW w \in Workers, Acts(w) PROVE BytesInv'
    BY <2>4, ClaimedStep, CountedStep, CarriedStep DEF BytesInv
  <2> QED
    BY <2>1, <2>2, <2>3, <2>4, NextActs
<1> QED
  BY <1>1, <1>2, WorkInvariant, PTL DEF Spec

\* A session that is claimed, and in whose body nobody is, takes no more units.
Sealed(s) ==
    /\ session[s].finalizing
    /\ \A w \in Workers : work[w].id = s => work[w].at \notin {"body", "part"}

LEMMA SealedStays ==
    ASSUME WorkInv, NEW w \in Workers, Acts(w), NEW s \in Sessions, Sealed(s)
    PROVE  Sealed(s)' /\ session'[s].total = session[s].total
<1> TypeInv /\ TypeOK /\ Touches(w)
  BY StepsMove DEF WorkInv, TypeInv, Acts, Move
<1>3. session'[s].finalizing
  BY DEF Touches, Sealed
<1>4. ASSUME NEW v \in Workers, work'[v].id = s, work'[v].at \in {"body", "part"}
      PROVE  FALSE
  <2>1. CASE v # w
    BY <1>4, <2>1, OthersTurn DEF Sealed
  <2>2. CASE v = w
    <3>1. ~Works(w)
      BY <1>4, <2>2, WorksGoOn DEF Sealed, Id
    <3>2. ~Comes(w)
      BY <1>4, <2>2, ComesIn DEF Sealed
    <3> QED
      BY <1>4, <2>2, <3>1, <3>2, ActsAre DEF Passes, Makes, Goes, Locked
  <2> QED
    BY <2>1, <2>2
<1>5. session'[s].total = session[s].total
  <2>1. CASE s # Id(w)
    BY <2>1 DEF Touches
  <2>2. CASE s = Id(w)
    <3>1. ~Write(w)
      BY <2>2 DEF Write, At, Sealed, Id
    <3>2. CASE \/ UploadPart(w) \/ CommitSmall(w) \/ CommitParts(w) \/ Tail(w) \/ Complete(w)
      BY <2>2, <3>2, UploadPartTurn, CommitSmallTurn, CommitPartsTurn, TailTurn, CompleteTurn
      DEF Edit
    <3>3. CASE Verify(w) \/ CheckQuota(w) \/ Put(w) \/ Copy(w) \/ Cleanup(w)
      BY <3>3 DEF Verify, CheckQuota, Put, Copy, Cleanup
    <3>4. CASE Comes(w)
      BY <2>2, <3>4, ComesIn
    <3> QED
      BY <3>1, <3>2, <3>3, <3>4, ActsAre DEF Works, Passes, Makes, Goes
  <2> QED
    BY <2>1, <2>2
<1> QED
  BY <1>3, <1>4, <1>5 DEF Sealed

\* A session in its commit is sealed.
LEMMA CommittingIsSealed ==
    ASSUME WorkInv, Claimed, NEW w \in Workers, work[w].at \in Committing
    PROVE  Id(w) \in Sessions /\ Sealed(Id(w))
<1>1. Id(w) \in Sessions
  BY NamedHasId DEF WorkInv, Committing, Named, Stages
<1>2. lock[Id(w)] = w /\ session[Id(w)].finalizing
  BY <1>1 DEF WorkInv, Exclusive, Claimed, Locked, Id
<1>3. \A v \in Workers : work[v].id = Id(w) => work[v].at \notin {"body", "part"}
  BY <1>1, <1>2 DEF WorkInv, Exclusive, Locked, Committing, Id
<1> QED
  BY <1>1, <1>2, <1>3 DEF Sealed

\* The object of n is whole, unless a session that lost a part will record it or did.
Sound(n) ==
    \/ objects[n] = 1..n
    \/ \E s \in lost : Sealed(s) /\ session[s].total = n
Stored ==
    /\ \A n \in recorded : Sound(n)
    /\ \A w \in Workers : work[w].at \in {"cleanup", "record"} => Sound(session[work[w].id].total)

LEMMA SoundStays ==
    ASSUME WorkInv, BytesInv, NEW w \in Workers, Acts(w), NEW n \in 0..MaxUnits, Sound(n)
    PROVE  Sound(n)'
<1> TypeInv /\ TypeOK /\ Touches(w)
  BY StepsMove DEF WorkInv, TypeInv, Acts, Move
<1>1. ASSUME NEW s \in lost, Sealed(s), session[s].total = n PROVE Sound(n)'
  <2>1. s \in Sessions /\ s \in lost'
    BY DEF Touches, TypeOK
  <2>2. Sealed(s)' /\ session'[s].total = n
    BY <1>1, <2>1, SealedStays
  <2> QED
    BY <2>1, <2>2 DEF Sound
<1>2. CASE objects[n] = 1..n
  <2>1. CASE ~Copy(w)
    <3>1. objects' = objects
      BY <2>1, ActsAre, ComesIn DEF Passes, Makes, Goes, Works, Write, UploadPart, Verify, CheckQuota,
         CommitSmall, Put, CommitParts, Tail, Complete, Cleanup, bucket
    <3> QED
      BY <1>2, <3>1 DEF Sound
  <2>2. CASE Copy(w)
    <3> DEFINE s == Id(w)
    <3>1. /\ work[w].at = "copy" /\ UNCHANGED <<session, lost>>
          /\ objects' = [objects EXCEPT ![session[s].total] = temp[s]]
      BY <2>2 DEF Copy, At, rest
    <3>2. s \in Sessions /\ Sealed(s)
      BY <3>1, CommittingIsSealed DEF BytesInv, Committing
    <3>3. CASE n # session[s].total
      BY <1>2, <3>1, <3>3 DEF Sound, TypeOK
    <3>4. CASE n = session[s].total /\ s \notin lost
      <4>1. temp[s] = 1..n
        BY <3>1, <3>2, <3>4 DEF BytesInv, Carried, Carries, All, Id
      <4> QED
        BY <3>1, <3>4, <4>1 DEF Sound, TypeOK
    <3>5. CASE n = session[s].total /\ s \in lost
      BY <1>1, <3>2, <3>5
    <3> QED
      BY <3>3, <3>4, <3>5
  <2> QED
    BY <2>1, <2>2
<1> QED
  BY <1>1, <1>2 DEF Sound

LEMMA CopySound ==
    ASSUME WorkInv, BytesInv, NEW w \in Workers, Copy(w)
    PROVE  Sound(session[Id(w)].total)'
<1> TypeInv /\ TypeOK
  BY DEF WorkInv, TypeInv
<1>1. PICK s \in Sessions : s = Id(w)
  BY NamedHasId DEF Copy, At, Named, Stages
<1>2. PICK n \in 0..MaxUnits : n = session[s].total
  BY SessionTypes
<1>3. /\ work[w].at = "copy" /\ UNCHANGED <<session, lost>>
      /\ objects' = [objects EXCEPT ![n] = temp[s]]
  BY <1>1, <1>2 DEF Copy, At, rest
<1>4. Acts(w)
  BY DEF Acts, Proceed, Commit
<1>5. Sealed(s)'
  BY <1>1, <1>3, <1>4, CommittingIsSealed, SealedStays DEF BytesInv, Committing
<1>6. Id(w)' = s
  BY <1>1, GotoTurn DEF Copy, Turn, Stages, Id
<1>7. CASE s \in lost
  BY <1>2, <1>3, <1>5, <1>6, <1>7 DEF Sound
<1>8. CASE s \notin lost
  <2>1. temp[s] = 1..n
    BY <1>1, <1>2, <1>3, <1>8 DEF BytesInv, Carried, Carries, All, Id
  <2>2. objects'[n] = 1..n
    BY <1>3, <2>1 DEF TypeOK
  <2> QED
    BY <1>2, <1>3, <1>6, <2>2 DEF Sound
<1> QED
  BY <1>7, <1>8

LEMMA StoredStep ==
    ASSUME WorkInv, BytesInv, Stored, NEW w \in Workers, Acts(w)
    PROVE  Stored'
<1> TypeInv /\ TypeOK
  BY DEF WorkInv, TypeInv
<1>1. ASSUME NEW v \in Workers, work[v].at \in {"cleanup", "record"}
      PROVE  /\ work[v].id \in Sessions /\ session[work[v].id].total \in 0..MaxUnits
             /\ Sound(session[work[v].id].total) /\ Sealed(work[v].id)
  <2>1. work[v].id \in Sessions /\ Sealed(work[v].id)
    BY <1>1, CommittingIsSealed DEF BytesInv, Committing, Id
  <2> QED
    BY <1>1, <2>1, SessionTypes DEF Stored
<1>2. ASSUME NEW n \in recorded' PROVE Sound(n)'
  <2>1. CASE n \in recorded
    BY <2>1, SoundStays DEF Stored, TypeOK
  <2>2. CASE n \notin recorded
    <3>1. Record(w)
      BY <1>2, <2>2, ActsAre, ComesIn DEF Passes, Makes, Goes, Works, Write, UploadPart,
         Verify, CheckQuota, CommitSmall, Put, CommitParts, Tail, Complete, Copy, Cleanup
    <3>2. n = session[work[w].id].total /\ work[w].at = "record"
      BY <1>2, <2>2, <3>1 DEF Record, At, Id
    <3> QED
      BY <1>1, <3>2, SoundStays
  <2> QED
    BY <2>1, <2>2
<1>3. ASSUME NEW v \in Workers, work'[v].at \in {"cleanup", "record"}
      PROVE  Sound(session[work[v].id].total)'
  <2>1. CASE work[v].at \in {"cleanup", "record"} /\ work'[v].id = work[v].id
    <3>1. PICK s \in Sessions : s = work[v].id
      BY <1>1, <2>1
    <3>2. PICK n \in 0..MaxUnits : n = session[s].total
      BY <3>1, SessionTypes
    <3>3. session'[s].total = n /\ Sound(n)'
      BY <1>1, <2>1, <3>1, <3>2, SealedStays, SoundStays
    <3> QED
      BY <2>1, <3>1, <3>3
  <2>2. CASE v = w /\ Copy(w)
    BY <2>2, CopySound DEF Id
  <2>3. v # w => work'[v] = work[v]
    BY OthersTurn
  <2>4. CASE v = w /\ ~Copy(w)
    <3>1. Works(w)
      BY <1>3, <2>4, ActsAre, ComesIn DEF Passes, Makes, Goes, Locked, Committing
    <3>2. Cleanup(w)
      <4>1. \A n : AfterWrite(n) \in {"body", "abort"}
        BY DEF AfterWrite
      <4>2. Id(w) \in Sessions
        BY <3>1, WorksGoOn
      <4>3. CASE Verify(w) \/ CheckQuota(w)
        BY <1>3, <2>4, <4>3, GotoTurn DEF Verify, CheckQuota, Turn, Stages
      <4>4. CASE Write(w) \/ UploadPart(w)
        BY <1>3, <2>4, <4>1, <4>2, <4>4, WriteTurn, UploadPartTurn DEF Turn
      <4>5. CASE CommitSmall(w) \/ Put(w) \/ CommitParts(w) \/ Tail(w) \/ Complete(w)
        BY <1>3, <2>4, <4>2, <4>5, CommitSmallTurn, PutTurn, CommitPartsTurn, TailTurn, CompleteTurn
        DEF Turn
      <4> QED
        BY <2>4, <3>1, <4>3, <4>4, <4>5 DEF Works
    <3> QED
      BY <2>1, <2>4, <3>1, <3>2, WorksGoOn DEF Cleanup, At, Id
  <2> QED
    BY <1>3, <2>1, <2>2, <2>3, <2>4
<1> QED
  BY <1>2, <1>3 DEF Stored

\* What is recorded under a digest is the bytes of that digest, but for a session that
\* had dropped a part it had hashed: no retry, refused or concurrent finish, cancel,
\* reaping or restart records anything else.
THEOREM RecordedIsWhole == Spec => []WholeUnlessTorn
<1>1. Init => Stored
  BY NoWorkType DEF Init, Stored
<1>2. WorkInv /\ BytesInv /\ Stored /\ [Next]_vars => Stored'
  <2> SUFFICES ASSUME WorkInv, BytesInv, Stored, [Next]_vars PROVE Stored'
    OBVIOUS
  <2>1. CASE UNCHANGED vars
    BY <2>1 DEF vars, Stored, Sound, Sealed
  <2>2. CASE Restart
    <3>1. \A w \in Workers : work'[w].id = None /\ work'[w].at = "idle"
      BY <2>2, NoWorkType DEF Restart
    <3>2. UNCHANGED <<session, objects, recorded, lost>>
      BY <2>2 DEF Restart, bucket
    <3>3. \A s \in lost : s \in Sessions
      BY DEF WorkInv, TypeInv, TypeOK
    <3>4. \A s \in lost : Sealed(s) => Sealed(s)'
      BY <3>1, <3>2 DEF Sealed
    <3>5. \A n : Sound(n) => Sound(n)'
      BY <3>2, <3>4 DEF Sound
    <3> QED
      BY <3>1, <3>2, <3>5 DEF Stored
  <2>3. ASSUME NEW s \in Sessions, Age(s) PROVE Stored'
    <3>1. /\ UNCHANGED <<objects, recorded, work, lost>>
          /\ \A t \in Sessions : session'[t].total = session[t].total
                                 /\ session'[t].finalizing = session[t].finalizing
      BY <2>3, AgeEdit DEF Age, bucket, rest, Edit, WorkInv, TypeInv
    <3>2. \A t \in lost : t \in Sessions
      BY DEF WorkInv, TypeInv, TypeOK
    <3>3. \A t \in lost : Sealed(t) => Sealed(t)'
      BY <3>1, <3>2 DEF Sealed
    <3>4. \A n : Sound(n) => Sound(n)'
      BY <3>1, <3>2, <3>3 DEF Sound
    <3>5. \A w \in Workers : work[w].at \in {"cleanup", "record"} => work[w].id \in Sessions
      BY NamedHasId DEF WorkInv, Named, Stages, Id
    <3> QED
      BY <3>1, <3>4, <3>5 DEF Stored
  <2>4. ASSUME NEW w \in Workers, Acts(w) PROVE Stored'
    BY <2>4, StoredStep
  <2> QED
    BY <2>1, <2>2, <2>3, <2>4, NextActs
<1>3. Stored => WholeUnlessTorn
  BY DEF Stored, Sound, WholeUnlessTorn, Torn
<1> QED
  BY <1>1, <1>2, <1>3, WorkInvariant, BytesInvariant, PTL DEF Spec

-----------------------------------------------------------------------------
(***************************************************************************)
(* The limit on the size of a blob                                         *)
(***************************************************************************)
\* A buffer that holds a part is flushed at once.
Small == \A s \in Sessions : Cardinality(session[s].buffer) < PartSize

\* A session that is over the limit is being rejected as long as its upload is open, and
\* stays so, unless it lost a part or a fault prevented its abort.
Excused == lost \cup unaborted
Rejected ==
    \A s \in Sessions : (s \notin Excused /\ TooLarge(session[s].total) /\ upload[s] = "open") =>
        \E w \in Workers : work[w].id = s /\ work[w].at \in {"part", "abort"}

\* So no request commits one.
NotOver ==
    \A w \in Workers :
        (work[w].at \in {"put", "copy", "cleanup", "record"} /\ work[w].id \notin Excused)
            => ~TooLarge(session[work[w].id].total)
RecordedOver ==
    \A n \in recorded : TooLarge(n) => \E s \in Excused : Sealed(s) /\ session[s].total = n

LimitInv == Small /\ Rejected /\ NotOver /\ RecordedOver

LEMMA ExcusedGrow ==
    ASSUME WorkInv, NEW w \in Workers, Acts(w)
    PROVE  Excused \subseteq Excused' /\ Excused \subseteq Sessions
<1> Touches(w)
  BY StepsMove DEF Acts, Move
<1> QED
  BY DEF Touches, Excused, WorkInv, TypeInv, TypeOK

LEMMA EmptyIsSmall == Cardinality({}) < PartSize
<1>1. Cardinality({}) = 0
  BY FS_EmptySet
<1> QED
  BY <1>1, SizesAssumption

LEMMA UnitsFinite == ASSUME NEW b \in SUBSET Units PROVE IsFiniteSet(b) /\ Cardinality(b) \in Nat
<1>1. IsFiniteSet(Units)
  BY SizesAssumption, FS_Interval DEF Units
<1> QED
  BY <1>1, FS_Subset, FS_CardinalityType

LEMMA SmallStep ==
    ASSUME WorkInv, Small, NEW w \in Workers, Acts(w)
    PROVE  Small'
<1> TypeInv /\ TypeOK /\ Touches(w)
  BY StepsMove DEF WorkInv, TypeInv, Acts, Move
<1>1. ASSUME NEW s \in Sessions PROVE Cardinality(session'[s].buffer) < PartSize
  <2>1. CASE session'[s].buffer = session[s].buffer \/ session'[s].buffer = {}
    BY <2>1, EmptyIsSmall DEF Small
  <2>2. CASE s # Id(w)
    BY <2>1, <2>2 DEF Touches
  <2>3. CASE s = Id(w) /\ Write(w)
    <3> DEFINE n == session[s].total + 1
               b == session[s].buffer \cup {n}
    <3>1. /\ n \in 1..MaxUnits
          /\ \/ Cardinality(b) >= PartSize /\ session'[s].buffer = {}
             \/ ~(Cardinality(b) >= PartSize) /\ session'[s].buffer = b
      BY <2>3, WriteTurn DEF Edit
    <3>2. b \in SUBSET Units
      BY <3>1, SessionTypes DEF Units
    <3>3. Cardinality(b) \in Nat
      BY <3>2, UnitsFinite
    <3> HIDE DEF b
    <3>4. CASE ~(Cardinality(b) >= PartSize) /\ session'[s].buffer = b
      BY <3>3, <3>4, SizesAssumption
    <3> QED
      BY <2>1, <3>1, <3>4
  <2>4. CASE s = Id(w) /\ Comes(w)
    BY <2>1, <2>4, ComesIn
  <2>5. CASE s = Id(w) /\ (UploadPart(w) \/ CommitSmall(w) \/ CommitParts(w) \/ Tail(w) \/ Complete(w))
    BY <2>1, <2>5, UploadPartTurn, CommitSmallTurn, CommitPartsTurn, TailTurn, CompleteTurn DEF Edit
  <2>6. CASE UNCHANGED session
    BY <2>1, <2>6
  <2> QED
    BY <2>2, <2>3, <2>4, <2>5, <2>6, ActsAre
    DEF Passes, Makes, Goes, Works, Verify, CheckQuota, Put, Copy, Cleanup
<1> QED
  BY <1>1 DEF Small

LEMMA RejectedStep ==
    ASSUME WorkInv, Rejected, NEW w \in Workers, Acts(w)
    PROVE  Rejected'
<1> TypeInv /\ TypeOK /\ Touches(w)
  BY StepsMove DEF WorkInv, TypeInv, Acts, Move
<1>1. ASSUME NEW s \in Sessions, s \notin Excused', TooLarge(session'[s].total), upload'[s] = "open"
      PROVE  \E v \in Workers : work'[v].id = s /\ work'[v].at \in {"part", "abort"}
  <2>1. s \notin Excused /\ s \notin lost' /\ s \notin unaborted'
    BY <1>1, ExcusedGrow DEF Excused
  <2>2. CASE s = Id(w) /\ Makes(w)
    <3>1. session'[s].total = 0
      BY <2>2 DEF Makes, WorkInv, Creates, Unknown, NewSession, Id
    <3> QED
      BY <1>1, <3>1, SizesAssumption DEF TooLarge
  <2>3. CASE s = Id(w) /\ Write(w)
    <3> DEFINE n == session[s].total + 1
    <3>1. /\ work'[w].id = s /\ session'[s].total = n
          /\ work'[w].at \in {"part", AfterWrite(n)}
      BY <2>3, WriteTurn DEF Turn, Edit
    <3> QED
      BY <1>1, <3>1 DEF AfterWrite
  <2>4. ASSUME session'[s].total = session[s].total, upload[s] = "open"
        PROVE  \E v \in Workers : work'[v].id = s /\ work'[v].at \in {"part", "abort"}
    <3>1. PICK v \in Workers : work[v].id = s /\ work[v].at \in {"part", "abort"}
      BY <1>1, <2>1, <2>4 DEF Rejected
    <3>2. CASE v # w
      BY <3>1, <3>2, OthersTurn
    <3>3. CASE v = w
      <4>1. ~Goes(w)
        BY <1>1, <2>1, <3>1, <3>3 DEF Goes, Id
      <4>2. ~Passes(w) /\ ~Makes(w) /\ ~Comes(w)
        BY <3>1, <3>3, ComesIn DEF Passes, Makes, Making, Locked
      <4>3. UploadPart(w)
        BY <3>1, <3>3, <4>1, <4>2, ActsAre DEF Works, Write, UploadPart, Verify, CheckQuota,
           CommitSmall, Put, CommitParts, Tail, Complete, Copy, Cleanup, At
      <4>4. work'[w].id = s /\ work'[w].at = AfterWrite(session[s].total)
        BY <3>1, <3>3, <4>3, UploadPartTurn DEF Turn, Id
      <4> QED
        BY <1>1, <2>4, <4>4 DEF AfterWrite
    <3> QED
      BY <3>2, <3>3
  <2>5. CASE s # Id(w)
    BY <1>1, <2>4, <2>5 DEF Touches
  <2>6. CASE s = Id(w) /\ ~Makes(w) /\ ~Write(w)
    <3>1. session'[s].total = session[s].total
      <4>1. CASE \/ UploadPart(w) \/ CommitSmall(w) \/ CommitParts(w) \/ Tail(w) \/ Complete(w)
        BY <2>6, <4>1, UploadPartTurn, CommitSmallTurn, CommitPartsTurn, TailTurn, CompleteTurn
        DEF Edit
      <4>2. CASE Comes(w)
        BY <2>6, <4>2, ComesIn
      <4> QED
        BY <2>6, <4>1, <4>2, ActsAre
        DEF Passes, Goes, Works, Verify, CheckQuota, Put, Copy, Cleanup
    <3>2. upload[s] = "open"
      <4>1. work[w].at # "create"
        BY <2>6, ActsAre, ComesIn, WorksGoOn DEF Passes, Goes, Making, Locked, Committing
      <4> QED
        BY <1>1, <2>6, <4>1 DEF Touches
    <3> QED
      BY <2>4, <3>1, <3>2
  <2> QED
    BY <2>2, <2>3, <2>5, <2>6
<1> QED
  BY <1>1 DEF Rejected

\* The limit, if there is one, is at least a part: what is put in one piece is under it.
LimitHoldsAPart == MaxBlob = 0 \/ MaxBlob >= PartSize

LEMMA NotOverStep ==
    ASSUME LimitHoldsAPart, WorkInv, BytesInv, LimitInv, NEW w \in Workers, Acts(w)
    PROVE  NotOver'
<1> TypeInv /\ TypeOK
  BY DEF WorkInv, TypeInv
<1> DEFINE Late == {"put", "copy", "cleanup", "record"}
<1>1. ASSUME NEW v \in Workers, work'[v].at \in Late, work'[v].id \notin Excused'
      PROVE  ~TooLarge(session'[work'[v].id].total)
  <2>1. work'[v].at \in Locked /\ work'[v].at \in Committing
    BY <1>1 DEF Locked, Committing
  <2>2. CASE v # w
    <3>1. work'[v] = work[v]
      BY <2>2, OthersTurn
    <3>2. session'[work[v].id] = session[work[v].id]
      BY <2>1, <2>2, <3>1, OthersPass
    <3> QED
      BY <1>1, <3>1, <3>2, ExcusedGrow DEF LimitInv, NotOver
  <2>3. CASE v = w
    <3>1. Works(w)
      <4>1. ~Comes(w)
        BY <1>1, <2>3, ComesIn
      <4> QED
        BY <2>1, <2>3, <4>1, ActsAre DEF Passes, Makes, Goes
    <3>2. PICK s \in Sessions : s = Id(w)
      BY <3>1, WorksGoOn
    <3>3. /\ work[w].id = s /\ work'[w].id = s /\ s \notin Excused /\ s \notin Excused'
      BY <1>1, <2>3, <3>1, <3>2, WorksGoOn, ExcusedGrow DEF Id
    <3>4. CASE CommitSmall(w)
      <4> DEFINE n == session[s].total
      <4>1. work[w].at = "commit" /\ session[s].parts = {} /\ s \notin lost
        BY <3>2, <3>3, <3>4 DEF CommitSmall, At, Excused
      <4>2. session[s].buffer = 1..n
        BY <3>3, <4>1 DEF BytesInv, Carried, Carries, Written, All
      <4>3. n \in Nat
        BY <3>2, SessionTypes
      <4>4. Cardinality(1..n) = n
        BY <4>3, FS_Interval
      <4>5. n < PartSize
        BY <4>2, <4>4 DEF LimitInv, Small
      <4>6. ~TooLarge(n)
        BY <4>3, <4>5, SizesAssumption DEF LimitHoldsAPart, TooLarge
      <4>7. session'[s].total = n
        BY <3>2, <3>4, CommitSmallTurn DEF Edit
      <4> QED
        BY <2>3, <3>3, <4>6, <4>7
    <3>5. CASE Complete(w)
      <4>1. upload[s] = "open" /\ work[w].at = "complete"
        BY <3>2, <3>5 DEF Complete, At
      <4>2. \A u \in Workers : work[u].id = s => work[u].at \notin {"part", "abort"}
        <5>1. lock[s] = w
          BY <3>3, <4>1 DEF WorkInv, Exclusive, Locked, Committing
        <5> QED
          BY <4>1, <5>1 DEF WorkInv, Exclusive, Locked
      <4>3. ~TooLarge(session[s].total)
        BY <3>3, <4>1, <4>2 DEF LimitInv, Rejected
      <4>4. session'[s].total = session[s].total
        BY <3>2, <3>5, CompleteTurn DEF Edit
      <4> QED
        BY <2>3, <3>3, <4>3, <4>4
    <3>6. CASE Put(w) \/ Copy(w) \/ Cleanup(w)
      <4>1. UNCHANGED session /\ work[w].at \in Late
        BY <3>6 DEF Put, Copy, Cleanup, At
      <4> QED
        BY <2>3, <3>3, <4>1 DEF LimitInv, NotOver
    <3>7. CASE Write(w) \/ UploadPart(w)
      <4>1. \A n : AfterWrite(n) \in {"body", "abort"}
        BY DEF AfterWrite
      <4> QED
        BY <1>1, <2>3, <3>2, <3>7, <4>1, WriteTurn, UploadPartTurn DEF Turn
    <3>8. CASE Verify(w) \/ CheckQuota(w)
      BY <1>1, <2>3, <3>8, GotoTurn DEF Verify, CheckQuota, Turn, Stages
    <3>9. CASE CommitParts(w) \/ Tail(w)
      BY <1>1, <2>3, <3>2, <3>9, CommitPartsTurn, TailTurn DEF Turn
    <3> QED
      BY <3>1, <3>4, <3>5, <3>6, <3>7, <3>8, <3>9 DEF Works
  <2> QED
    BY <2>2, <2>3
<1> QED
  BY <1>1 DEF NotOver

LEMMA RecordedOverStep ==
    ASSUME WorkInv, BytesInv, LimitInv, NEW w \in Workers, Acts(w)
    PROVE  RecordedOver'
<1> TypeInv /\ TypeOK
  BY DEF WorkInv, TypeInv
<1>1. ASSUME NEW n, NEW s \in Excused, Sealed(s), session[s].total = n
      PROVE  \E t \in Excused' : Sealed(t)' /\ session'[t].total = n
  <2>1. s \in Sessions /\ s \in Excused'
    BY ExcusedGrow
  <2> QED
    BY <1>1, <2>1, SealedStays
<1>2. ASSUME NEW n \in recorded', TooLarge(n)
      PROVE  \E s \in Excused' : Sealed(s)' /\ session'[s].total = n
  <2>1. CASE n \in recorded
    BY <1>1, <1>2, <2>1 DEF LimitInv, RecordedOver
  <2>2. CASE n \notin recorded
    <3>1. Record(w)
      BY <1>2, <2>2, ActsAre, ComesIn DEF Passes, Makes, Goes, Works, Write, UploadPart,
         Verify, CheckQuota, CommitSmall, Put, CommitParts, Tail, Complete, Copy, Cleanup
    <3>2. n = session[work[w].id].total /\ work[w].at = "record"
      BY <1>2, <2>2, <3>1 DEF Record, At, Id
    <3>3. work[w].id \in Excused
      BY <1>2, <3>2 DEF LimitInv, NotOver
    <3>4. Sealed(work[w].id)
      BY <3>2, CommittingIsSealed DEF BytesInv, Committing, Id
    <3> QED
      BY <1>1, <3>2, <3>3, <3>4
  <2> QED
    BY <2>1, <2>2
<1> QED
  BY <1>2 DEF RecordedOver, TooLarge

LEMMA LimitRestart ==
    ASSUME WorkInv, LimitInv, Restart
    PROVE  LimitInv'
<1>1. \A w \in Workers : work'[w].id = None /\ work'[w].at = "idle"
  BY NoWorkType DEF Restart
<1>2. /\ UNCHANGED <<session, upload, recorded, lost>>
      /\ unaborted' = unaborted \cup (Held \cap Sessions)
  BY DEF Restart, bucket
<1>3. Small' /\ NotOver'
  BY <1>1, <1>2 DEF LimitInv, Small, NotOver
<1>4. Excused \subseteq Excused'
  BY <1>2 DEF Excused
<1>5. Rejected'
  <2>1. ASSUME NEW s \in Sessions, s \notin Excused', TooLarge(session[s].total), upload[s] = "open"
        PROVE  FALSE
    <3>1. PICK w \in Workers : work[w].id = s
      BY <1>4, <2>1 DEF LimitInv, Rejected
    <3>2. s \in Excused'
      BY <1>2, <3>1 DEF Held, Id, Excused
    <3> QED
      BY <2>1, <3>2
  <2> QED
    BY <1>2, <2>1 DEF Rejected, TooLarge
<1>6. RecordedOver'
  <2>1. \A s : Sealed(s) => Sealed(s)'
    BY <1>1, <1>2 DEF Sealed
  <2> QED
    BY <1>2, <1>4, <2>1 DEF LimitInv, RecordedOver, TooLarge
<1> QED
  BY <1>3, <1>5, <1>6 DEF LimitInv

LEMMA LimitAge ==
    ASSUME WorkInv, LimitInv, NEW s \in Sessions, Age(s)
    PROVE  LimitInv'
<1>1. /\ UNCHANGED <<upload, recorded, work, lost, unaborted>>
      /\ \A t \in Sessions : /\ session'[t].total = session[t].total
                             /\ session'[t].buffer = session[t].buffer
                             /\ session'[t].finalizing = session[t].finalizing
  BY AgeEdit DEF Age, bucket, rest, Edit, WorkInv, TypeInv
<1>2. Excused' = Excused /\ Excused \subseteq Sessions
  BY <1>1 DEF Excused, WorkInv, TypeInv, TypeOK
<1>3. Small' /\ Rejected'
  BY <1>1, <1>2 DEF LimitInv, Small, Rejected, TooLarge
<1>4. NotOver'
  <2>1. \A w \in Workers : work[w].at \in Named => work[w].id \in Sessions
    BY NamedHasId DEF WorkInv, Id
  <2> QED
    BY <1>1, <1>2, <2>1 DEF LimitInv, NotOver, TooLarge, Named, Stages
<1>5. RecordedOver'
  <2>1. \A t \in Sessions : Sealed(t) => Sealed(t)'
    BY <1>1 DEF Sealed
  <2> QED
    BY <1>1, <1>2, <2>1 DEF LimitInv, RecordedOver, TooLarge
<1> QED
  BY <1>3, <1>4, <1>5 DEF LimitInv

\* A blob over max_blob_bytes is never recorded, when the limit is at least a part: but for
\* a session that lost a part, or whose rejection could not abort its upload.  A limit
\* under PART_SIZE does not hold: what fits the buffer needs no upload, so a finish that
\* comes when the upload of a rejected session is aborted puts it in one piece.
THEOREM OversizeIsRejected == LimitHoldsAPart => (Spec => []OversizeNeverRecorded)
<1> SUFFICES ASSUME LimitHoldsAPart PROVE Spec => []OversizeNeverRecorded
  OBVIOUS
<1>1. Init => LimitInv
  <2> SUFFICES ASSUME Init PROVE LimitInv
    OBVIOUS
  <2>1. \A s \in Sessions : session[s].buffer = {} /\ upload[s] = "none"
    BY DEF Init, NewSession
  <2>2. \A w \in Workers : work[w].at = "idle"
    BY NoWorkType DEF Init
  <2>3. recorded = {}
    BY DEF Init
  <2> QED
    BY <2>1, <2>2, <2>3, EmptyIsSmall DEF LimitInv, Small, Rejected, NotOver, RecordedOver
<1>2. WorkInv /\ BytesInv /\ LimitInv /\ [Next]_vars => LimitInv'
  <2> SUFFICES ASSUME WorkInv, BytesInv, LimitInv, [Next]_vars PROVE LimitInv'
    OBVIOUS
  <2>1. CASE UNCHANGED vars
    BY <2>1 DEF vars, LimitInv, Small, Rejected, NotOver, RecordedOver, Excused, Sealed, TooLarge
  <2>2. ASSUME NEW w \in Workers, Acts(w) PROVE LimitInv'
    BY <2>2, SmallStep, RejectedStep, NotOverStep, RecordedOverStep DEF LimitInv
  <2> QED
    BY <2>1, <2>2, LimitRestart, LimitAge, NextActs
<1>3. WorkInv /\ LimitInv => OversizeNeverRecorded
  BY DEF LimitInv, RecordedOver, Excused, OversizeNeverRecorded
<1> QED
  BY <1>1, <1>2, <1>3, WorkInvariant, BytesInvariant, PTL DEF Spec
=============================================================================
