------------------------ MODULE UpstreamUsageProofs ------------------------
(***************************************************************************)
(* Proofs about the two components that work alone.                        *)
(*                                                                         *)
(* Usage: its types, that no event is lost or counted twice, and that a    *)
(* day the loop has marked has its snapshot unless it failed.              *)
(*                                                                         *)
(* Upstream, for any hosts, page bounds and redirect bounds, and for       *)
(* whatever the upstream answers: the types, where credentials go, and     *)
(* what a listing that is returned contains.                               *)
(***************************************************************************)
EXTENDS Usage, Upstream, TLAPS

-----------------------------------------------------------------------------
(***************************************************************************)
(* Usage: types                                                            *)
(***************************************************************************)
LEMMA KeyTypes ==
    /\ \A d \in Days, r \in Repos : <<"repo", d, r>> \in Keys
    /\ \A d \in Days, u \in Users : <<"user", d, u>> \in UserKeys
    /\ UserKeys \subseteq Keys
BY DEF Keys, RepoKeys, UserKeys

LEMMA DayTypes == Days \subseteq Nat /\ 0 \in Days
BY BoundsAssumption DEF Days

LEMMA ZeroType == Zero \in [Keys -> Nat]
BY DEF Zero

LEMMA InitType == Init => TypeOK
BY ZeroType, DayTypes DEF Init, TypeOK, Sleeping, NoEvent

\* A bump leaves both tables with their types.
LEMMA BumpType ==
    ASSUME TypeOK, NEW k \in Keys, Bump(k)
    PROVE  counters' \in [Keys -> Nat] /\ recorded' \in [Keys -> Nat]
BY DEF TypeOK, Bump

\* Every step keeps the types.
LEMMA StepType == TypeOK /\ [Next]_vars => TypeOK'
<1> SUFFICES ASSUME TypeOK, [Next]_vars PROVE TypeOK'
    OBVIOUS
<1> USE DayTypes, ZeroType
<1>1. ASSUME NEW c \in Requests, RecordRepo(c) PROVE TypeOK'
    <2>1. counters' \in [Keys -> Nat] /\ recorded' \in [Keys -> Nat]
        <3>1. PICK r \in Repos : Bump(<<"repo", today, r>>)
            BY <1>1 DEF RecordRepo
        <3>2. <<"repo", today, r>> \in Keys
            BY KeyTypes DEF TypeOK
        <3> QED BY <3>1, <3>2, BumpType
    <2>2. req' \in [Requests -> {NoEvent} \cup [at : {"user"}, key : UserKeys]]
        <3>1. PICK u \in Users :
                req' = [req EXCEPT ![c] = [at |-> "user", key |-> <<"user", today, u>>]]
            BY <1>1 DEF RecordRepo
        <3>2. <<"user", today, u>> \in UserKeys
            BY KeyTypes DEF TypeOK
        <3> QED BY <3>1, <3>2 DEF TypeOK
    <2> QED BY <1>1, <2>1, <2>2 DEF RecordRepo, TypeOK, snapshots
<1>2. ASSUME NEW c \in Requests, RecordUser(c) PROVE TypeOK'
    <2>1. req[c].key \in Keys
        BY <1>2, KeyTypes DEF RecordUser, TypeOK, NoEvent
    <2>2. counters' \in [Keys -> Nat] /\ recorded' \in [Keys -> Nat]
        BY <1>2, <2>1, BumpType DEF RecordUser
    <2> QED BY <1>2, <2>2 DEF RecordUser, TypeOK, snapshots
<1>3. ASSUME Flush PROVE TypeOK'
    <2>1. CASE FlushTick
        BY <2>1 DEF FlushTick, TypeOK, snapshots
    <2>2. CASE Drain
        BY <2>2 DEF Drain, Done, TypeOK, snapshots
    <2>3. CASE FlushBatch
        <3>1. \A k \in Keys : daily[k] + rows[k] \in Nat
            BY DEF TypeOK
        <3>2. daily' \in [Keys -> Nat]
            BY <2>3, <3>1 DEF FlushBatch
        <3> QED BY <2>3, <3>2 DEF FlushBatch, Goto, TypeOK, snapshots
    <2>4. CASE FlushFails
        <3>1. faults' \in Nat
            BY <2>4 DEF FlushFails, Fault, TypeOK
        <3> QED BY <2>4, <3>1 DEF FlushFails, TypeOK, snapshots
    <2>5. CASE Requeue
        BY <2>5 DEF Requeue, Done, TypeOK, snapshots
    <2>6. CASE RequeueDone
        BY <2>6 DEF RequeueDone, Goto, TypeOK, snapshots
    <2> QED BY <1>3, <2>1, <2>2, <2>3, <2>4, <2>5, <2>6 DEF Flush
<1>4. ASSUME Snapshot PROVE TypeOK'
    <2>1. CASE SnapshotMark
        BY <2>1 DEF SnapshotMark, Sleeping, TypeOK
    <2>2. CASE SnapshotStorage
        BY <2>2 DEF SnapshotStorage, Sleeping, TypeOK
    <2>3. CASE SnapshotFails
        <3>1. faults' \in Nat
            BY <2>3 DEF SnapshotFails, Fault, TypeOK
        <3> QED BY <2>3, <3>1 DEF SnapshotFails, Sleeping, TypeOK
    <2> QED BY <1>4, <2>1, <2>2, <2>3 DEF Snapshot
<1>5. CASE Restart
    BY <1>5 DEF Restart, Fault, Sleeping, TypeOK
<1>6. CASE Midnight
    BY <1>6, BoundsAssumption DEF Midnight, Days, TypeOK, snapshots
<1>7. CASE UNCHANGED vars
    BY <1>7 DEF vars, TypeOK
<1> QED BY <1>1, <1>2, <1>3, <1>4, <1>5, <1>6, <1>7 DEF Next

\* Every reachable state has its types (the collector's maps, analytics.rs).
THEOREM TypeCorrect == Spec => []TypeOK
<1>1. Init => TypeOK
    BY InitType
<1>2. TypeOK /\ [Next]_vars => TypeOK'
    BY StepType
<1> QED BY <1>1, <1>2, PTL DEF Spec

-----------------------------------------------------------------------------
(***************************************************************************)
(* Usage: counting                                                         *)
(***************************************************************************)
\* A row is one that this flush has drained and not yet put back: a drain would
\* overwrite any other.
BatchFresh ==
    \A k \in Keys : rows[k] # 0 =>
        \/ loop.at = "drain" /\ k \notin loop.todo
        \/ loop.at = "requeue" /\ k \in loop.todo

LEMMA StepFresh == TypeOK /\ BatchFresh /\ [Next]_vars => BatchFresh'
<1> SUFFICES ASSUME TypeOK, BatchFresh, [Next]_vars PROVE BatchFresh'
    OBVIOUS
<1> USE DEF BatchFresh
<1>1. ASSUME NEW c \in Requests, RecordRepo(c) \/ RecordUser(c) PROVE BatchFresh'
    BY <1>1 DEF RecordRepo, RecordUser
<1>2. CASE FlushTick
    BY <1>2 DEF FlushTick, TypeOK
<1>3. CASE Drain
    BY <1>3 DEF Drain, Done, TypeOK
<1>4. CASE FlushBatch
    BY <1>4 DEF FlushBatch, Zero
<1>5. CASE FlushFails
    BY <1>5 DEF FlushFails, TypeOK
<1>6. CASE Requeue
    BY <1>6 DEF Requeue, Done, TypeOK
<1>7. CASE RequeueDone
    BY <1>7 DEF RequeueDone, Goto, TypeOK
<1>8. CASE Snapshot
    BY <1>8 DEF Snapshot, SnapshotMark, SnapshotStorage, SnapshotFails, TypeOK
<1>9. CASE Restart
    BY <1>9 DEF Restart, Zero
<1>10. CASE Midnight \/ UNCHANGED vars
    BY <1>10 DEF Midnight, vars
<1> QED BY <1>1, <1>2, <1>3, <1>4, <1>5, <1>6, <1>7, <1>8, <1>9, <1>10 DEF Next, Flush

LEMMA BumpConserves ==
    ASSUME TypeOK, Conserved, NEW k \in Keys, Bump(k), UNCHANGED <<rows, daily>>
    PROVE  Conserved'
<1> SUFFICES ASSUME NEW j \in Keys
             PROVE  counters'[j] + rows[j] + daily[j] = recorded'[j]
    BY DEF Conserved
<1>1. counters[j] + rows[j] + daily[j] = recorded[j]
    BY DEF Conserved
<1>2. CASE j = k
    BY <1>1, <1>2 DEF Bump, TypeOK
<1>3. CASE j # k
    BY <1>1, <1>3 DEF Bump, TypeOK
<1> QED BY <1>2, <1>3

\* Every step keeps the sum of what is in memory, on its way and in the table.
LEMMA StepConserves == TypeOK /\ BatchFresh /\ Conserved /\ [Next]_vars => Conserved'
<1> SUFFICES ASSUME TypeOK, BatchFresh, Conserved, [Next]_vars PROVE Conserved'
    OBVIOUS
<1>1. ASSUME NEW c \in Requests, RecordRepo(c) PROVE Conserved'
    <2>1. PICK r \in Repos : Bump(<<"repo", today, r>>)
        BY <1>1 DEF RecordRepo
    <2>2. <<"repo", today, r>> \in Keys
        BY KeyTypes DEF TypeOK
    <2> QED BY <1>1, <2>1, <2>2, BumpConserves DEF RecordRepo
<1>2. ASSUME NEW c \in Requests, RecordUser(c) PROVE Conserved'
    <2>1. req[c].key \in Keys
        BY <1>2, KeyTypes DEF RecordUser, TypeOK, NoEvent
    <2> QED BY <1>2, <2>1, BumpConserves DEF RecordUser
<1>3. CASE Drain
    <2>0. PICK k \in loop.todo : /\ rows' = [rows EXCEPT ![k] = counters[k]]
                                /\ counters' = [counters EXCEPT ![k] = 0]
        BY <1>3 DEF Drain
    <2> SUFFICES ASSUME NEW j \in Keys
                 PROVE  counters'[j] + rows'[j] + daily[j] = recorded[j]
        BY <1>3 DEF Conserved, Drain
    <2>1. counters[j] + rows[j] + daily[j] = recorded[j]
        BY DEF Conserved
    <2>2. counters[j] \in Nat /\ rows[j] \in Nat /\ daily[j] \in Nat
        BY DEF TypeOK
    <2>3. rows[k] = 0 /\ k \in Keys
        BY <1>3 DEF BatchFresh, Drain, TypeOK
    <2> QED BY <2>0, <2>1, <2>2, <2>3 DEF TypeOK
<1>4. CASE FlushBatch
    <2> SUFFICES ASSUME NEW j \in Keys
                 PROVE  counters[j] + rows'[j] + daily'[j] = recorded[j]
        BY <1>4 DEF Conserved, FlushBatch
    <2> QED BY <1>4 DEF FlushBatch, Zero, Conserved, TypeOK
<1>5. CASE Requeue
    <2>0. PICK k \in Keys : /\ counters' = [counters EXCEPT ![k] = @ + rows[k]]
                            /\ rows' = [rows EXCEPT ![k] = 0]
        BY <1>5 DEF Requeue, TypeOK
    <2> SUFFICES ASSUME NEW j \in Keys
                 PROVE  counters'[j] + rows'[j] + daily[j] = recorded[j]
        BY <1>5 DEF Conserved, Requeue
    <2> QED BY <2>0 DEF Conserved, TypeOK
<1>6. CASE Restart
    BY <1>6 DEF Restart, Zero, Conserved, TypeOK
<1>7. CASE FlushTick \/ FlushFails \/ RequeueDone \/ Snapshot \/ Midnight \/ UNCHANGED vars
    BY <1>7 DEF FlushTick, FlushFails, RequeueDone, Snapshot, SnapshotMark,
                SnapshotStorage, SnapshotFails, Midnight, vars, Conserved
<1> QED BY <1>1, <1>2, <1>3, <1>4, <1>5, <1>6, <1>7 DEF Next, Flush

\* No event is lost or counted twice, but by a restart: flush and requeue of
\* analytics.rs, against any number of requests that record meanwhile.
THEOREM EventsConserved == Spec => []Conserved
<1>1. Init => BatchFresh /\ Conserved
    BY DEF Init, Zero, BatchFresh, Conserved
<1>2. TypeOK /\ BatchFresh /\ [Next]_vars => BatchFresh'
    BY StepFresh
<1>3. TypeOK /\ BatchFresh /\ Conserved /\ [Next]_vars => Conserved'
    BY StepConserves
<1> QED BY <1>1, <1>2, <1>3, TypeCorrect, PTL DEF Spec

-----------------------------------------------------------------------------
(***************************************************************************)
(* Usage: snapshots                                                        *)
(***************************************************************************)
\* The loop takes the snapshot of the day it has marked.
DayMarked == loop.at = "snapshot" => loop.day = lastDay

\* Every step keeps the marked day accounted for.
LEMMA StepSnapshot ==
    TypeOK /\ DayMarked /\ SnapshotUnlessMissed /\ [Next]_vars
        => DayMarked' /\ SnapshotUnlessMissed'
<1> SUFFICES ASSUME TypeOK, DayMarked, SnapshotUnlessMissed, [Next]_vars
             PROVE  DayMarked' /\ SnapshotUnlessMissed'
    OBVIOUS
<1> USE DEF DayMarked, SnapshotUnlessMissed, snapshots
<1>1. ASSUME NEW c \in Requests, RecordRepo(c) \/ RecordUser(c)
      PROVE  DayMarked' /\ SnapshotUnlessMissed'
    BY <1>1 DEF RecordRepo, RecordUser
<1>2. CASE Flush
    BY <1>2 DEF Flush, FlushTick, Drain, Done, FlushBatch, FlushFails, Requeue,
                RequeueDone, Goto, TypeOK
<1>3. CASE SnapshotMark
    <2>1. CASE lastDay = today
        BY <1>3, <2>1 DEF SnapshotMark, Sleeping
    <2>2. CASE lastDay # today
        BY <1>3, <2>2 DEF SnapshotMark, TypeOK
    <2> QED BY <2>1, <2>2
<1>4. CASE SnapshotStorage
    BY <1>4 DEF SnapshotStorage, Sleeping
<1>5. CASE SnapshotFails
    BY <1>5 DEF SnapshotFails, Sleeping
<1>6. CASE Restart
    BY <1>6 DEF Restart, Sleeping
<1>7. CASE Midnight \/ UNCHANGED vars
    BY <1>7 DEF Midnight, vars
<1> QED BY <1>1, <1>2, <1>3, <1>4, <1>5, <1>6, <1>7 DEF Next, Snapshot

\* A marked day has its snapshot or that snapshot failed (maybe_snapshot of
\* analytics.rs), through restarts and a midnight between mark and snapshot.
THEOREM SnapshotTaken == Spec => []SnapshotUnlessMissed
<1>1. Init => DayMarked /\ SnapshotUnlessMissed
    BY DEF Init, Sleeping, DayMarked, SnapshotUnlessMissed
<1>2. TypeOK /\ DayMarked /\ SnapshotUnlessMissed /\ [Next]_vars
        => DayMarked' /\ SnapshotUnlessMissed'
    BY StepSnapshot
<1> QED BY <1>1, <1>2, TypeCorrect, PTL DEF Spec

-----------------------------------------------------------------------------
(***************************************************************************)
(* Upstream: types                                                         *)
(***************************************************************************)
LEMMA TopIsOrigin == Top \in Origin
  BY HostsAssumption DEF Top, Origin

\* Every variable has its type: the counters stay within their bounds.
THEOREM ConversationTypes == Conversation => []ConversationTypeOK
<1>1. ConversationInit => ConversationTypeOK
  <2> SUFFICES ASSUME ConversationInit PROVE ConversationTypeOK
    OBVIOUS
  <2>1. page \in 1..Pages /\ pages \in 0..MaxPages /\ out \subseteq 1..Pages
    BY PagesAssumption DEF ConversationInit
  <2>2. url \in Origin /\ get \in Get
    BY TopIsOrigin, PagesAssumption DEF ConversationInit, Get, Auth
  <2>3. at \in {"login", "page"}
    BY DEF ConversationInit
  <2> QED
    BY <2>1, <2>2, <2>3 DEF ConversationInit, ConversationTypeOK, Results
<1>2. ConversationTypeOK /\ [ConversationNext]_conversation => ConversationTypeOK'
  <2> SUFFICES ASSUME ConversationTypeOK, [ConversationNext]_conversation PROVE ConversationTypeOK'
    OBVIOUS
  <2> USE PagesAssumption DEF ConversationTypeOK, Results
  <2>1. CASE AskPage
    BY <2>1 DEF AskPage, Open, End, PagesLeft, CountPage, Get, Auth
  <2>2. CASE AskOnce
    BY <2>2 DEF AskOnce, Open, Get, Auth
  <2>3. CASE AskApi
    <3>1. CASE at = "login"
      BY <2>3, <3>1 DEF AskApi, Open, End, Get, Auth
    <3>2. CASE at = "page"
      BY <2>3, <3>2 DEF AskApi, Open, End, Get, Auth
    <3> QED
      BY <2>3, <3>1, <3>2 DEF AskApi
  <2>4. ASSUME NEW o \in Origin, Redirect(o) PROVE ConversationTypeOK'
    <3>1. CASE get.hops < MaxRedirects /\ Guarded(o)
      <4>1. Kept(o) \in Auth
        BY DEF Kept, Get, Auth
      <4>2. get.hops + 1 \in 0..MaxRedirects
        BY <3>1 DEF Get
      <4>3. get' = [get EXCEPT !.url = o, !.hops = @ + 1, !.auth = Kept(o)]
        BY <2>4, <3>1 DEF Redirect
      <4>4. get' \in Get
        BY <4>1, <4>2, <4>3 DEF Get
      <4> QED
        BY <2>4, <3>1, <4>4 DEF Redirect, control
    <3>2. CASE ~(get.hops < MaxRedirects /\ Guarded(o))
      BY <2>4, <3>2 DEF Redirect, End
    <3> QED
      BY <3>1, <3>2
  <2>5. ASSUME NEW o \in Origin, Challenged(o) PROVE ConversationTypeOK'
    BY <2>5 DEF Challenged, Open, End, Get, Auth
  <2>6. CASE Fails
    BY <2>6 DEF Fails, End, Failure
  <2>7. CASE TokenGiven
    BY <2>7 DEF TokenGiven, Open, Get, Auth
  <2>8. CASE NotFound
    BY <2>8 DEF NotFound, End
  <2>9. CASE Found
    BY <2>9 DEF Found, End
  <2>10. CASE LoggedIn
    BY <2>10 DEF LoggedIn
  <2>11. ASSUME NEW listed \in BOOLEAN, NEW link \in 0..Pages, NEW o \in Origin, TakePage(listed, link, o)
        PROVE ConversationTypeOK'
    BY <2>11 DEF TakePage, End
  <2>12. CASE UNCHANGED conversation
    BY <2>12 DEF conversation, control
  <2> QED
    BY <2>1, <2>2, <2>3, <2>4, <2>5, <2>6, <2>7, <2>8, <2>9, <2>10, <2>11, <2>12 DEF ConversationNext
<1> QED
  BY <1>1, <1>2, PTL DEF Conversation

-----------------------------------------------------------------------------
(***************************************************************************)
(* Upstream: credentials                                                   *)
(***************************************************************************)
\* A GET that carries credentials is still where it began, and it began at a trusted
\* realm if they are the upstream's password.
AtItsStart ==
    /\ get.auth # "none" => get.url = get.first
    /\ get.auth = "basic" => Trusted(get.first) /\ ~Cleartext(get.first)

\* A token belongs to the page that is asked for; a provider's API is asked with nothing
\* else than its own.
OfItsPage ==
    at = "get" =>
        /\ op \in Api <=> get.why \in {"login", "api"}
        /\ get.auth = "bearer" => op \notin Api /\ get.first = url
        /\ get.auth = "api_token" => op \in Api /\ get.first = url

\* The first page is the API's own.
FirstAtTop == at \in {"login", "page", "get"} => url = Top \/ out # {} \/ cut

AuthInv == AtItsStart /\ OfItsPage /\ FirstAtTop

\* Whatever the upstream answers: a registry's password reaches only a trusted host, in
\* the clear only a loopback one, and its token only the origin of the page it is for.
\* A provider's token, the user's password, goes to the API, and from the second page
\* on to whatever origin its links name.
THEOREM CredentialsStayHome == Conversation => []CredentialsHome
<1>1. ConversationInit => AuthInv
  BY DEF ConversationInit, AuthInv, AtItsStart, OfItsPage, FirstAtTop
<1>2. ConversationTypeOK /\ AuthInv /\ [ConversationNext]_conversation => AuthInv'
  <2> SUFFICES ASSUME ConversationTypeOK, AuthInv, [ConversationNext]_conversation PROVE AuthInv'
    OBVIOUS
  <2> USE DEF AuthInv, AtItsStart, OfItsPage, FirstAtTop
  <2>1. CASE AskPage
    BY <2>1 DEF AskPage, Open, End, Paged, Api
  <2>2. CASE AskOnce
    BY <2>2 DEF AskOnce, Open, Single, Api
  <2>3. CASE AskApi
    BY <2>3 DEF AskApi, Open, End
  <2>4. CASE TokenGiven
    BY <2>4 DEF TokenGiven, Open
  <2>5. ASSUME NEW o \in Origin, Redirect(o) PROVE AuthInv'
    <3>1. CASE get.hops < MaxRedirects /\ Guarded(o)
      <4>1. /\ get' = [get EXCEPT !.url = o, !.hops = @ + 1, !.auth = Kept(o)]
            /\ UNCHANGED <<at, url, op, out, cut>>
        BY <2>5, <3>1 DEF Redirect, control
      <4>2. /\ get'.why = get.why /\ get'.first = get.first /\ get'.url = o
            /\ get'.auth = IF o = get.first THEN get.auth ELSE "none"
        BY <4>1 DEF Kept, ConversationTypeOK, Get
      <4> QED
        BY <4>1, <4>2
    <3>2. CASE ~(get.hops < MaxRedirects /\ Guarded(o))
      BY <2>5, <3>2 DEF Redirect, End
    <3> QED
      BY <3>1, <3>2
  <2>6. ASSUME NEW o \in Origin, Challenged(o) PROVE AuthInv'
    BY <2>6 DEF Challenged, Open, End
  <2>7. CASE Fails \/ NotFound \/ Found
    BY <2>7 DEF Fails, Failure, NotFound, Found, End
  <2>8. CASE LoggedIn
    BY <2>8 DEF LoggedIn
  <2>9. ASSUME NEW listed \in BOOLEAN, NEW link \in 0..Pages, NEW o \in Origin, TakePage(listed, link, o)
        PROVE AuthInv'
    BY <2>9 DEF TakePage, End
  <2>10. CASE UNCHANGED conversation
    BY <2>10 DEF conversation, control
  <2> QED
    BY <2>1, <2>2, <2>3, <2>4, <2>5, <2>6, <2>7, <2>8, <2>9, <2>10 DEF ConversationNext
<1>3. AuthInv => CredentialsHome
  <2> SUFFICES ASSUME AuthInv PROVE CredentialsHome
    OBVIOUS
  <2> QED
    BY DEF AuthInv, AtItsStart, OfItsPage, FirstAtTop, CredentialsHome
<1> QED
  BY <1>1, <1>2, <1>3, ConversationTypes, PTL DEF Conversation

-----------------------------------------------------------------------------
(***************************************************************************)
(* Upstream: listings                                                      *)
(***************************************************************************)
Lists == op \in Paged \cup Api

\* While the links lead from page to page and no page lacked its list, what was taken is what comes before the page
\* that is asked for, and as many pages were counted.
InOrder ==
    ~strayed /\ ~cut /\ Lists /\ at \in {"login", "page", "get"} =>
        /\ page \in 1..last /\ out = 1..(page - 1)
        /\ op \in Paged => pages = (IF at = "get" THEN page ELSE page - 1)

\* Only the conversation with an API logs in.
LoginIsApi == get.why = "login" => op \in Api

ListingInv == InOrder /\ LoginIsApi /\ ListingWhole

\* A listing that is returned as a success is whole, with the four exceptions that
\* ListingWhole names.
THEOREM ListingsWhole == Conversation => []ListingWhole
<1>1. ConversationInit => ListingInv
  BY PagesAssumption DEF ConversationInit, ListingInv, InOrder, LoginIsApi, ListingWhole, Lists, Paged, Api, Single
<1>2. ConversationTypeOK /\ ListingInv /\ [ConversationNext]_conversation => ListingInv'
  <2> SUFFICES ASSUME ConversationTypeOK, ListingInv, [ConversationNext]_conversation PROVE ListingInv'
    OBVIOUS
  <2> USE PagesAssumption
      DEF ConversationTypeOK, ListingInv, InOrder, LoginIsApi, ListingWhole, Lists, Results, Paged, Api, Single
  <2>1. CASE AskPage
    BY <2>1 DEF AskPage, Open, End, PagesLeft, CountPage
  <2>2. CASE AskOnce \/ AskApi
    BY <2>2 DEF AskOnce, AskApi, Open, End
  <2>3. ASSUME NEW o \in Origin, Redirect(o) PROVE ListingInv'
    <3>1. CASE get.hops < MaxRedirects /\ Guarded(o)
      <4>1. get'.why = get.why
        BY <2>3, <3>1 DEF Redirect, Get
      <4> QED
        BY <2>3, <3>1, <4>1 DEF Redirect, control
    <3>2. CASE ~(get.hops < MaxRedirects /\ Guarded(o))
      BY <2>3, <3>2 DEF Redirect, End
    <3> QED
      BY <3>1, <3>2
  <2>4. ASSUME NEW o \in Origin, Challenged(o) PROVE ListingInv'
    BY <2>4 DEF Challenged, Open, End
  <2>5. CASE Fails
    BY <2>5 DEF Fails, End, Failure
  <2>6. CASE TokenGiven
    BY <2>6 DEF TokenGiven, Open
  <2>7. CASE NotFound
    <3>1. CASE op = "tags"
      BY <2>7, <3>1 DEF NotFound, End
    <3>2. CASE op = "manifest"
      BY <2>7, <3>2 DEF NotFound, End
    <3> QED
      BY <2>7, <3>1, <3>2 DEF NotFound
  <2>8. CASE Found \/ LoggedIn
    <3>1. CASE Found
      BY <3>1 DEF Found, End
    <3>2. CASE LoggedIn
      BY <3>2 DEF LoggedIn
    <3> QED
      BY <2>8, <3>1, <3>2
  <2>9. ASSUME NEW listed \in BOOLEAN, NEW link \in 0..Pages, NEW o \in Origin, TakePage(listed, link, o)
        PROVE ListingInv'
    <3>0. get' = get /\ op' = op /\ last' = last
      BY <2>9 DEF TakePage, End
    <3>1. CASE link # Following \/ ~listed
      <4>1. strayed' \/ cut'
        BY <2>9, <3>1 DEF TakePage
      <4> QED
        BY <3>0, <4>1
    <3>2. CASE link = Following /\ link = 0 /\ listed
      BY <2>9, <3>0, <3>2 DEF TakePage, End, Following, Answered
    <3>3. CASE link = Following /\ link # 0 /\ listed
      <4>1. /\ out' = out \cup {page} /\ cut' = cut /\ strayed' = strayed /\ page < last
            /\ \/ at' = "error"
               \/ at' = "page" /\ page' = page + 1 /\ pages' = pages
        BY <2>9, <3>3 DEF TakePage, End, Following
      <4> QED
        BY <2>9, <3>0, <3>3, <4>1 DEF Answered, TakePage
    <3> QED
      BY <3>1, <3>2, <3>3
  <2>10. CASE UNCHANGED conversation
    BY <2>10 DEF conversation, control
  <2> QED
    BY <2>1, <2>2, <2>3, <2>4, <2>5, <2>6, <2>7, <2>8, <2>9, <2>10 DEF ConversationNext
<1> QED
  BY <1>1, <1>2, ConversationTypes, PTL DEF Conversation, ListingInv
=============================================================================
