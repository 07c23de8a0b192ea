------------------------------- MODULE Usage -------------------------------
(***************************************************************************)
(* Usage analytics (src/src/analytics.rs): counters in memory that every   *)
(* request bumps, the background loop that drains them into the daily      *)
(* tables and puts them back when that fails, and the daily snapshot.      *)
(*                                                                         *)
(* A counter is one entry of one of the collector's two maps.  The maps    *)
(* are sharded and locked shard by shard, so one entry is the unit of      *)
(* atomicity: requests on other threads run between any two of them.       *)
(* Organizations, kinds of event and bytes are counted alike and left out; *)
(* so is a collector that is switched off.                                 *)
(***************************************************************************)
EXTENDS Integers, FiniteSets

CONSTANTS
    Repos, Users,
    Requests,  \* concurrent requests
    Never,     \* no day
    MaxDay,    \* bound: the last day
    MaxEvents, \* bound: recorded events
    MaxFaults  \* bound: failing statements and restarts

ASSUME BoundsAssumption == MaxDay \in Nat /\ MaxEvents \in Nat /\ MaxFaults \in Nat
ASSUME NeverAssumption == Never \notin Nat

Days == 0..MaxDay
RepoKeys == {"repo"} \X Days \X Repos
UserKeys == {"user"} \X Days \X Users
Keys == RepoKeys \cup UserKeys

VARIABLES
    today,    \* the current UTC day
    counters, \* UsageCollector.repo and .user: the count of each key, 0 when absent
    rows,     \* the rows drained by the flush in progress
    daily,    \* usage_daily and usage_user_daily
    lastDay,  \* UsageCollector.last_snapshot_day
    storage,  \* storage_daily: the days with a snapshot
    loop,     \* flush_loop, with its local variables
    req,      \* the requests that are recording an event
    events,   \* bound: events so far
    faults,   \* bound: faults so far
    recorded, \* history: what has been counted for each key and is not lost by a restart
    missed    \* history: the days whose snapshot failed

vars == <<today, counters, rows, daily, lastDay, storage, loop, req,
          events, faults, recorded, missed>>
snapshots == <<lastDay, storage, missed>>

Sleeping == [at |-> "sleep", todo |-> {}, day |-> Never]
NoEvent == [at |-> "idle", key |-> Never]
Zero == [k \in Keys |-> 0]

Init ==
    /\ today = 0 /\ events = 0 /\ faults = 0
    /\ counters = Zero /\ rows = Zero /\ daily = Zero /\ recorded = Zero
    /\ lastDay = Never /\ storage = {} /\ missed = {}
    /\ loop = Sleeping
    /\ req = [c \in Requests |-> NoEvent]

Fault == faults < MaxFaults /\ faults' = faults + 1

-----------------------------------------------------------------------------
(***************************************************************************)
(* record                                                                  *)
(***************************************************************************)
Bump(k) ==
    /\ counters' = [counters EXCEPT ![k] = @ + 1]
    /\ recorded' = [recorded EXCEPT ![k] = @ + 1]

\* Mutant: the user is counted under the key of the repository.
RecordRepoKey(c) ==
    /\ req[c].at = "idle" /\ events < MaxEvents
    /\ \E r \in Repos :
        /\ Bump(<<"repo", today, r>>)
        /\ req' = [req EXCEPT ![c] = [at |-> "user", key |-> <<"repo", today, r>>]]
    /\ events' = events + 1
    /\ UNCHANGED <<today, rows, daily, loop, faults, snapshots>>

\* The day is read once, and the repository's counter goes first; every caller
\* names a user.
RecordRepo(c) ==
    /\ req[c].at = "idle" /\ events < MaxEvents
    /\ \E r \in Repos : Bump(<<"repo", today, r>>)
    /\ \E u \in Users :
        req' = [req EXCEPT ![c] = [at |-> "user", key |-> <<"user", today, u>>]]
    /\ events' = events + 1
    /\ UNCHANGED <<today, rows, daily, loop, faults, snapshots>>

RecordUser(c) ==
    /\ req[c].at = "user"
    /\ Bump(req[c].key)
    /\ req' = [req EXCEPT ![c] = NoEvent]
    /\ UNCHANGED <<today, rows, daily, loop, events, faults, snapshots>>

-----------------------------------------------------------------------------
(***************************************************************************)
(* flush                                                                   *)
(***************************************************************************)
Goto(s) == loop' = [loop EXCEPT !.at = s]

\* Entries of the repository map come first.
First(k) == k \in loop.todo /\ (k \in UserKeys => loop.todo \cap RepoKeys = {})
Done(k) == loop' = [loop EXCEPT !.todo = @ \ {k}]

\* Mutant: only the current day is drained.
FlushTickToday ==
    /\ loop.at = "sleep"
    /\ loop' = [loop EXCEPT !.at = "drain", !.todo = {k \in Keys : k[2] = today}]
    /\ UNCHANGED <<today, counters, rows, daily, req, events, faults, recorded, snapshots>>

FlushTick ==
    /\ loop.at = "sleep"
    /\ loop' = [loop EXCEPT !.at = "drain", !.todo = Keys]
    /\ UNCHANGED <<today, counters, rows, daily, req, events, faults, recorded, snapshots>>

Drain ==
    /\ loop.at = "drain"
    /\ \E k \in loop.todo :
        /\ First(k) /\ Done(k)
        /\ rows' = [rows EXCEPT ![k] = counters[k]]
        /\ counters' = [counters EXCEPT ![k] = 0]
    /\ UNCHANGED <<today, daily, req, events, faults, recorded, snapshots>>

\* flush_batch is one transaction: all of the rows, or none.
FlushBatch ==
    /\ loop.at = "drain" /\ loop.todo = {}
    /\ daily' = [k \in Keys |-> daily[k] + rows[k]]
    /\ rows' = Zero
    /\ Goto("mark")
    /\ UNCHANGED <<today, counters, req, events, faults, recorded, snapshots>>

FlushFails ==
    /\ loop.at = "drain" /\ loop.todo = {} /\ rows # Zero
    /\ Fault
    /\ loop' = [loop EXCEPT !.at = "requeue", !.todo = Keys]
    /\ UNCHANGED <<today, counters, rows, daily, req, events, recorded, snapshots>>

\* Mutant: the row replaces what was counted meanwhile.
RequeueOver ==
    /\ loop.at = "requeue"
    /\ \E k \in loop.todo :
        /\ First(k) /\ Done(k)
        /\ counters' = [counters EXCEPT ![k] = IF rows[k] = 0 THEN @ ELSE rows[k]]
        /\ rows' = [rows EXCEPT ![k] = 0]
    /\ UNCHANGED <<today, daily, req, events, faults, recorded, snapshots>>

\* Each row is added to what was counted since it was drained.
Requeue ==
    /\ loop.at = "requeue"
    /\ \E k \in loop.todo :
        /\ First(k) /\ Done(k)
        /\ counters' = [counters EXCEPT ![k] = @ + rows[k]]
        /\ rows' = [rows EXCEPT ![k] = 0]
    /\ UNCHANGED <<today, daily, req, events, faults, recorded, snapshots>>

RequeueDone ==
    /\ loop.at = "requeue" /\ loop.todo = {}
    /\ Goto("mark")
    /\ UNCHANGED <<today, counters, rows, daily, req, events, faults, recorded, snapshots>>

-----------------------------------------------------------------------------
(***************************************************************************)
(* maybe_snapshot                                                          *)
(***************************************************************************)
\* The day is marked before its snapshot is taken.
SnapshotMark ==
    /\ loop.at = "mark"
    /\ loop' = IF lastDay = today
               THEN Sleeping ELSE [loop EXCEPT !.at = "snapshot", !.day = today]
    /\ lastDay' = today
    /\ UNCHANGED <<today, counters, rows, daily, storage, req, events, faults, recorded, missed>>

\* Mutant: the snapshot goes to the day it is by now.
SnapshotStorageNow ==
    /\ loop.at = "snapshot"
    /\ storage' = storage \cup {today}
    /\ loop' = Sleeping
    /\ UNCHANGED <<today, counters, rows, daily, lastDay, req, events, faults, recorded, missed>>

SnapshotStorage ==
    /\ loop.at = "snapshot"
    /\ storage' = storage \cup {loop.day}
    /\ loop' = Sleeping
    /\ UNCHANGED <<today, counters, rows, daily, lastDay, req, events, faults, recorded, missed>>

SnapshotFails ==
    /\ loop.at = "snapshot"
    /\ Fault
    /\ missed' = missed \cup {loop.day}
    /\ loop' = Sleeping
    /\ UNCHANGED <<today, counters, rows, daily, lastDay, storage, req, events, recorded>>

-----------------------------------------------------------------------------
\* What is in memory is lost; nothing flushes it at shutdown.
Restart ==
    /\ Fault
    /\ counters' = Zero /\ rows' = Zero /\ recorded' = daily
    /\ lastDay' = Never
    /\ loop' = Sleeping
    /\ req' = [c \in Requests |-> NoEvent]
    /\ UNCHANGED <<today, daily, storage, events, missed>>

Midnight ==
    /\ today < MaxDay
    /\ today' = today + 1
    /\ UNCHANGED <<counters, rows, daily, loop, req, events, faults, recorded, snapshots>>

Flush == FlushTick \/ Drain \/ FlushBatch \/ FlushFails \/ Requeue \/ RequeueDone
Snapshot == SnapshotMark \/ SnapshotStorage \/ SnapshotFails

Next ==
    \/ \E c \in Requests : RecordRepo(c) \/ RecordUser(c)
    \/ Flush \/ Snapshot
    \/ Restart \/ Midnight

Spec == Init /\ [][Next]_vars

\* The loop ticks for ever, its statements return, and record never blocks.
FairSpec ==
    /\ Spec
    /\ WF_vars(Flush) /\ WF_vars(Snapshot)
    /\ \A c \in Requests : WF_vars(RecordUser(c))

-----------------------------------------------------------------------------
(***************************************************************************)
(* Properties                                                              *)
(***************************************************************************)
TypeOK ==
    /\ today \in Days /\ events \in Nat /\ faults \in Nat
    /\ counters \in [Keys -> Nat] /\ rows \in [Keys -> Nat]
    /\ daily \in [Keys -> Nat] /\ recorded \in [Keys -> Nat]
    /\ lastDay \in Days \cup {Never} /\ storage \in SUBSET Days /\ missed \in SUBSET Days
    /\ loop \in [at : {"sleep", "drain", "requeue", "mark", "snapshot"},
                 todo : SUBSET Keys, day : Days \cup {Never}]
    /\ loop.at = "snapshot" => loop.day \in Days
    /\ req \in [Requests -> {NoEvent} \cup [at : {"user"}, key : UserKeys]]

\* No event is counted twice or dropped (analytics.rs, flush: on an error "the
\* drained counts are merged back so they're retried next flush rather than
\* lost"): what a key has seen since the last restart is in memory, in the batch
\* on its way or in the daily table, through records that race the drain and the
\* requeue, and through days that change in between.
Conserved == \A k \in Keys : counters[k] + rows[k] + daily[k] = recorded[k]

\* "Take the daily storage snapshot once per day": a day the loop has marked has
\* its snapshot once the loop is done with it, unless that very snapshot failed.
SnapshotUnlessMissed ==
    lastDay # Never /\ loop.at # "snapshot" => lastDay \in storage \cup missed

\* What is counted reaches the tables unless a restart loses it, for the days that
\* have passed as well, and however often the flush fails or the counter is busy.
FlushedAgain ==
    \A k \in Keys, n \in 1..MaxEvents :
        recorded[k] >= n ~> daily[k] >= n \/ recorded[k] < n
=============================================================================
