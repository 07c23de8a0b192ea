------------------------------ MODULE Domains -------------------------------
(***************************************************************************)
(* The custom domains of the instance (src/src/db/domains.rs), the public  *)
(* URL derived from them (src/src/state.rs), the handlers that change them *)
(* (src/src/api/mod.rs), and the task that reloads the listeners when they *)
(* change (src/src/tls.rs), with automatic TLS on.                         *)
(*                                                                         *)
(* A handler commits, reads the primary domain back, stores the public URL *)
(* and wakes the task, in steps that interleave with other handlers.  The  *)
(* task serves plain HTTP on :80 while there is no domain; with domains it *)
(* serves :443 itself and spawns a redirector for :80, which it aborts     *)
(* without waiting for it.                                                 *)
(***************************************************************************)
EXTENDS Naturals, Sequences, FiniteSets, SequencesExt

CONSTANTS
    Names,      \* domain names
    Emails,     \* ACME contacts
    Requests,   \* concurrent handlers
    None,       \* no domain, no contact, no URL
    Configured, \* server.public_url, or None
    Contact,    \* tls.contact_email of the configuration, or None
    Earlier,    \* domains a server may start with, oldest first
    MaxCalls,   \* bound: changes in one behaviour
    MaxFaults   \* bound: failures in one behaviour

ASSUME NamesAssumption == None \notin Names \cup Emails
ASSUME EarlierAssumption == Earlier \in Seq(Names) /\ IsInjective(Earlier)
ASSUME BoundsAssumption == MaxCalls \in Nat /\ MaxFaults \in Nat /\ Configured \in Names \cup {None}
                           /\ Contact \in Emails \cup {None}

VARIABLES
    domains, \* the domains table, oldest first
    primary, \* the domain whose is_primary is set, None if there is none
    email,   \* tls_contact_email
    url,     \* public_url
    req,     \* the handlers in progress
    permit,  \* domains_changed: Notify holds one permit
    loop,    \* the TLS task: where it is, and what it read in this round
    port,    \* the redirector on :80
    held,    \* whether an aborted redirector still holds :80
    doubt,   \* history: the last refresh overlapped another change, or failed
    missed,  \* history: since its round began, a change that the task was not told of,
             \* or a read of it that failed
    calls, faults

table == <<domains, primary, email>>
listeners == <<loop, port, held>>
history == <<doubt, missed>>
bounds == <<calls, faults>>
vars == <<table, url, req, permit, listeners, history, bounds>>

Known == Range(domains)
Ops == {"none", "add", "delete", "set_primary", "contact"}
Request == [op : Ops, at : {"idle", "commit", "read", "store", "notify"}, name : Names \cup {None},
            found : Names \cup {None}, alone : BOOLEAN]
Idle == [op |-> "none", at |-> "idle", name |-> None, found |-> None, alone |-> TRUE]
NewLoop == [at |-> "url", url |-> None, domains |-> {}, email |-> None, sure |-> TRUE]

\* primary: the one that is marked, else the oldest.
PrimaryDomain ==
    IF primary # None THEN primary ELSE IF domains = <<>> THEN None ELSE Head(domains)
Effective == IF Configured # None THEN Configured ELSE PrimaryDomain

EffectiveContact == IF email # None THEN email ELSE Contact

Fault == faults < MaxFaults /\ faults' = faults + 1 /\ UNCHANGED calls
Quiet == UNCHANGED bounds

-----------------------------------------------------------------------------
(***************************************************************************)
(* The handlers                                                            *)
(***************************************************************************)
Refreshing(q) == req[q].at \in {"read", "store"}
Begin == calls < MaxCalls /\ calls' = calls + 1 /\ UNCHANGED faults

\* After its commit a change refreshes; it and the refreshes it overlaps are not alone.
Committed(q, op) ==
    req' = [r \in Requests |->
        IF r = q THEN [Idle EXCEPT !.op = op, !.at = "read",
                        !.alone = \A x \in Requests : ~Refreshing(x)]
        ELSE IF Refreshing(r) THEN [req[r] EXCEPT !.alone = FALSE] ELSE req[r]]

\* add_domain asks for a contact first.
StartAdd(q, d) ==
    /\ req[q].at = "idle" /\ EffectiveContact # None
    /\ Begin
    /\ req' = [req EXCEPT ![q] = [Idle EXCEPT !.op = "add", !.at = "commit", !.name = d]]
    /\ UNCHANGED <<table, url, permit, listeners, history>>

\* Mutant: a name that is taken is not noticed.
AddedTwice(d) == Append(domains, d)
WithDomain(d) == IF d \in Known THEN domains ELSE Append(domains, d)

\* The first domain becomes the primary one.
Add(q) ==
    LET d == req[q].name IN
    /\ req[q].at = "commit"
    /\ domains' = WithDomain(d)
    /\ primary' = IF primary = None /\ domains' # domains THEN d ELSE primary
    /\ Committed(q, "add")
    /\ Quiet /\ UNCHANGED <<email, url, permit, listeners, history>>

WithoutDomain(d) ==
    IF d \in Known THEN RemoveAt(domains, CHOOSE i \in DOMAIN domains : domains[i] = d) ELSE domains

\* The oldest one left takes over when there is no primary domain.
Delete(q, d) ==
    /\ req[q].at = "idle"
    /\ Begin
    /\ domains' = WithoutDomain(d)
    /\ primary' = IF primary \notin {None, d} THEN primary
                  ELSE IF domains' = <<>> THEN None ELSE Head(domains')
    /\ Committed(q, "delete")
    /\ UNCHANGED <<email, url, permit, listeners, history>>

\* A name that is not in the table unsets the primary domain.
SetPrimary(q, d) ==
    /\ req[q].at = "idle"
    /\ Begin
    /\ primary' = IF d \in Known THEN d ELSE None
    /\ Committed(q, "set_primary")
    /\ UNCHANGED <<domains, email, url, permit, listeners, history>>

\* update_tls_settings
SetContact(q, e) ==
    /\ req[q].at = "idle"
    /\ Begin
    /\ email' = e
    /\ req' = [req EXCEPT ![q] = [Idle EXCEPT !.op = "contact", !.at = "notify"]]
    /\ UNCHANGED <<domains, primary, url, permit, listeners, history>>

\* Mutant: the newest domain is taken for the primary one.
NewestDomain == IF domains = <<>> THEN None ELSE Last(domains)
FoundDomain == Effective

\* refresh_public_url: a read that fails is taken for no domain.
ReadPrimary(q) ==
    /\ req[q].at = "read"
    /\ \/ Quiet /\ req' = [req EXCEPT ![q].at = "store", ![q].found = FoundDomain]
       \/ /\ Fault /\ Configured = None
          /\ req' = [req EXCEPT ![q].at = "store", ![q].found = None, ![q].alone = FALSE]
    /\ UNCHANGED <<table, url, permit, listeners, history>>

StoreUrl(q) ==
    /\ req[q].at = "store"
    /\ url' = req[q].found
    /\ doubt' = ~req[q].alone
    /\ req' = [req EXCEPT ![q] = IF @.op = "set_primary" THEN Idle ELSE [@ EXCEPT !.at = "notify"]]
    /\ Quiet /\ UNCHANGED <<table, permit, listeners, missed>>

Waiting == loop.at \in {"http", "acme", "tls"}
\* Mutant: only a task that waits is woken.
PermitWaiting == permit \/ Waiting
Permit == permit \/ TRUE

\* notify_domains_changed, after the audit entry.
Notify(q) ==
    /\ req[q].at = "notify"
    /\ permit' = Permit
    /\ req' = [req EXCEPT ![q] = Idle]
    /\ Quiet /\ UNCHANGED <<table, url, listeners, history>>

\* The client hangs up after the commit.
Drop(q) ==
    /\ req[q].at \in {"read", "store", "notify"}
    /\ Fault
    /\ doubt' = (doubt \/ Refreshing(q))
    /\ missed' = (missed \/ req[q].op # "set_primary")
    /\ req' = [req EXCEPT ![q] = Idle]
    /\ UNCHANGED <<table, url, permit, listeners>>

-----------------------------------------------------------------------------
(***************************************************************************)
(* The TLS task                                                            *)
(***************************************************************************)
\* Mutant: the URL is read before the loop.
UrlOnce == IF loop.url = None THEN url ELSE loop.url
UrlNow == url

ReadUrl ==
    /\ loop.at = "url"
    /\ loop' = [loop EXCEPT !.at = "domains", !.url = UrlNow, !.sure = ~doubt]
    /\ missed' = FALSE
    /\ Quiet /\ UNCHANGED <<table, url, req, permit, port, held, doubt>>

\* allowlist: a read that fails is taken for no domain.
ReadDomains ==
    /\ loop.at = "domains"
    /\ \/ /\ Quiet /\ UNCHANGED missed
          /\ loop' = [loop EXCEPT !.at = IF Known = {} THEN "bind" ELSE "acme", !.domains = Known]
          /\ port' = IF Known = {} THEN "none" ELSE "bind"
       \/ /\ Fault /\ missed' = TRUE
          /\ loop' = [loop EXCEPT !.at = "bind", !.domains = {}] /\ port' = "none"
    /\ UNCHANGED <<table, url, req, permit, held, doubt>>

\* serve_http: the server ends when :80 is taken.
BindHttp ==
    /\ loop.at = "bind"
    /\ loop' = [loop EXCEPT !.at = IF held THEN "down" ELSE "http"]
    /\ Quiet /\ UNCHANGED <<table, url, req, permit, port, held, history>>

\* The redirector gives up when :80 is taken.
BindRedirect ==
    /\ port = "bind"
    /\ port' = IF held THEN "failed" ELSE "serving"
    /\ Quiet /\ UNCHANGED <<table, url, req, permit, loop, held, history>>

\* run_acme reads the contact, or goes on with the configured one when the read fails,
\* and binds :443, or fails and is tried again later.
StartAcme ==
    /\ loop.at = "acme"
    /\ \/ Quiet /\ loop' = [loop EXCEPT !.at = "tls", !.email = EffectiveContact] /\ UNCHANGED missed
       \/ Fault /\ loop' = [loop EXCEPT !.at = "tls", !.email = Contact] /\ missed' = TRUE
       \/ Fault /\ loop' = [loop EXCEPT !.at = "sleep"] /\ UNCHANGED missed
    /\ UNCHANGED <<table, url, req, permit, port, held, doubt>>

AcmeFails ==
    /\ loop.at = "tls"
    /\ Fault /\ loop' = [loop EXCEPT !.at = "sleep"]
    /\ UNCHANGED <<table, url, req, permit, port, held, history>>

\* The round ends: the redirector is aborted, but not waited for.
NextRound == loop' = [loop EXCEPT !.at = "url"]
Abort ==
    /\ port' = "none"
    /\ held' = (held \/ port = "serving")

Reload ==
    /\ Waiting /\ permit
    /\ permit' = FALSE
    /\ NextRound
    /\ IF loop.at = "http" THEN UNCHANGED <<port, held>> ELSE Abort
    /\ Quiet /\ UNCHANGED <<table, url, req, history>>

Retry ==
    /\ loop.at = "sleep"
    /\ NextRound /\ Abort
    /\ Quiet /\ UNCHANGED <<table, url, req, permit, history>>

\* The runtime drops the aborted redirector, and its listener with it.
Release ==
    /\ held /\ held' = FALSE
    /\ Quiet /\ UNCHANGED <<table, url, req, permit, loop, port, history>>

\* A start takes the URL that the table gives, and none when the read fails.
StartUrls == {[url |-> Effective, failed |-> FALSE]} \cup
             (IF Configured = None THEN {[url |-> None, failed |-> TRUE]} ELSE {})

\* The process ends, and starts again.
Restart ==
    /\ Fault
    /\ \E start \in StartUrls : url' = start.url /\ doubt' = start.failed
    /\ req' = [q \in Requests |-> Idle]
    /\ permit' = FALSE /\ loop' = NewLoop /\ port' = "none" /\ held' = FALSE
    /\ missed' = FALSE
    /\ UNCHANGED table

-----------------------------------------------------------------------------
\* The server starts with no domain, or with some.
Init ==
    /\ domains \in {<<>>, Earlier} /\ primary \in Known \cup {None}
    /\ email \in Emails \cup {None}
    /\ \E start \in StartUrls : url = start.url /\ doubt = start.failed
    /\ req = [q \in Requests |-> Idle]
    /\ permit = FALSE /\ loop = NewLoop /\ port = "none" /\ held = FALSE
    /\ missed = FALSE /\ calls = 0 /\ faults = 0

Finish(q) == Add(q) \/ ReadPrimary(q) \/ StoreUrl(q) \/ Notify(q)
Handle(q) ==
    \/ \E d \in Names : StartAdd(q, d) \/ Delete(q, d) \/ SetPrimary(q, d)
    \/ \E e \in Emails \cup {None} : SetContact(q, e)
    \/ Finish(q) \/ Drop(q)
Serve ==
    ReadUrl \/ ReadDomains \/ BindHttp \/ BindRedirect \/ StartAcme \/ Reload \/ Retry \/ Release

Next == Serve \/ AcmeFails \/ Restart \/ \E q \in Requests : Handle(q)

Spec == Init /\ [][Next]_vars

\* Handlers and the TLS task go on while they can: SQLite answers, a sleep ends, and
\* the runtime gets to the tasks it has been given.
FairSpec == Spec /\ WF_vars(Serve) /\ \A q \in Requests : WF_vars(Finish(q))

-----------------------------------------------------------------------------
(***************************************************************************)
(* Properties                                                              *)
(***************************************************************************)
TypeOK ==
    /\ domains \in Seq(Names) /\ IsInjective(domains)
    /\ primary \in Known \cup {None} /\ email \in Emails \cup {None}
    /\ url \in Names \cup {None} /\ req \in [Requests -> Request]
    /\ \A q \in Requests : req[q].at = "commit" => req[q].name \in Names
    /\ permit \in BOOLEAN /\ held \in BOOLEAN
    /\ loop \in [at : {"url", "domains", "bind", "http", "acme", "tls", "sleep", "down"},
                 url : Names \cup {None}, domains : SUBSET Names, email : Emails \cup {None},
                 sure : BOOLEAN]
    /\ port \in {"none", "bind", "serving", "failed"}
    /\ doubt \in BOOLEAN /\ missed \in BOOLEAN /\ calls \in 0..MaxCalls /\ faults \in 0..MaxFaults

\* The public URL, which tokens and challenges name, is the one the table gives
\* whenever no change is half-way, unless the last two overlapped, or a step of the
\* last one or the read at the last start failed (api/mod.rs add_domain, "the effective
\* public URL reflects the new primary domain before any subsequent request observes it").
UrlFollows == (\A q \in Requests : ~Refreshing(q)) /\ ~doubt => url = Effective

\* When nothing is left to do the redirector sends clients to a domain that has a
\* certificate, or to the host they asked for, also after the primary domain was
\* changed, which wakes nobody, and its predecessor deleted.  There are two exceptions:
\* the task missed something in this round, or (loop.sure) the URL it read was left by
\* refreshes that overlapped or failed.  refresh_public_url reads and stores without a
\* lock: a set_primary may read its domain, a delete of it commit and store, and the
\* stale URL be stored last; the redirector then sends clients to the deleted domain
\* until a later change wakes the task.
Settled ==
    /\ loop.at = "tls" /\ ~permit
    /\ \A q \in Requests : req[q].at \in {"idle", "commit"}
RedirectsHome ==
    Settled /\ loop.sure /\ ~missed /\ Configured = None => loop.url \in loop.domains \cup {None}

\* The listeners follow the table in the end: no change is lost between rounds of the
\* task, however it falls into them (state.rs, "Notified when the custom-domain set
\* changes, so the TLS task reloads").  The exceptions: in its last round the task was
\* not told of a change, or could not read the domains or the contact and went on
\* without them; the aborted redirector of the round before still held :80, and so the
\* new one gave up (the port stays dark until the next round), or the plain server for
\* no domain ended the whole process with an error (tls.rs serve, "return res").
Current ==
    /\ loop.domains = Known
    /\ loop.at = "http" \/ (loop.at = "tls" /\ loop.email = EffectiveContact /\ port = "serving")
TlsFollows == <>[](Current \/ missed \/ port = "failed" \/ loop.at = "down")
=============================================================================
