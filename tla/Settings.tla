------------------------------ MODULE Settings ------------------------------
(***************************************************************************)
(* The settings an administrator saves (src/src/db/settings.rs, and the    *)
(* handlers of src/src/api/mod.rs), and what depends on them: the storage  *)
(* client that is in use (src/src/state.rs) and sign-in through Google     *)
(* (src/src/auth/oauth.rs), which makes accounts.                          *)
(*                                                                         *)
(* The settings are rows of their own: an update saves them one by one,    *)
(* and a reader reads them one by one, in steps that interleave.           *)
(***************************************************************************)
EXTENDS Naturals, Sequences, FiniteSets, SequencesExt

CONSTANTS
    StorageKeys, \* the storage settings, in the order in which they are saved and read
    Values,      \* their values
    Base,        \* their values in the configuration
    Emails,      \* Google accounts
    Domains,     \* email domains
    DomainsOf,   \* an account's email domain and hosted domain
    Requests,    \* concurrent handlers
    None,        \* no saved setting, no allowed domain
    MaxCalls,    \* bound: calls in one behaviour
    MaxFaults    \* bound: failures in one behaviour

ASSUME KeysAssumption == StorageKeys \in Seq(Range(StorageKeys)) /\ StorageKeys # <<>>
ASSUME ValuesAssumption == None \notin Values \cup Domains \cup Emails /\ Base \in Values
ASSUME EmailsAssumption == DomainsOf \in [Emails -> SUBSET Domains]
ASSUME BoundsAssumption == MaxCalls \in Nat /\ MaxFaults \in Nat

VARIABLES
    saved,    \* the storage rows of the settings table
    client,   \* the settings the storage client in use was built from
    google,   \* the rows oauth_google_enabled, _client_id and _allowed_domain
    accounts, \* the users table
    req,      \* the handlers in progress
    apart,    \* history: the last storage updates overlapped, or one failed
    calls, faults

tables == <<saved, google, accounts>>
bounds == <<calls, faults>>
vars == <<tables, client, req, apart, bounds>>

Keys == Range(StorageKeys)
\* Of a client id it only matters here whether it is set.
Google == [enabled : BOOLEAN, client : BOOLEAN, domain : Domains \cup {None}]
OAuthChange == {given \in
    [enabled : SUBSET BOOLEAN, client : SUBSET BOOLEAN, domain : SUBSET (Domains \cup {None})] :
        \A row \in DOMAIN given : Cardinality(given[row]) <= 1}
Change(K, V) == UNION {[given -> V] : given \in SUBSET K}
Idle == [op |-> "none"]

\* effective_storage: what was saved, over the configuration.
Effective(k) == IF saved[k] = None THEN Base ELSE saved[k]
EffectiveStorage == [k \in Keys |-> Effective(k)]

Begin(q) == req[q] = Idle /\ calls < MaxCalls /\ calls' = calls + 1 /\ UNCHANGED faults
Quiet == UNCHANGED bounds
Is(q, op, at) == req[q].op = op /\ req[q].at = at
Return(q) == req' = [req EXCEPT ![q] = Idle]

-----------------------------------------------------------------------------
(***************************************************************************)
(* update_storage_settings                                                 *)
(***************************************************************************)
Updating(q) == req[q].op = "storage"

\* A request gives some of the settings.  It and those it overlaps are not alone.
StartStorage(q) ==
    /\ Begin(q)
    /\ \E given \in Change(Keys, Values) :
        req' = [r \in Requests |->
            IF r = q THEN [op |-> "storage", at |-> "save", given |-> given, next |-> 1,
                           read |-> [k \in Keys |-> Base], alone |-> ~\E x \in Requests : Updating(x)]
            ELSE IF Updating(r) THEN [req[r] EXCEPT !.alone = FALSE] ELSE req[r]]
    /\ UNCHANGED <<tables, client, apart>>

Passed(q, at) ==
    LET r == req[q] IN
    req' = [req EXCEPT ![q] = IF r.next < Len(StorageKeys) THEN [r EXCEPT !.next = r.next + 1]
                              ELSE [r EXCEPT !.next = 1, !.at = at]]

SaveSetting(q) ==
    LET k == StorageKeys[req[q].next] IN
    /\ Is(q, "storage", "save")
    /\ saved' = IF k \in DOMAIN req[q].given THEN [saved EXCEPT ![k] = req[q].given[k]] ELSE saved
    /\ Passed(q, "read")
    /\ Quiet /\ UNCHANGED <<google, accounts, client, apart>>

\* Mutant: the client is built from the request, over the configuration.
GivenSetting(q, k) == IF k \in DOMAIN req[q].given THEN req[q].given[k] ELSE Base
ReadSetting(q, k) == IF Updating(q) THEN Effective(k) ELSE Base

ReadBack(q) ==
    LET k == StorageKeys[req[q].next]
        last == req[q].next = Len(StorageKeys)
    IN
    /\ Is(q, "storage", "read")
    /\ req' = [req EXCEPT ![q].read[k] = ReadSetting(q, k), ![q].next = IF last THEN 1 ELSE @ + 1,
                          ![q].at = IF last THEN "swap" ELSE @]
    /\ Quiet /\ UNCHANGED <<tables, client, apart>>

\* set_storage: requests that hold the old client go on with it.
SetStorage(q) ==
    /\ Is(q, "storage", "swap")
    /\ client' = req[q].read
    /\ apart' = ~req[q].alone
    /\ Return(q)
    /\ Quiet /\ UNCHANGED tables

-----------------------------------------------------------------------------
(***************************************************************************)
(* update_oauth_settings, and sign-in through Google                       *)
(***************************************************************************)
SigningIn(r) == req[r].op = "sign_in"

StartOAuth(q) ==
    /\ Begin(q)
    /\ \E given \in OAuthChange :
        req' = [req EXCEPT ![q] = [op |-> "oauth", at |-> "enabled", given |-> given]]
    /\ UNCHANGED <<tables, client, apart>>

\* The rows that are given are saved one after the other: the switch, the client,
\* (its secret,) the domain.  A sign-in in progress keeps a history of the settings.
SaveOAuth(q) ==
    LET r == req[q] IN
    /\ r.op = "oauth"
    /\ google' = IF r.given[r.at] = {} THEN google
                 ELSE [google EXCEPT ![r.at] = CHOOSE v \in r.given[r.at] : TRUE]
    /\ req' = [x \in Requests |->
                IF x = q THEN CASE r.at = "enabled" -> [r EXCEPT !.at = "client"]
                                [] r.at = "client" -> [r EXCEPT !.at = "domain"]
                                [] OTHER -> Idle
                ELSE IF SigningIn(x) THEN [req[x] EXCEPT !.moments = Append(@, google')]
                ELSE req[x]]
    /\ Quiet /\ UNCHANGED <<saved, accounts, client, apart>>

\* google_callback: the settings are loaded again.
StartSignIn(q) ==
    /\ Begin(q)
    /\ req' = [req EXCEPT ![q] =
            [op |-> "sign_in", at |-> "enabled", enabled |-> FALSE, client |-> FALSE,
             domain |-> None, email |-> None, name |-> 0, moments |-> <<google>>]]
    /\ UNCHANGED <<tables, client, apart>>

\* oauth::load: a query for each row.
LoadEnabled(q) ==
    /\ Is(q, "sign_in", "enabled")
    /\ req' = [req EXCEPT ![q].at = "client", ![q].enabled = google.enabled]
    /\ Quiet /\ UNCHANGED <<tables, client, apart>>

LoadClient(q) ==
    /\ Is(q, "sign_in", "client")
    /\ req' = [req EXCEPT ![q].at = "domain", ![q].client = google.client]
    /\ Quiet /\ UNCHANGED <<tables, client, apart>>

IsActive(q) == req[q].enabled /\ req[q].client

LoadDomain(q) ==
    /\ Is(q, "sign_in", "domain")
    /\ IF IsActive(q)
       THEN req' = [req EXCEPT ![q].at = "exchange", ![q].domain = google.domain]
       ELSE Return(q)
    /\ Quiet /\ UNCHANGED <<tables, client, apart>>

\* Mutant: the domain is not asked for.
AnyDomain(q, e) == TRUE
DomainAccepted(q, e) == req[q].domain = None \/ req[q].domain \in DomainsOf[e]

\* exchange_code: Google tells whose verified email it is.
Exchange(q, e) ==
    /\ Is(q, "sign_in", "exchange")
    /\ IF DomainAccepted(q, e) THEN req' = [req EXCEPT ![q].at = "find", ![q].email = e]
       ELSE Return(q)
    /\ Quiet /\ UNCHANGED <<tables, client, apart>>

Known(e) == \E a \in accounts : a.email = e
Taken(n) == \E a \in accounts : a.name = n

\* An account that exists is signed in, without a domain no other is made.
FindUser(q) ==
    /\ Is(q, "sign_in", "find")
    /\ IF Known(req[q].email) \/ req[q].domain = None THEN Return(q)
       ELSE req' = [req EXCEPT ![q].at = "name"]
    /\ Quiet /\ UNCHANGED <<tables, client, apart>>

\* unique_username tries one name after the other, one query each; everybody here
\* goes by the same name, to which the number is appended.
UniqueName(q) ==
    /\ Is(q, "sign_in", "name")
    /\ req' = IF Taken(req[q].name) THEN [req EXCEPT ![q].name = @ + 1]
              ELSE [req EXCEPT ![q].at = "create"]
    /\ Quiet /\ UNCHANGED <<tables, client, apart>>

\* Email and name are unique: the insert of a sign-in that lost the race fails.
CreateUser(q) ==
    /\ Is(q, "sign_in", "create")
    /\ accounts' = IF Known(req[q].email) \/ Taken(req[q].name) THEN accounts
                   ELSE accounts \cup {[email |-> req[q].email, name |-> req[q].name]}
    /\ Return(q)
    /\ Quiet /\ UNCHANGED <<saved, google, client, apart>>

-----------------------------------------------------------------------------
\* A statement fails, or the client hangs up: what has been saved stays.
Fail(q) ==
    /\ req[q] # Idle /\ faults < MaxFaults
    /\ faults' = faults + 1 /\ UNCHANGED calls
    /\ apart' = (apart \/ Updating(q))
    /\ Return(q)
    /\ UNCHANGED <<tables, client>>

\* The process ends, and builds its client from the table.
Restart ==
    /\ faults < MaxFaults
    /\ faults' = faults + 1 /\ UNCHANGED calls
    /\ req' = [q \in Requests |-> Idle]
    /\ client' = EffectiveStorage /\ apart' = FALSE
    /\ UNCHANGED tables

Init ==
    /\ saved = [k \in Keys |-> None] /\ client = EffectiveStorage
    /\ google \in Google /\ accounts = {}
    /\ req = [q \in Requests |-> Idle] /\ apart = FALSE /\ calls = 0 /\ faults = 0

UpdateStorage(q) == StartStorage(q) \/ SaveSetting(q) \/ ReadBack(q) \/ SetStorage(q)
SignIn(q) ==
    \/ StartSignIn(q) \/ LoadEnabled(q) \/ LoadClient(q) \/ LoadDomain(q) \/ \E e \in Emails : Exchange(q, e)
    \/ FindUser(q) \/ UniqueName(q) \/ CreateUser(q)

Next ==
    \/ \E q \in Requests :
        UpdateStorage(q) \/ StartOAuth(q) \/ SaveOAuth(q) \/ SignIn(q) \/ Fail(q)
    \/ Restart

Spec == Init /\ [][Next]_vars

-----------------------------------------------------------------------------
(***************************************************************************)
(* Properties                                                              *)
(***************************************************************************)
StorageUpdate == [op : {"storage"}, at : {"save", "read", "swap"}, given : Change(Keys, Values),
    next : DOMAIN StorageKeys, read : [Keys -> Values], alone : BOOLEAN]
OAuthUpdate == [op : {"oauth"}, at : {"enabled", "client", "domain"}, given : OAuthChange]
SignInRequest == [op : {"sign_in"},
    at : {"enabled", "client", "domain", "exchange", "find", "name", "create"},
    enabled : BOOLEAN, client : BOOLEAN, domain : Domains \cup {None},
    email : Emails \cup {None}, name : Nat, moments : Seq(Google)]
TypeOK ==
    /\ saved \in [Keys -> Values \cup {None}] /\ client \in [Keys -> Values]
    /\ google \in Google /\ accounts \in SUBSET [email : Emails, name : Nat]
    /\ req \in [Requests -> {Idle} \cup StorageUpdate \cup OAuthUpdate \cup SignInRequest]
    /\ apart \in BOOLEAN /\ calls \in 0..MaxCalls /\ faults \in 0..MaxFaults

\* The storage client in use is the one the saved settings describe, and a restart
\* would change nothing, unless an update is in progress, has overlapped another or
\* was cut off half-way; the next update that runs alone makes up for those, whatever
\* it changes (update_storage_settings, "hot-swap the storage client so changes take
\* effect immediately").
ClientFollows == (\A q \in Requests : ~Updating(q)) /\ ~apart => client = EffectiveStorage

\* The settings that a sign-in acts on held one after the other, while it went on: it
\* was switched on, from then on or later it had a client, and from then on or later
\* the domain was allowed.
AllowedInOrder(moments, e) ==
    \E i, j, k \in DOMAIN moments :
        /\ i <= j /\ j <= k
        /\ moments[i].enabled /\ moments[j].client /\ moments[k].domain \in DomainsOf[e]

\* An account is made only for someone from a domain the settings allow
\* (google_callback_inner, "otherwise unknown emails are rejected").  When they are
\* not saved while the sign-in loads them, that is: at that time Google sign-in was
\* on, with a client, and the domain was allowed.  When they are, each of the three
\* held at some moment of the sign-in, in the order in which it reads the rows, and
\* all three together may have held at none.
AccountsAllowed == \A q \in Requests :
    Is(q, "sign_in", "create") => AllowedInOrder(req[q].moments, req[q].email)
=============================================================================
