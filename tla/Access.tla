------------------------------- MODULE Access -------------------------------
(***************************************************************************)
(* Who may do what to the repositories of one organization: its members,   *)
(* teams and grants (src/src/db/orgs.rs), personal access tokens           *)
(* (src/src/db/users.rs), the bearer tokens issued from them               *)
(* (src/src/auth/rbac.rs, src/src/registry/mod.rs), the registry requests  *)
(* that carry one, and the administration API that changes all of it       *)
(* (src/src/api/mod.rs), down to the first-run setup.                      *)
(*                                                                         *)
(* A repository has a name, which requests and tokens use, and the id of   *)
(* its row, which grants and scopes use: a name that is deleted and        *)
(* created again has another id.  A statement is a step; what a handler    *)
(* has read may be stale at its next.  A request that its first look       *)
(* refuses changes nothing, and is left out.  Roles are 0 (no member) to   *)
(* 3, and permissions 0 (none) to 3, as models.rs orders them.             *)
(***************************************************************************)
EXTENDS Integers, FiniteSets, FiniteSetsExt

CONSTANTS
    Users, Teams, Names, RepoIds, Pats,
    Requests,  \* concurrent requests
    None,      \* nothing found, nothing set
    Ops,       \* the operations clients call in the instance
    Asked,     \* bound: the roles, grants and caps that clients ask for
    PullLimit, \* permits of PULL_COUNTER_LIMIT
    MaxCalls,  \* bound: requests in one behaviour
    MaxMore,   \* bound: changes beyond these while a token is asked for
    MaxFaults  \* bound: failures in one behaviour

ASSUME NamesAssumption == None \notin Users \cup Teams \cup Names \cup RepoIds \cup Pats
ASSUME BoundsAssumption == PullLimit \in Nat /\ MaxCalls \in Nat /\ MaxMore \in Nat /\ MaxFaults \in Nat /\ Asked \subseteq 1..3

Levels == 0..3
Pull == 1
Push == 2
Admin == 3         \* Permission::Admin
RoleMember == 1
RoleAdmin == 2
RoleOwner == 3

VARIABLES
    users,     \* users table
    org,       \* whether the organization's row is there
    mirror,    \* whether it has an upstream
    role,      \* org_members, 0 without a row
    inTeam,    \* team_members
    grant,     \* team_repo_perms, 0 without a row
    nameOf,    \* repositories: the name of a row, None when there is no such row
    image,     \* the repositories that have a manifest
    pats,      \* personal_access_tokens
    pulls,     \* image_pulls of a name
    bumps,     \* spawned counter writes of a name, not yet made
    tokens,    \* bearer tokens that have not expired
    req,       \* the requests in progress
    used,      \* ids given out so far
    made,      \* history: the scope each token was created with
    founders,  \* history: the users setup has made
    seen,      \* history: what the user of a token request could do, at each moment of it
    unfounded, \* history: tokens that granted more
    strayed,   \* history: tokens for a name that was never the repository of the scope
    counted,   \* history: pulls of the repository that a name stands for
    late,      \* history: pulls before a deletion that are counted after it
    calls, faults

counters == <<pulls, bumps, counted, late>>
people == <<users, org, mirror, founders>>
members == <<role, inTeam, grant>>
rows == <<nameOf, image, used, pats, made>>
issued == <<tokens, unfounded, strayed>>
bounds == <<calls, faults>>
vars == <<people, members, rows, counters, issued, req, seen, bounds>>

\* A scope as the row holds it.
Scope == [kind : {"all", "org", "repo"}, repo : RepoIds \cup {None}]
Pat == [user : Users, scope : Scope, cap : 1..3]
Stages == {"idle", "first", "org", "owner", "write", "repo", "insert",
    "refind", "pulls", "row", "store", "role", "team", "issue", "mirror", "manifest",
    "erase", "serve", "retry", "spawn"}
AllOps == {"none", "setup", "found", "member", "remove", "join", "leave", "perm", "create", "drop",
    "pat", "token", "pull", "push", "delete"}
Request == [op : AllOps, at : Stages, by : Users \cup {None}, to : Users \cup {None},
    team : Teams \cup {None}, name : Names \cup {None}, id : RepoIds \cup {None}, level : Levels,
    scope : Scope]
Everything == [kind |-> "all", repo |-> None]
NoRequest == [op |-> "none", at |-> "idle", by |-> None, to |-> None, team |-> None,
    name |-> None, id |-> None, level |-> 0, scope |-> Everything]

-----------------------------------------------------------------------------
(***************************************************************************)
(* What the tables say                                                     *)
(***************************************************************************)
\* find_repo
Find(n) == IF \E i \in RepoIds : nameOf[i] = n THEN CHOOSE i \in RepoIds : nameOf[i] = n ELSE None

\* The highest grant of the teams of a member.
TeamGrant(u, i) ==
    IF i = None THEN 0 ELSE Max({0} \cup {grant[t][i] : t \in {x \in Teams : u \in inTeam[x]}})

\* What a role and a team grant allow: administrators everything, but no more
\* than a push where nothing exists yet; members what their teams may.
Capability(r, team, exists) ==
    CASE r >= RoleAdmin -> IF exists THEN Admin ELSE Push
      [] r = RoleMember /\ exists -> team
      [] OTHER -> 0

Least(a, b) == IF a <= b THEN a ELSE b

\* user_for_pat: a repository scope without a repository would be no scope.
Resolved(scope) == IF scope.kind = "repo" /\ scope.repo = None THEN Everything ELSE scope

\* grant_repository: whether the scope allows the repository found.
InScope(scope, i) == scope.kind = "repo" => i # None /\ scope.repo = i

-----------------------------------------------------------------------------
(***************************************************************************)
(* Requests                                                                *)
(***************************************************************************)
At(q, stage) == req[q].at = stage
Goto(q, stage) == req' = [req EXCEPT ![q].at = stage]
Done(q) == req' = [req EXCEPT ![q] = NoRequest]
Fault == faults < MaxFaults /\ faults' = faults + 1 /\ UNCHANGED calls
Quiet == UNCHANGED bounds

\* What a token request would find now.
Current(q) ==
    LET i == Find(req[q].name)
    IN  [role |-> role[req[q].by], team |-> TeamGrant(req[q].by, i), id |-> i]
\* A part of every step: seen follows what the token requests could find.
Watch == seen' = [q \in Requests |-> IF req'[q].op # "token" THEN {} ELSE seen[q] \cup {Current(q)'}]

\* What changes the rights of a user.
Changes == {"member", "remove", "join", "leave", "perm", "create", "drop"}
CallsAllowed(op) ==
    IF op \in Changes /\ \E x \in Requests : req[x].op = "token" THEN MaxCalls + MaxMore ELSE MaxCalls

Begin(q, r) ==
    /\ At(q, "idle") /\ r.op \in Ops
    /\ calls < CallsAllowed(r.op) /\ calls' = calls + 1 /\ UNCHANGED faults
    /\ req' = [req EXCEPT ![q] = r]
    /\ UNCHANGED <<people, members, rows, counters, issued>> /\ Watch

Ask(op, at) == [NoRequest EXCEPT !.op = op, !.at = at]

\* A handler ends early, where it leaves something behind: its statement fails,
\* or its client hangs up.
Fail(q) ==
    /\ req[q].at \in {"org", "owner", "row", "manifest"}
    /\ Fault
    /\ Done(q)
    /\ UNCHANGED <<people, members, rows, counters, issued>> /\ Watch

-----------------------------------------------------------------------------
(***************************************************************************)
(* The first run, and new organizations                                    *)
(***************************************************************************)
\* setup looks whether there are users, and create_first_admin looks again.
StartSetup(q) == users = {} /\ \E u \in Users : Begin(q, [Ask("setup", "first") EXCEPT !.by = u])

\* Mutant: the insert has no guard of its own.
FirstAdminUnguarded(q) == At(q, "first") /\ req[q].by \notin users
FirstAdmin(q) == At(q, "first") /\ users = {}

CreateFirstAdmin(q) ==
    /\ FirstAdmin(q)
    /\ users' = users \cup {req[q].by} /\ founders' = founders \cup {req[q].by}
    /\ Goto(q, "org")
    /\ Quiet /\ UNCHANGED <<org, mirror, members, rows, counters, issued>> /\ Watch

SetupTaken(q) ==
    /\ At(q, "first") /\ ~FirstAdmin(q)
    /\ Done(q)
    /\ Quiet /\ UNCHANGED <<people, members, rows, counters, issued>> /\ Watch

\* create_org looks for the slug, which the insert finds out again.
StartFound(q) == ~org /\ \E u \in users : Begin(q, [Ask("found", "org") EXCEPT !.by = u])

\* create_org: the slug is unique, so the second insert fails.
CreateOrg(q) ==
    /\ At(q, "org")
    /\ org' = TRUE
    /\ IF org THEN Done(q) ELSE Goto(q, "owner")
    /\ Quiet /\ UNCHANGED <<users, mirror, founders, members, rows, counters, issued>> /\ Watch

AddOwner(q) ==
    /\ At(q, "owner")
    /\ role' = [role EXCEPT ![req[q].by] = RoleOwner]
    /\ Done(q)
    /\ Quiet /\ UNCHANGED <<people, inTeam, grant, rows, counters, issued>> /\ Watch

\* create_user, by an administrator of the instance or the command line.
CreateUser(u) ==
    /\ "setup" \in Ops /\ users # {} /\ u \notin users
    /\ users' = users \cup {u}
    /\ Quiet /\ UNCHANGED <<org, mirror, founders, members, rows, counters, issued, req>> /\ Watch

\* `ruskery admin set-upstream`, in a process of its own.
SetUpstream ==
    /\ "push" \in Ops /\ org
    /\ calls < MaxCalls /\ calls' = calls + 1 /\ UNCHANGED faults
    /\ mirror' = ~mirror
    /\ UNCHANGED <<users, org, founders, members, rows, counters, issued, req>> /\ Watch

-----------------------------------------------------------------------------
(***************************************************************************)
(* Members, teams and grants, by an administrator                          *)
(***************************************************************************)
\* admin_of, the first look of each of these.
AdminOf(u) == org /\ role[u] >= RoleAdmin

StartMember(q) == \E u, v \in users, l \in Asked :
    AdminOf(u) /\ Begin(q, [Ask("member", "write") EXCEPT !.by = u, !.to = v, !.level = l])
StartRemove(q) == \E u, v \in users :
    AdminOf(u) /\ Begin(q, [Ask("remove", "write") EXCEPT !.by = u, !.to = v])
StartTeam(q) == \E u, v \in users, t \in Teams, op \in {"join", "leave"} :
    AdminOf(u) /\ Begin(q, [Ask(op, "write") EXCEPT !.by = u, !.to = v, !.team = t])
StartPerm(q) == \E u \in users, t \in Teams, n \in Names, l \in Asked :
    AdminOf(u) /\ Begin(q, [Ask("perm", "repo") EXCEPT !.by = u, !.team = t, !.name = n, !.level = l])

SetMember(q) ==
    /\ At(q, "write") /\ req[q].op = "member"
    /\ role' = [role EXCEPT ![req[q].to] = req[q].level]
    /\ Done(q)
    /\ Quiet /\ UNCHANGED <<people, inTeam, grant, rows, counters, issued>> /\ Watch

\* The rows of the teams stay.
RemoveMember(q) ==
    /\ At(q, "write") /\ req[q].op = "remove"
    /\ role' = [role EXCEPT ![req[q].to] = 0]
    /\ Done(q)
    /\ Quiet /\ UNCHANGED <<people, inTeam, grant, rows, counters, issued>> /\ Watch

SetTeam(q) ==
    /\ At(q, "write") /\ req[q].op \in {"join", "leave"}
    /\ inTeam' = [inTeam EXCEPT ![req[q].team] =
            IF req[q].op = "join" THEN @ \cup {req[q].to} ELSE @ \ {req[q].to}]
    /\ Done(q)
    /\ Quiet /\ UNCHANGED <<people, role, grant, rows, counters, issued>> /\ Watch

\* The grant refers to the row that was found: none is written if it is gone.
SetTeamPerm(q) ==
    /\ At(q, "write") /\ req[q].op = "perm"
    /\ grant' = IF nameOf[req[q].id] = None THEN grant
                ELSE [grant EXCEPT ![req[q].team][req[q].id] = req[q].level]
    /\ Done(q)
    /\ Quiet /\ UNCHANGED <<people, role, inTeam, rows, counters, issued>> /\ Watch

-----------------------------------------------------------------------------
(***************************************************************************)
(* Repositories                                                            *)
(***************************************************************************)
StartCreate(q) == \E u \in users, n \in Names :
    AdminOf(u) /\ Begin(q, [Ask("create", "repo") EXCEPT !.by = u, !.name = n])
StartDrop(q) == \E u \in users, n \in Names :
    AdminOf(u) /\ Begin(q, [Ask("drop", "pulls") EXCEPT !.by = u, !.name = n])

\* Where each handler goes on after find_repo.
Found(op) == CASE op = "perm" -> "write" [] op = "pat" -> "store" [] op = "push" -> "manifest"
               [] op = "delete" -> "erase" [] op = "pull" -> "serve"
\* A mirror makes the repository of what its upstream has.
FromUpstream(q) == req[q].op = "pull" /\ mirror

FindRepo(q) ==
    LET i == Find(req[q].name) IN
    /\ At(q, "repo") /\ req[q].op # "token"
    /\ IF i # None /\ req[q].op # "create"
       THEN req' = [req EXCEPT ![q].id = i, ![q].at = Found(req[q].op)]
       ELSE \/ i = None /\ (req[q].op \in {"create", "push"} \/ FromUpstream(q)) /\ Goto(q, "insert")
            \/ (i # None \/ req[q].op \notin {"create", "push"}) /\ Done(q)
    /\ Quiet /\ UNCHANGED <<people, members, rows, counters, issued>> /\ Watch

\* The names are unique.
Insertable(n) == Find(n) = None

\* create_repo: insert, or find the row that another request has inserted.
InsertRepo(q) ==
    LET n == req[q].name IN
    /\ At(q, "insert")
    /\ \/ /\ Insertable(n)
          /\ \E i \in RepoIds \ used :
                /\ nameOf' = [nameOf EXCEPT ![i] = n] /\ used' = used \cup {i}
                /\ req' = [req EXCEPT ![q] = IF @.op = "create" THEN NoRequest
                                             ELSE [@ EXCEPT !.id = i, !.at = "manifest"]]
       \/ ~Insertable(n) /\ Goto(q, "refind") /\ UNCHANGED <<nameOf, used>>
    /\ Quiet /\ UNCHANGED <<people, members, image, pats, made, counters, issued>> /\ Watch

Refind(q) ==
    LET i == Find(req[q].name) IN
    /\ At(q, "refind")
    /\ req' = [req EXCEPT ![q] = IF i = None \/ @.op = "create" THEN NoRequest
                                 ELSE [@ EXCEPT !.id = i, !.at = "manifest"]]
    /\ Quiet /\ UNCHANGED <<people, members, rows, counters, issued>> /\ Watch

\* Mutant: the counters of the name stay.
KeptPulls(n) == pulls[n]
LeftPulls(n) == 0

\* delete_repo: first the counters of the name, then the row, in two statements.
DropPulls(q) ==
    LET n == req[q].name IN
    /\ At(q, "pulls")
    /\ pulls' = [pulls EXCEPT ![n] = LeftPulls(n)]
    /\ late' = [late EXCEPT ![n] = bumps[n]]
    /\ Goto(q, "row")
    /\ Quiet /\ UNCHANGED <<people, members, rows, bumps, counted, issued>> /\ Watch

\* Mutant: the schema's ON DELETE CASCADE of a scope is SET NULL.
PatsUnscoped(i) == [p \in Pats |-> IF pats[p] # None /\ pats[p].scope.repo = i
                                   THEN [pats[p] EXCEPT !.scope.repo = None] ELSE pats[p]]
PatsWithout(i) == [p \in Pats |-> IF pats[p] # None /\ pats[p].scope.repo = i THEN None ELSE pats[p]]

\* With the row go its manifests, its grants and the tokens scoped to it.
DropRow(q) ==
    LET n == req[q].name
        i == Find(n)
    IN  /\ At(q, "row")
        /\ IF i = None THEN UNCHANGED <<nameOf, image, grant, pats, counted>>
           ELSE /\ nameOf' = [nameOf EXCEPT ![i] = None]
                /\ image' = image \ {i}
                /\ grant' = [t \in Teams |-> [grant[t] EXCEPT ![i] = 0]]
                /\ pats' = PatsWithout(i)
                /\ counted' = [counted EXCEPT ![n] = 0]
        /\ Done(q)
        /\ Quiet /\ UNCHANGED <<people, role, inTeam, used, made, pulls, bumps, late, issued>> /\ Watch

-----------------------------------------------------------------------------
(***************************************************************************)
(* Personal access tokens                                                  *)
(***************************************************************************)
\* member_of, for a token of an organization or a repository.
MemberOf(u) == org /\ role[u] # 0

StartPat(q) == \E u \in users, n \in Names, c \in Asked, kind \in {"all", "org", "repo"} :
    /\ kind = "all" \/ MemberOf(u)
    /\ Begin(q, [Ask("pat", IF kind = "repo" THEN "repo" ELSE "store") EXCEPT
            !.by = u, !.name = n, !.level = c, !.scope = [kind |-> kind, repo |-> None]])

\* The insert refers to the repository that was found, and fails if it is gone.
CreatePat(q) ==
    LET r == req[q]
        scope == IF r.scope.kind = "repo" THEN [r.scope EXCEPT !.repo = r.id] ELSE r.scope
    IN  /\ At(q, "store")
        /\ IF scope.repo # None /\ nameOf[scope.repo] = None THEN UNCHANGED <<pats, made>>
           ELSE \E p \in Pats :
                /\ made[p] = None
                /\ pats' = [pats EXCEPT ![p] = [user |-> r.by, scope |-> scope, cap |-> r.level]]
                /\ made' = [made EXCEPT ![p] = scope]
        /\ Done(q)
        /\ Quiet /\ UNCHANGED <<people, members, nameOf, image, used, counters, issued>> /\ Watch

DeletePat(p) ==
    /\ "pat" \in Ops /\ pats[p] # None
    /\ pats' = [pats EXCEPT ![p] = None]
    /\ Quiet /\ UNCHANGED <<people, members, nameOf, image, used, made, counters, issued, req>> /\ Watch

-----------------------------------------------------------------------------
(***************************************************************************)
(* Bearer tokens: token_endpoint and grant_repository                      *)
(***************************************************************************)
\* resolve_user: a password has every scope and no cap, a token its own.
Credentials ==
    {[by |-> u, scope |-> Everything, cap |-> Admin] : u \in users} \cup
    {[by |-> pats[p].user, scope |-> Resolved(pats[p].scope), cap |-> pats[p].cap] :
        p \in {x \in Pats : pats[x] # None}}

StartToken(q) == \E n \in Names, c \in Credentials :
    Begin(q, [Ask("token", "repo") EXCEPT !.by = c.by, !.name = n, !.level = c.cap, !.scope = c.scope])

TokenRepo(q) ==
    LET i == Find(req[q].name) IN
    /\ At(q, "repo") /\ req[q].op = "token"
    /\ IF ~org \/ ~InScope(req[q].scope, i) THEN Done(q)
       ELSE req' = [req EXCEPT ![q].id = i, ![q].at = "role"]
    /\ Quiet /\ UNCHANGED <<people, members, rows, counters, issued>> /\ Watch

\* Mutant: teams count whatever the role is.
RoleSettlesAdmin(r) == IF r >= RoleAdmin THEN "issue" ELSE "team"
\* repo_permission: only a member's teams are looked at.
RoleSettles(r) == IF r = RoleMember THEN "team" ELSE "issue"

\* The role is read, and settles the request unless it is a member's.
TokenRole(q) ==
    LET r == role[req[q].by]
        i == req[q].id
        next == IF i = None THEN "issue" ELSE RoleSettles(r)
    IN  /\ At(q, "role")
        /\ req' = [req EXCEPT ![q].at = next,
                    ![q].level = IF next = "issue" THEN Least(@, Capability(r, 0, i # None)) ELSE @]
        /\ Quiet /\ UNCHANGED <<people, members, rows, counters, issued>> /\ Watch

TokenTeam(q) ==
    /\ At(q, "team")
    /\ req' = [req EXCEPT ![q].at = "issue", ![q].level = Least(@, TeamGrant(req[q].by, req[q].id))]
    /\ Quiet /\ UNCHANGED <<people, members, rows, counters, issued>> /\ Watch

Allows(m) == Capability(m.role, m.team, m.id # None)
\* At one of the moments the user had all that it had at any other: not something
\* lost and something else gained between two of them.
Whole(moments) == \E m \in moments : \A n \in moments :
    n.role <= m.role /\ n.team <= m.team /\ (n.id # None => m.id # None)
\* A level that was allowed: at one moment, or, where no moment was whole, by a
\* role and a grant for a repository that were there at one moment each.
Founded(level, moments) ==
    IF Whole(moments) THEN \E m \in moments : level <= Allows(m)
    ELSE \E m, n, x \in moments : level <= Capability(m.role, n.team, x.id # None)

Issue(q) ==
    LET t == [user |-> req[q].by, name |-> req[q].name, level |-> req[q].level]
    IN  /\ At(q, "issue")
        /\ tokens' = IF t.level = 0 THEN tokens ELSE tokens \cup {t}
        /\ unfounded' = IF t.level = 0 \/ Founded(t.level, seen[q]) THEN unfounded ELSE unfounded \cup {t}
        /\ strayed' = IF t.level = 0 \/ \E m \in seen[q] : InScope(req[q].scope, m.id)
                      THEN strayed ELSE strayed \cup {t}
        /\ Done(q)
        /\ Quiet /\ UNCHANGED <<people, members, rows, counters>> /\ Watch

\* The time to live of a token has passed.
Expire(t) ==
    /\ t \in tokens
    /\ tokens' = tokens \ {t}
    /\ Quiet /\ UNCHANGED <<people, members, rows, counters, unfounded, strayed, req>> /\ Watch

-----------------------------------------------------------------------------
(***************************************************************************)
(* Registry requests: dispatch                                             *)
(***************************************************************************)
Needed(op) == CASE op = "pull" -> Pull [] op = "push" -> Push [] op = "delete" -> Admin
\* require: the token must grant the action on the name; nothing else is asked.
Grants(t, op) == t.level >= Needed(op)

StartDispatch(q) == \E t \in tokens, op \in {"pull", "push", "delete"} :
    /\ Grants(t, op)
    /\ Begin(q, [Ask(op, IF op = "push" THEN "mirror" ELSE "repo") EXCEPT !.by = t.user, !.name = t.name])

\* An organization with an upstream takes no pushes; a check that fails lets it.
CheckMirror(q) ==
    /\ At(q, "mirror")
    /\ \/ Quiet /\ IF mirror THEN Done(q) ELSE Goto(q, "repo")
       \/ Fault /\ Goto(q, "repo")
    /\ UNCHANGED <<people, members, rows, counters, issued>> /\ Watch

\* A manifest refers to its repository, and fails if that is gone.
PutManifest(q) ==
    LET r == req[q]
        lands == nameOf[r.id] # None
    IN  /\ At(q, "manifest")
        /\ image' = IF lands THEN image \cup {r.id} ELSE image
        /\ IF r.op = "pull" THEN Goto(q, "retry") ELSE Done(q)
        /\ Quiet /\ UNCHANGED <<people, members, nameOf, used, pats, made, counters, issued>> /\ Watch

DeleteManifest(q) ==
    /\ At(q, "erase")
    /\ image' = image \ {req[q].id}
    /\ Done(q)
    /\ Quiet /\ UNCHANGED <<people, members, nameOf, used, pats, made, counters, issued>> /\ Watch

Dropping(n) == \E q \in Requests : req[q].op = "drop" /\ At(q, "row") /\ req[q].name = n

\* serve_local reads the manifest, and once more after the upstream had it.
Serve(q) ==
    /\ req[q].at \in {"serve", "retry"}
    /\ IF req[q].id \in image THEN Goto(q, "spawn")
       ELSE Done(q) \/ (At(q, "serve") /\ FromUpstream(q) /\ Goto(q, "manifest"))
    /\ Quiet /\ UNCHANGED <<people, members, rows, counters, issued>> /\ Watch

\* The permits of PULL_COUNTER_LIMIT that counter writes hold.
PermitsTaken == MapThenSumSet(LAMBDA n : bumps[n], Names)

\* Then dispatch spawns a counter write, if there is a permit.
SpawnBump(q) ==
    LET n == req[q].name
        alive == nameOf[req[q].id] = n
    IN  /\ At(q, "spawn")
        /\ IF PermitsTaken < PullLimit
           THEN /\ bumps' = [bumps EXCEPT ![n] = @ + 1]
                /\ counted' = IF alive THEN [counted EXCEPT ![n] = @ + 1] ELSE counted
                /\ late' = IF Dropping(n) \/ ~alive THEN [late EXCEPT ![n] = @ + 1] ELSE late
           ELSE UNCHANGED <<bumps, counted, late>>
        /\ Done(q)
        /\ Quiet /\ UNCHANGED <<people, members, rows, pulls, issued>> /\ Watch

BumpImagePull(n) ==
    /\ bumps[n] > 0
    /\ bumps' = [bumps EXCEPT ![n] = @ - 1]
    /\ pulls' = [pulls EXCEPT ![n] = @ + 1]
    /\ Quiet /\ UNCHANGED <<people, members, rows, counted, late, issued, req>> /\ Watch

-----------------------------------------------------------------------------
(***************************************************************************)
(* The specification                                                       *)
(***************************************************************************)
\* A server that has never been set up.
NeverSetUp ==
    /\ users = {} /\ org = FALSE /\ role = [u \in Users |-> 0]
    /\ inTeam = [t \in Teams |-> {}] /\ grant = [t \in Teams |-> [i \in RepoIds |-> 0]]
    /\ nameOf = [i \in RepoIds |-> None] /\ image = {} /\ used = {}
    /\ pats = [p \in Pats |-> None] /\ tokens = {}

\* One with an owner, perhaps a member, a repository, a grant of a team on its
\* repository, and tokens of an owner or member.
InUse ==
    /\ users = Users /\ org = TRUE
    /\ role \in [Users -> {0, RoleMember, RoleOwner}] /\ \E u \in Users : role[u] = RoleOwner
    /\ inTeam \in [Teams -> {{u \in Users : role[u] # RoleOwner}}]
    /\ \E n \in Names, i \in RepoIds, live \in BOOLEAN :
          /\ nameOf = [x \in RepoIds |-> IF x = i /\ live THEN n ELSE None]
          /\ grant \in [Teams -> [RepoIds -> {0, Push}]]
          /\ \A t \in Teams, x \in RepoIds : nameOf[x] = None => grant[t][x] = 0
          /\ used = {i} /\ image = IF live THEN {i} ELSE {}
          /\ \E u \in Users :
              /\ role[u] # 0
              /\ pats \in [Pats -> IF ~live THEN {None} ELSE {None, [user |-> u, cap |-> Push,
                                        scope |-> [kind |-> "repo", repo |-> i]]}]
              /\ tokens \in {{}, {[user |-> u, name |-> n, level |-> Push]}}

Init ==
    /\ NeverSetUp \/ InUse
    /\ mirror \in (IF org THEN BOOLEAN ELSE {FALSE})
    /\ made = [p \in Pats |-> IF pats[p] = None THEN None ELSE pats[p].scope]
    /\ pulls = [n \in Names |-> 0] /\ bumps = [n \in Names |-> 0]
    /\ counted = [n \in Names |-> 0] /\ late = [n \in Names |-> 0]
    /\ unfounded = {} /\ strayed = {} /\ founders = {}
    /\ req = [q \in Requests |-> NoRequest] /\ seen = [q \in Requests |-> {}]
    /\ calls = 0 /\ faults = 0

Setup(q) == StartSetup(q) \/ CreateFirstAdmin(q) \/ SetupTaken(q)
Organization(q) == StartFound(q) \/ CreateOrg(q) \/ AddOwner(q)
Administer(q) ==
    \/ StartMember(q) \/ StartRemove(q) \/ StartTeam(q) \/ StartPerm(q)
    \/ SetMember(q) \/ RemoveMember(q) \/ SetTeam(q) \/ SetTeamPerm(q)
Repository(q) ==
    \/ StartCreate(q) \/ StartDrop(q) \/ FindRepo(q) \/ InsertRepo(q) \/ Refind(q)
    \/ DropPulls(q) \/ DropRow(q)
Token(q) ==
    \/ StartPat(q) \/ CreatePat(q)
    \/ StartToken(q) \/ TokenRepo(q) \/ TokenRole(q) \/ TokenTeam(q) \/ Issue(q)
Dispatch(q) ==
    \/ StartDispatch(q) \/ CheckMirror(q) \/ PutManifest(q) \/ DeleteManifest(q)
    \/ Serve(q) \/ SpawnBump(q)

Next ==
    \/ \E q \in Requests :
        \/ Setup(q) \/ Organization(q) \/ Administer(q) \/ Repository(q) \/ Token(q)
        \/ Dispatch(q) \/ Fail(q)
    \/ \E u \in Users : CreateUser(u)
    \/ SetUpstream
    \/ \E p \in Pats : DeletePat(p)
    \/ \E t \in tokens : Expire(t)
    \/ \E n \in Names : BumpImagePull(n)

Spec == Init /\ [][Next]_vars

-----------------------------------------------------------------------------
(***************************************************************************)
(* Properties                                                              *)
(***************************************************************************)
Grant == [user : Users, name : Names, level : 1..3]
Moment == [role : Levels, team : Levels, id : RepoIds \cup {None}]
TypeOK ==
    /\ users \in SUBSET Users /\ founders \in SUBSET Users
    /\ org \in BOOLEAN /\ mirror \in BOOLEAN
    /\ role \in [Users -> Levels] /\ inTeam \in [Teams -> SUBSET Users]
    /\ grant \in [Teams -> [RepoIds -> Levels]]
    /\ nameOf \in [RepoIds -> Names \cup {None}]
    /\ image \in SUBSET used /\ used \in SUBSET RepoIds
    /\ pats \in [Pats -> Pat \cup {None}] /\ made \in [Pats -> Scope \cup {None}]
    /\ \A counter \in {pulls, bumps, counted, late} : counter \in [Names -> Nat]
    /\ tokens \in SUBSET Grant /\ unfounded \in SUBSET Grant /\ strayed \in SUBSET Grant
    /\ req \in [Requests -> Request]
    /\ seen \in [Requests -> SUBSET Moment]
    /\ calls \in 0..(MaxCalls + MaxMore) /\ faults \in 0..MaxFaults

\* A bearer token grants no more than its user was allowed: at one moment of the
\* request for it, if at some moment the user had all that it had at any other.
\* rbac.rs reads whether the repository is there, then the role, then the grants
\* of the teams: where one was lost and another gained between the reads, the
\* token may join them, but each was there at some moment of the request, so that
\* one who was never a member gets nothing from a team that still lists it
\* (orgs.rs repo_permission, "Not a member of the org -> no access at all").
GrantsJustified == unfounded = {}

\* A personal access token is stored with the scope that it was created for as
\* long as its row is there: the deletion of its repository takes the row along
\* (users.rs user_for_pat would take a scope without an id for all).  And a bearer
\* token got with one is for a name that stood for the repository of its scope at
\* some moment of the request: a name made anew is out of reach for later requests,
\* though bearer tokens issued before reach it, which carry the name alone.
PatConfined ==
    /\ \A p \in Pats : pats[p] # None => pats[p].scope = made[p]
    /\ strayed = {}

\* However many first runs race, one of them makes its administrator (users.rs,
\* "concurrent setup can't mint multiple instance admins").
SetupOnce == Cardinality(founders) <= 1

\* A repository starts with no pulls, though its name may have had some: beside
\* its own only those are counted that were on their way when the counters of
\* the name were cleared, or came before the row was deleted in turn.
PullsOfThisRepo == \A n \in Names : pulls[n] + bumps[n] <= counted[n] + late[n]
=============================================================================
