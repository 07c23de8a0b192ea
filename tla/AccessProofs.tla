---------------------------- MODULE AccessProofs ----------------------------
(***************************************************************************)
(* Proofs about Access, for any users, teams, names, repositories, tokens  *)
(* and requests: the types, that a bearer token grants no more than its    *)
(* user was allowed during the request for it, that an access token keeps  *)
(* its scope and gets bearer tokens within it, that one first run wins,    *)
(* and that a repository is counted its own pulls.                         *)
(***************************************************************************)
EXTENDS Access, FiniteSetTheorems, TLAPS

\* The stage of a request belongs to its operation.
StageFits(r) ==
    /\ r.op = "none" <=> r.at = "idle"
    /\ r.at = "first" => r.op = "setup"
    /\ r.at \in {"org", "owner"} => r.op \in {"setup", "found"}
    /\ r.at = "write" => r.op \in {"member", "remove", "join", "leave", "perm"}
    /\ r.at = "repo" => r.op \in {"perm", "create", "pat", "token", "pull", "push", "delete"}
    /\ r.at \in {"insert", "refind"} => r.op \in {"create", "push", "pull"}
    /\ r.at \in {"pulls", "row"} => r.op = "drop"
    /\ r.at = "store" => r.op = "pat"
    /\ r.at \in {"role", "team", "issue"} => r.op = "token"
    /\ r.at = "mirror" => r.op = "push"
    /\ r.at = "manifest" => r.op \in {"push", "pull"}
    /\ r.at = "erase" => r.op = "delete"
    /\ r.at \in {"serve", "retry", "spawn"} => r.op = "pull"

\* It knows what its operation needs.
FieldsFit(r) ==
    /\ r.op \in {"setup", "found", "pat", "token", "push"} => r.by \in Users
    /\ r.op \in {"member", "remove", "join", "leave"} => r.to \in Users
    /\ r.op \in {"join", "leave", "perm"} => r.team \in Teams
    /\ r.op \in {"perm", "create", "drop", "pat", "token", "pull", "push", "delete"} => r.name \in Names
    /\ r.op = "pat" => r.level \in 1..3 /\ r.scope.repo = None
    /\ r.at \in {"manifest", "erase", "serve", "retry", "spawn"} => r.id \in RepoIds
    /\ r.at = "write" /\ r.op = "perm" => r.id \in RepoIds
    /\ r.at = "store" /\ r.scope.kind = "repo" => r.id \in RepoIds

Fit(r) == r \in Request /\ StageFits(r) /\ FieldsFit(r)
Fits == req \in [Requests -> Request] /\ \A q \in Requests : Fit(req[q])

\* The tables and the counters.
Tables ==
    /\ users \in SUBSET Users /\ founders \in SUBSET Users
    /\ org \in BOOLEAN /\ mirror \in BOOLEAN
    /\ role \in [Users -> Levels] /\ inTeam \in [Teams -> SUBSET Users]
    /\ grant \in [Teams -> [RepoIds -> Levels]]
    /\ nameOf \in [RepoIds -> Names \cup {None}]
    /\ image \in SUBSET used /\ used \in SUBSET RepoIds
    /\ pats \in [Pats -> Pat \cup {None}] /\ made \in [Pats -> Scope \cup {None}]
    /\ pulls \in [Names -> Nat] /\ bumps \in [Names -> Nat]
    /\ counted \in [Names -> Nat] /\ late \in [Names -> Nat]
    /\ tokens \in SUBSET Grant /\ unfounded \in SUBSET Grant /\ strayed \in SUBSET Grant
    /\ calls \in 0..(MaxCalls + MaxMore) /\ faults \in 0..MaxFaults

\* A row has been given out, its name is its own, and a grant is on a row.
RowsFit ==
    /\ \A i \in RepoIds : nameOf[i] # None => i \in used
    /\ \A i, j \in RepoIds : nameOf[i] # None /\ nameOf[i] = nameOf[j] => i = j
    /\ \A i \in RepoIds, t \in Teams : nameOf[i] = None => grant[t][i] = 0

Kept == Tables /\ RowsFit
Typed == Kept /\ Fits /\ seen \in [Requests -> SUBSET Moment]

LEMMA TypedOK == Typed => TypeOK
  BY DEF Typed, Kept, Tables, Fits, TypeOK

-----------------------------------------------------------------------------
(***************************************************************************)
(* The operators                                                           *)
(***************************************************************************)
LEMMA MaxLevel ==
    ASSUME NEW S \in SUBSET Levels
    PROVE Max({0} \cup S) \in Levels /\ \A l \in S : l <= Max({0} \cup S)
  <1>1. \E x \in {0} \cup S : \A y \in {0} \cup S : x >= y
    <2>1. CASE 3 \in S
      BY <2>1 DEF Levels
    <2>2. CASE 3 \notin S /\ 2 \in S
      BY <2>2 DEF Levels
    <2>3. CASE 3 \notin S /\ 2 \notin S /\ 1 \in S
      BY <2>3 DEF Levels
    <2>4. CASE 3 \notin S /\ 2 \notin S /\ 1 \notin S
      BY <2>4 DEF Levels
    <2> QED
      BY <2>1, <2>2, <2>3, <2>4
  <1>2. /\ Max({0} \cup S) \in {0} \cup S
        /\ \A y \in {0} \cup S : Max({0} \cup S) >= y
    BY <1>1 DEF Max
  <1> DEFINE m == Max({0} \cup S)
  <1>3. m \in Levels
    <2>1. m = 0 \/ m \in S
      BY <1>2
    <2>2. 0 \in Levels
      BY DEF Levels
    <2>3. m \in S => m \in Levels
      OBVIOUS
    <2> QED
      BY <2>1, <2>2, <2>3
  <1>4. ASSUME NEW l \in S PROVE l <= m
    <2>1. m >= l /\ l \in Levels
      BY <1>2
    <2> QED
      BY <1>3, <2>1 DEF Levels
  <1> QED
    BY <1>3, <1>4

LEMMA FindTyped ==
    ASSUME NEW n
    PROVE /\ Find(n) \in RepoIds \cup {None}
          /\ Find(n) # None => nameOf[Find(n)] = n
          /\ Find(n) = None => \A i \in RepoIds : nameOf[i] # n
  BY NamesAssumption DEF Find

LEMMA FindNamed ==
    ASSUME RowsFit, NEW i \in RepoIds, nameOf[i] # None
    PROVE Find(nameOf[i]) = i
  <1>1. Find(nameOf[i]) \in RepoIds /\ nameOf[Find(nameOf[i])] = nameOf[i]
    BY FindTyped
  <1> QED
    BY <1>1 DEF RowsFit

LEMMA CapabilityLevel ==
    ASSUME NEW r \in Levels, NEW t \in Levels, NEW e \in BOOLEAN
    PROVE Capability(r, t, e) \in Levels
  BY DEF Capability, Levels, Admin, Push, RoleMember, RoleAdmin

LEMMA CapabilityGrows ==
    ASSUME NEW r \in Levels, NEW t \in Levels, NEW e \in BOOLEAN,
           NEW r2 \in Levels, NEW t2 \in Levels, NEW e2 \in BOOLEAN,
           r <= r2, t <= t2, e => e2
    PROVE Capability(r, t, e) <= Capability(r2, t2, e2)
  BY DEF Capability, Levels, Admin, Push, RoleMember, RoleAdmin

LEMMA LeastLevel ==
    ASSUME NEW a \in Levels, NEW b \in Levels
    PROVE Least(a, b) \in Levels /\ Least(a, b) <= a /\ Least(a, b) <= b
  BY DEF Least, Levels

\* A role and a grant of different moments found a level.
LEMMA JoinFounds ==
    ASSUME NEW S \in SUBSET Moment, NEW l \in Levels, NEW m \in S, NEW n \in S, NEW x \in S,
           l <= Capability(m.role, n.team, x.id # None)
    PROVE Founded(l, S)
  <1>1. CASE ~Whole(S)
    BY <1>1 DEF Founded
  <1>2. CASE Whole(S)
    <2>1. PICK w \in S : \A y \in S : /\ y.role <= w.role /\ y.team <= w.team
                                     /\ (y.id # None => w.id # None)
      BY <1>2 DEF Whole
    <2>2. /\ m.role \in Levels /\ n.team \in Levels /\ (x.id # None) \in BOOLEAN
          /\ w.role \in Levels /\ w.team \in Levels /\ (w.id # None) \in BOOLEAN
      BY DEF Moment
    <2>3. m.role <= w.role /\ n.team <= w.team /\ (x.id # None => w.id # None)
      BY <2>1
    <2> DEFINE c == Capability(m.role, n.team, x.id # None)
               d == Capability(w.role, w.team, w.id # None)
    <2>4. c \in Levels /\ d \in Levels /\ c <= d
      BY <2>2, <2>3, CapabilityLevel, CapabilityGrows
    <2>5. l <= d
      <3> HIDE DEF d
      <3>1. l <= c /\ c \in Levels
        BY <2>4
      <3> HIDE DEF c
      <3> QED
        BY <2>4, <3>1 DEF Levels
    <2> QED
      BY <1>2, <2>5 DEF Founded, Allows
  <1> QED
    BY <1>1, <1>2

\* No repository has no grants, and a deleted one has none left.
LEMMA TeamGrantLevel ==
    ASSUME Tables, NEW u, NEW i \in RepoIds \cup {None}
    PROVE /\ TeamGrant(u, i) \in Levels
          /\ i = None \/ (RowsFit /\ nameOf[i] = None) => TeamGrant(u, i) = 0
  <1>1. CASE i = None
    BY <1>1 DEF TeamGrant, Levels
  <1>2. CASE i \in RepoIds /\ i # None
    <2> DEFINE S == {grant[t][i] : t \in {x \in Teams : u \in inTeam[x]}}
    <2>1. S \in SUBSET Levels /\ TeamGrant(u, i) = Max({0} \cup S)
      BY <1>2 DEF Tables, TeamGrant
    <2>2. Max({0} \cup S) \in Levels
      BY <2>1, MaxLevel
    <2>3. ASSUME RowsFit, nameOf[i] = None PROVE Max({0} \cup S) = 0
      <3>1. {0} \cup S = {0}
        BY <1>2, <2>3 DEF RowsFit
      <3>2. \E x \in {0} : \A y \in {0} : x >= y
        OBVIOUS
      <3>3. Max({0}) \in {0}
        BY <3>2 DEF Max
      <3> QED
        BY <3>1, <3>3
    <2> QED
      BY <1>2, <2>1, <2>2, <2>3
  <1> QED
    BY <1>1, <1>2

CurrentTyped == Tables /\ Fits => \A q \in Requests : req[q].op = "token" => Current(q) \in Moment

LEMMA CurrentIsTyped == CurrentTyped
  <1> SUFFICES ASSUME Tables, Fits, NEW q \in Requests, req[q].op = "token" PROVE Current(q) \in Moment
    BY DEF CurrentTyped
  <1>1. req[q].by \in Users
    BY DEF Fits, Fit, FieldsFit
  <1>2. Find(req[q].name) \in RepoIds \cup {None}
    BY FindTyped
  <1>3. TeamGrant(req[q].by, Find(req[q].name)) \in Levels
    BY <1>2, TeamGrantLevel
  <1>4. role[req[q].by] \in Levels
    BY <1>1 DEF Tables
  <1> QED
    BY <1>2, <1>3, <1>4 DEF Current, Moment

LEMMA CurrentTypedNext == CurrentTyped'
  BY CurrentIsTyped, PTL

\* What seen becomes in a step.
LEMMA Watched ==
    ASSUME Typed, Tables', Fits', Watch
    PROVE /\ seen' \in [Requests -> SUBSET Moment]
          /\ \A q \in Requests : req'[q].op = "token" =>
                seen[q] \subseteq seen'[q] /\ Current(q)' \in seen'[q]
  <1>1. \A q \in Requests : /\ req'[q].op = "token" => Current(q)' \in Moment
                           /\ seen[q] \in SUBSET Moment
    BY CurrentTypedNext DEF CurrentTyped, Typed
  <1>2. seen' = [q \in Requests |-> IF req'[q].op # "token" THEN {} ELSE seen[q] \cup {Current(q)'}]
    BY DEF Watch
  <1> QED
    BY <1>1, <1>2

-----------------------------------------------------------------------------
(***************************************************************************)
(* The requests                                                            *)
(***************************************************************************)
LEMMA NoRequestFits == Fit(NoRequest)
  BY NamesAssumption DEF Fit, NoRequest, Everything, Request, Scope, AllOps, Stages, Levels,
      StageFits, FieldsFit

LEMMA Asks ==
    \A o \in AllOps, s \in Stages :
        /\ Ask(o, s) \in Request
        /\ Ask(o, s).op = o /\ Ask(o, s).at = s /\ Ask(o, s).id = None
        /\ Ask(o, s).scope.repo = None
  <1>1. NoRequest \in Request
    BY NoRequestFits DEF Fit
  <1>2. NoRequest.id = None /\ NoRequest.scope.repo = None
    BY DEF NoRequest, Everything
  <1> QED
    BY <1>1, <1>2 DEF Ask, Request

LEMMA Moved ==
    ASSUME Fits, NEW q \in Requests, NEW r, Fit(r), req' = [req EXCEPT ![q] = r]
    PROVE /\ Fits'
          /\ req'[q] = r /\ \A x \in Requests : x # q => req'[x] = req[x]
  <1>1. req' \in [Requests -> Request]
    BY DEF Fits, Fit
  <1>2. req'[q] = r /\ \A x \in Requests : x # q => req'[x] = req[x]
    BY DEF Fits
  <1>3. \A x \in Requests : Fit(req'[x])
    BY <1>2 DEF Fits
  <1> QED
    BY <1>1, <1>2, <1>3 DEF Fits, Fit, StageFits, FieldsFit

\* A request as it begins.
Fresh(r) ==
    /\ Fit(r) /\ r.id = None
    /\ r.op = "push" => r.at = "mirror"
    /\ r.op = "token" => r.at = "repo"
    /\ r.op = "drop" => r.at = "pulls"

LEMMA SetupStarts ==
    ASSUME Typed, NEW q \in Requests, StartSetup(q) \/ StartFound(q)
    PROVE \E r : Fresh(r) /\ Begin(q, r)
  <1>1. PICK u \in Users, op \in {"setup", "found"}, at \in {"first", "org"} :
            /\ at = "first" => op = "setup"
            /\ Begin(q, [Ask(op, at) EXCEPT !.by = u])
    <2>1. users \subseteq Users /\ Asked \subseteq 1..3 /\ 1..3 \subseteq Levels
      BY BoundsAssumption DEF Levels, Typed, Kept, Tables
    <2> QED
      BY <2>1 DEF StartSetup, StartFound
  <1> DEFINE a == Ask(op, at)
             r == [a EXCEPT !.by = u]
  <1>2. op \in AllOps /\ at \in Stages
    BY DEF AllOps, Stages
  <1> HIDE DEF a
  <1>3. /\ a \in Request /\ a.op = op /\ a.at = at /\ a.id = None
        /\ a.scope.repo = None
    BY <1>2, Asks DEF a
  <1>4. /\ r \in Request /\ r.op = op /\ r.at = at /\ r.id = None
        /\ r.by = u /\ r.scope.repo = None
    BY <1>3 DEF Request, Levels
  <1> HIDE DEF r
  <1>5. Fresh(r)
    BY <1>1, <1>4 DEF Fresh, Fit, StageFits, FieldsFit
  <1> QED
    BY <1>1, <1>5 DEF r, a

LEMMA RemoveStarts ==
    ASSUME Typed, NEW q \in Requests, StartRemove(q)
    PROVE \E r : Fresh(r) /\ Begin(q, r)
  <1>1. PICK u, v \in Users, op \in {"remove"} :
            Begin(q, [Ask(op, "write") EXCEPT !.by = u, !.to = v])
    <2>1. users \subseteq Users /\ Asked \subseteq 1..3 /\ 1..3 \subseteq Levels
      BY BoundsAssumption DEF Levels, Typed, Kept, Tables
    <2> QED
      BY <2>1 DEF StartRemove
  <1> DEFINE a == Ask(op, "write")
             r == [a EXCEPT !.by = u, !.to = v]
  <1>2. op \in AllOps /\ "write" \in Stages
    BY DEF AllOps, Stages
  <1> HIDE DEF a
  <1>3. /\ a \in Request /\ a.op = op /\ a.at = "write" /\ a.id = None
        /\ a.scope.repo = None
    BY <1>2, Asks DEF a
  <1>4. /\ r \in Request /\ r.op = op /\ r.at = "write" /\ r.id = None
        /\ r.to = v
    BY <1>3 DEF Request, Levels
  <1> HIDE DEF r
  <1>5. Fresh(r)
    BY <1>1, <1>4 DEF Fresh, Fit, StageFits, FieldsFit
  <1> QED
    BY <1>1, <1>5 DEF r, a

LEMMA MemberStarts ==
    ASSUME Typed, NEW q \in Requests, StartMember(q)
    PROVE \E r : Fresh(r) /\ Begin(q, r)
  <1>1. PICK u, v \in Users, op \in {"member"}, l \in Levels :
            Begin(q, [Ask(op, "write") EXCEPT !.by = u, !.to = v, !.level = l])
    <2>1. users \subseteq Users /\ Asked \subseteq 1..3 /\ 1..3 \subseteq Levels
      BY BoundsAssumption DEF Levels, Typed, Kept, Tables
    <2> QED
      BY <2>1 DEF StartMember
  <1> DEFINE a == Ask(op, "write")
             r == [a EXCEPT !.by = u, !.to = v, !.level = l]
  <1>2. op \in AllOps /\ "write" \in Stages
    BY DEF AllOps, Stages
  <1> HIDE DEF a
  <1>3. /\ a \in Request /\ a.op = op /\ a.at = "write" /\ a.id = None
        /\ a.scope.repo = None
    BY <1>2, Asks DEF a
  <1>4. /\ r \in Request /\ r.op = op /\ r.at = "write" /\ r.id = None
        /\ r.to = v
    BY <1>3 DEF Request, Levels
  <1> HIDE DEF r
  <1>5. Fresh(r)
    BY <1>1, <1>4 DEF Fresh, Fit, StageFits, FieldsFit
  <1> QED
    BY <1>1, <1>5 DEF r, a

LEMMA TeamStarts ==
    ASSUME Typed, NEW q \in Requests, StartTeam(q)
    PROVE \E r : Fresh(r) /\ Begin(q, r)
  <1>1. PICK u, v \in Users, t \in Teams, op \in {"join", "leave"} :
            Begin(q, [Ask(op, "write") EXCEPT !.by = u, !.to = v, !.team = t])
    <2>1. users \subseteq Users /\ Asked \subseteq 1..3 /\ 1..3 \subseteq Levels
      BY BoundsAssumption DEF Levels, Typed, Kept, Tables
    <2> QED
      BY <2>1 DEF StartTeam
  <1> DEFINE a == Ask(op, "write")
             r == [a EXCEPT !.by = u, !.to = v, !.team = t]
  <1>2. op \in AllOps /\ "write" \in Stages
    BY DEF AllOps, Stages
  <1> HIDE DEF a
  <1>3. /\ a \in Request /\ a.op = op /\ a.at = "write" /\ a.id = None
        /\ a.scope.repo = None
    BY <1>2, Asks DEF a
  <1>4. /\ r \in Request /\ r.op = op /\ r.at = "write" /\ r.id = None
        /\ r.to = v /\ r.team = t
    BY <1>3 DEF Request, Levels
  <1> HIDE DEF r
  <1>5. Fresh(r)
    BY <1>1, <1>4 DEF Fresh, Fit, StageFits, FieldsFit
  <1> QED
    BY <1>1, <1>5 DEF r, a

LEMMA PermStarts ==
    ASSUME Typed, NEW q \in Requests, StartPerm(q)
    PROVE \E r : Fresh(r) /\ Begin(q, r)
  <1>1. PICK u \in Users, t \in Teams, n \in Names, l \in Levels, op \in {"perm"} :
            Begin(q, [Ask(op, "repo") EXCEPT !.by = u, !.team = t, !.name = n, !.level = l])
    <2>1. users \subseteq Users /\ Asked \subseteq 1..3 /\ 1..3 \subseteq Levels
      BY BoundsAssumption DEF Levels, Typed, Kept, Tables
    <2> QED
      BY <2>1 DEF StartPerm
  <1> DEFINE a == Ask(op, "repo")
             r == [a EXCEPT !.by = u, !.team = t, !.name = n, !.level = l]
  <1>2. op \in AllOps /\ "repo" \in Stages
    BY DEF AllOps, Stages
  <1> HIDE DEF a
  <1>3. /\ a \in Request /\ a.op = op /\ a.at = "repo" /\ a.id = None
        /\ a.scope.repo = None
    BY <1>2, Asks DEF a
  <1>4. /\ r \in Request /\ r.op = op /\ r.at = "repo" /\ r.id = None
        /\ r.team = t /\ r.name = n
    BY <1>3 DEF Request, Levels
  <1> HIDE DEF r
  <1>5. Fresh(r)
    BY <1>1, <1>4 DEF Fresh, Fit, StageFits, FieldsFit
  <1> QED
    BY <1>1, <1>5 DEF r, a

LEMMA RepoStarts ==
    ASSUME Typed, NEW q \in Requests, StartCreate(q) \/ StartDrop(q)
    PROVE \E r : Fresh(r) /\ Begin(q, r)
  <1>1. PICK u \in Users, n \in Names, op \in {"create", "drop"}, at \in {"repo", "pulls"} :
            /\ op = "create" <=> at = "repo"
            /\ Begin(q, [Ask(op, at) EXCEPT !.by = u, !.name = n])
    <2>1. users \subseteq Users /\ Asked \subseteq 1..3 /\ 1..3 \subseteq Levels
      BY BoundsAssumption DEF Levels, Typed, Kept, Tables
    <2> QED
      BY <2>1 DEF StartCreate, StartDrop
  <1> DEFINE a == Ask(op, at)
             r == [a EXCEPT !.by = u, !.name = n]
  <1>2. op \in AllOps /\ at \in Stages
    BY DEF AllOps, Stages
  <1> HIDE DEF a
  <1>3. /\ a \in Request /\ a.op = op /\ a.at = at /\ a.id = None
        /\ a.scope.repo = None
    BY <1>2, Asks DEF a
  <1>4. /\ r \in Request /\ r.op = op /\ r.at = at /\ r.id = None
        /\ r.name = n
    BY <1>3 DEF Request, Levels
  <1> HIDE DEF r
  <1>5. Fresh(r)
    BY <1>1, <1>4 DEF Fresh, Fit, StageFits, FieldsFit
  <1> QED
    BY <1>1, <1>5 DEF r, a

LEMMA PatStarts ==
    ASSUME Typed, NEW q \in Requests, StartPat(q)
    PROVE \E r : Fresh(r) /\ Begin(q, r)
  <1>1. PICK u \in Users, n \in Names, l \in 1..3, k \in {"all", "org", "repo"}, op \in {"pat"}, at \in {"repo", "store"} :
            /\ k = "repo" <=> at = "repo"
            /\ Begin(q, [Ask(op, at) EXCEPT !.by = u, !.name = n, !.level = l, !.scope = [kind |-> k, repo |-> None]])
    <2>1. users \subseteq Users /\ Asked \subseteq 1..3 /\ 1..3 \subseteq Levels
      BY BoundsAssumption DEF Levels, Typed, Kept, Tables
    <2> QED
      BY <2>1 DEF StartPat
  <1> DEFINE a == Ask(op, at)
             r == [a EXCEPT !.by = u, !.name = n, !.level = l, !.scope = [kind |-> k, repo |-> None]]
  <1>typed. l \in Levels /\ [kind |-> k, repo |-> None] \in Scope
    BY DEF Levels, Scope
  <1>2. op \in AllOps /\ at \in Stages
    BY DEF AllOps, Stages
  <1> HIDE DEF a
  <1>3. /\ a \in Request /\ a.op = op /\ a.at = at /\ a.id = None
        /\ a.scope.repo = None
    BY <1>2, Asks DEF a
  <1>4. /\ r \in Request /\ r.op = op /\ r.at = at /\ r.id = None
        /\ r.by = u /\ r.name = n /\ r.level = l /\ r.scope = [kind |-> k, repo |-> None]
    BY <1>typed, <1>3 DEF Request, Levels
  <1> HIDE DEF r
  <1>5. Fresh(r)
    BY <1>typed, <1>1, <1>4 DEF Fresh, Fit, StageFits, FieldsFit
  <1> QED
    BY <1>1, <1>5 DEF r, a

LEMMA TokenStarts ==
    ASSUME Typed, NEW q \in Requests, StartToken(q)
    PROVE \E r : Fresh(r) /\ Begin(q, r)
  <1>1. PICK n \in Names, c \in Credentials, op \in {"token"} :
            Begin(q, [Ask(op, "repo") EXCEPT !.by = c.by, !.name = n, !.level = c.cap, !.scope = c.scope])
    <2>1. users \subseteq Users /\ Asked \subseteq 1..3 /\ 1..3 \subseteq Levels
      BY BoundsAssumption DEF Levels, Typed, Kept, Tables
    <2> QED
      BY <2>1 DEF StartToken
  <1> DEFINE a == Ask(op, "repo")
             r == [a EXCEPT !.by = c.by, !.name = n, !.level = c.cap, !.scope = c.scope]
  <1>typed. c.by \in Users /\ c.cap \in Levels /\ c.scope \in Scope
    BY DEF Typed, Kept, Tables, Credentials, Resolved, Pat, Levels, Admin, Everything, Scope
  <1>2. op \in AllOps /\ "repo" \in Stages
    BY DEF AllOps, Stages
  <1> HIDE DEF a
  <1>3. /\ a \in Request /\ a.op = op /\ a.at = "repo" /\ a.id = None
        /\ a.scope.repo = None
    BY <1>2, Asks DEF a
  <1>4. /\ r \in Request /\ r.op = op /\ r.at = "repo" /\ r.id = None
        /\ r.by = c.by /\ r.name = n
    BY <1>typed, <1>3 DEF Request, Levels
  <1> HIDE DEF r
  <1>5. Fresh(r)
    BY <1>typed, <1>1, <1>4 DEF Fresh, Fit, StageFits, FieldsFit
  <1> QED
    BY <1>1, <1>5 DEF r, a

LEMMA DispatchStarts ==
    ASSUME Typed, NEW q \in Requests, StartDispatch(q)
    PROVE \E r : Fresh(r) /\ Begin(q, r)
  <1>1. PICK t \in tokens, op \in {"pull", "push", "delete"}, at \in {"mirror", "repo"} :
            /\ op = "push" <=> at = "mirror"
            /\ Begin(q, [Ask(op, at) EXCEPT !.by = t.user, !.name = t.name])
    <2>1. users \subseteq Users /\ Asked \subseteq 1..3 /\ 1..3 \subseteq Levels
      BY BoundsAssumption DEF Levels, Typed, Kept, Tables
    <2> QED
      BY <2>1 DEF StartDispatch
  <1> DEFINE a == Ask(op, at)
             r == [a EXCEPT !.by = t.user, !.name = t.name]
  <1>typed. t.user \in Users /\ t.name \in Names
    BY DEF Typed, Kept, Tables, Grant
  <1>2. op \in AllOps /\ at \in Stages
    BY DEF AllOps, Stages
  <1> HIDE DEF a
  <1>3. /\ a \in Request /\ a.op = op /\ a.at = at /\ a.id = None
        /\ a.scope.repo = None
    BY <1>2, Asks DEF a
  <1>4. /\ r \in Request /\ r.op = op /\ r.at = at /\ r.id = None
        /\ r.by = t.user /\ r.name = t.name
    BY <1>typed, <1>3 DEF Request, Levels
  <1> HIDE DEF r
  <1>5. Fresh(r)
    BY <1>typed, <1>1, <1>4 DEF Fresh, Fit, StageFits, FieldsFit
  <1> QED
    BY <1>1, <1>5 DEF r, a

Starting(q) ==
    \/ StartSetup(q) \/ StartFound(q) \/ StartMember(q) \/ StartRemove(q) \/ StartTeam(q)
    \/ StartPerm(q) \/ StartCreate(q) \/ StartDrop(q) \/ StartPat(q) \/ StartToken(q)
    \/ StartDispatch(q)

LEMMA Starts ==
    ASSUME Typed, NEW q \in Requests, Starting(q)
    PROVE \E r : Fresh(r) /\ Begin(q, r)
  BY SetupStarts, MemberStarts, RemoveStarts, TeamStarts, PermStarts, RepoStarts, PatStarts,
      TokenStarts, DispatchStarts DEF Starting

LEMMA Redirected ==
    ASSUME Fits, NEW q \in Requests, NEW s \in Stages
    PROVE LET r == [req[q] EXCEPT !.at = s] IN
          /\ r \in Request /\ r.at = s
          /\ r.op = req[q].op /\ r.by = req[q].by /\ r.to = req[q].to /\ r.team = req[q].team
          /\ r.name = req[q].name /\ r.id = req[q].id /\ r.level = req[q].level
          /\ r.scope = req[q].scope
  <1>1. req[q] \in Request
    BY DEF Fits
  <1> QED
    BY <1>1 DEF Request

LEMMA Ended ==
    ASSUME Fits, NEW q \in Requests, Done(q)
    PROVE /\ Fits' /\ req'[q] = NoRequest
          /\ \A x \in Requests : x # q => req'[x] = req[x]
  BY Moved, NoRequestFits DEF Done

\* Where a request may go, what it knows being enough.
LEMMA Gone ==
    ASSUME Fits, NEW q \in Requests, NEW s \in Stages, Goto(q, s),
           \A r : r.op = req[q].op /\ r.at = s => StageFits(r),
           s \in {"manifest", "erase", "serve", "retry", "spawn"} => req[q].id \in RepoIds,
           s \notin {"write", "store"}
    PROVE /\ Fits' /\ req'[q] = [req[q] EXCEPT !.at = s]
          /\ \A x \in Requests : x # q => req'[x] = req[x]
  <1> DEFINE r == [req[q] EXCEPT !.at = s]
  <1>1. /\ r \in Request /\ r.at = s
        /\ r.op = req[q].op /\ r.by = req[q].by /\ r.to = req[q].to /\ r.team = req[q].team
        /\ r.name = req[q].name /\ r.id = req[q].id /\ r.level = req[q].level
        /\ r.scope = req[q].scope
    BY Redirected
  <1>2. req' = [req EXCEPT ![q] = r]
    BY DEF Goto
  <1> HIDE DEF r
  <1>3. FieldsFit(req[q])
    BY DEF Fits, Fit
  <1>4. FieldsFit(r)
    BY <1>1, <1>3 DEF FieldsFit
  <1>5. Fit(r)
    BY <1>1, <1>4 DEF Fit
  <1>6. Fits' /\ req'[q] = r /\ \A x \in Requests : x # q => req'[x] = req[x]
    BY <1>2, <1>5, Moved
  <1> QED
    BY <1>6 DEF r

LEMMA Stands == ASSUME Fits, NEW q \in Requests PROVE StageFits(req[q]) /\ FieldsFit(req[q]) /\ req[q] \in Request
  BY DEF Fits, Fit

LEMMA FindRepoFits ==
    ASSUME Typed, NEW q \in Requests, FindRepo(q) PROVE Fits'
  <1> DEFINE i == Find(req[q].name)
  <1>1. Fits /\ StageFits(req[q]) /\ FieldsFit(req[q]) /\ req[q] \in Request
    BY Stands DEF Typed
  <1>2. req[q].at = "repo" /\ req[q].op \in {"perm", "create", "pat", "pull", "push", "delete"}
    BY <1>1 DEF FindRepo, At, StageFits
  <1>3. i \in RepoIds \cup {None}
    BY FindTyped
  <1>4. CASE i # None /\ req[q].op # "create"
    <2> DEFINE s == Found(req[q].op)
               r == [req[q] EXCEPT !.id = i, !.at = s]
    <2>1. /\ s \in Stages
          /\ req[q].op = "perm" => s = "write"
          /\ req[q].op = "pat" => s = "store"
          /\ req[q].op = "push" => s = "manifest"
          /\ req[q].op = "delete" => s = "erase"
          /\ req[q].op = "pull" => s = "serve"
      BY <1>2, <1>4 DEF Found, Stages
    <2>2. req' = [req EXCEPT ![q] = r]
      BY <1>4 DEF FindRepo
    <2> HIDE DEF s
    <2>3. /\ r \in Request /\ r.at = s /\ r.id = i
          /\ r.op = req[q].op /\ r.by = req[q].by /\ r.to = req[q].to /\ r.team = req[q].team
          /\ r.name = req[q].name /\ r.level = req[q].level /\ r.scope = req[q].scope
      BY <1>1, <1>3, <2>1 DEF Request
    <2> HIDE DEF r, i
    <2>4. StageFits(r)
      BY <1>2, <1>4, <2>1, <2>3 DEF StageFits
    <2>5. FieldsFit(r)
      BY <1>1, <1>2, <1>3, <1>4, <2>1, <2>3 DEF FieldsFit
    <2> QED
      BY <1>1, <2>2, <2>3, <2>4, <2>5, Moved DEF Fit
  <1>5. CASE Goto(q, "insert") /\ (req[q].op \in {"create", "push"} \/ FromUpstream(q))
    <2>1. req[q].op \in {"create", "push", "pull"} /\ "insert" \in Stages
      BY <1>5 DEF FromUpstream, Stages
    <2>2. \A r : r.op = req[q].op /\ r.at = "insert" => StageFits(r)
      BY <2>1 DEF StageFits
    <2> QED
      BY <1>1, <1>5, <2>1, <2>2, Gone
  <1>6. CASE Done(q)
    BY <1>1, <1>6, Ended
  <1> QED
    BY <1>4, <1>5, <1>6 DEF FindRepo

LEMMA RefindFits ==
    ASSUME Typed, NEW q \in Requests, Refind(q) PROVE Fits'
  <1> DEFINE i == Find(req[q].name)
             r == [req[q] EXCEPT !.id = i, !.at = "manifest"]
  <1>1. Fits /\ StageFits(req[q]) /\ FieldsFit(req[q]) /\ req[q] \in Request
    BY Stands DEF Typed
  <1>2. req[q].op \in {"create", "push", "pull"} /\ "manifest" \in Stages
    BY <1>1 DEF Refind, At, StageFits, Stages
  <1>3. i \in RepoIds \cup {None}
    BY FindTyped
  <1>4. \/ Done(q)
        \/ i # None /\ req[q].op # "create" /\ req' = [req EXCEPT ![q] = r]
    BY DEF Refind, Done
  <1>5. /\ r \in Request /\ r.at = "manifest" /\ r.id = i
        /\ r.op = req[q].op /\ r.by = req[q].by /\ r.name = req[q].name
    BY <1>1, <1>2, <1>3 DEF Request
  <1> HIDE DEF r, i
  <1>6. i # None /\ req[q].op # "create" => Fit(r)
    BY <1>1, <1>2, <1>3, <1>5 DEF Fit, StageFits, FieldsFit
  <1> QED
    BY <1>1, <1>4, <1>6, Ended, Moved

LEMMA SameTables ==
    ASSUME Kept, UNCHANGED <<people, members, rows, counters, issued>>,
           calls' \in 0..(MaxCalls + MaxMore), faults' \in 0..MaxFaults
    PROVE Kept'
  BY DEF Kept, Tables, RowsFit, people, members, rows, counters, issued

LEMMA BoundsKept ==
    ASSUME Kept
    PROVE /\ Quiet => calls' \in 0..(MaxCalls + MaxMore) /\ faults' \in 0..MaxFaults
          /\ Fault => calls' \in 0..(MaxCalls + MaxMore) /\ faults' \in 0..MaxFaults
  BY BoundsAssumption DEF Kept, Tables, Quiet, bounds, Fault

LEMMA BeginTyped ==
    ASSUME Typed, NEW q \in Requests, Starting(q) PROVE Kept' /\ Fits' /\ Watch
  <1>1. PICK r : Fresh(r) /\ Begin(q, r)
    BY Starts
  <1>2. calls' \in 0..(MaxCalls + MaxMore) /\ faults' \in 0..MaxFaults
    BY <1>1, BoundsAssumption DEF Begin, CallsAllowed, Typed, Kept, Tables
  <1>3. Kept'
    BY <1>1, <1>2, SameTables DEF Begin, Typed
  <1>4. Fits'
    BY <1>1, Moved DEF Begin, Fresh, Typed
  <1> QED
    BY <1>1, <1>3, <1>4 DEF Begin

\* The steps that change no table.
Looking(q) ==
    \/ SetupTaken(q) \/ FindRepo(q) \/ Refind(q) \/ TokenRepo(q) \/ TokenRole(q) \/ TokenTeam(q)
    \/ CheckMirror(q) \/ Serve(q) \/ Fail(q)

LEMMA TokenFits ==
    ASSUME Typed, NEW q \in Requests, TokenRepo(q) \/ TokenRole(q) \/ TokenTeam(q) PROVE Fits'
  <1>1. Fits /\ StageFits(req[q]) /\ FieldsFit(req[q]) /\ req[q] \in Request
    BY Stands DEF Typed
  <1>2. req[q].op = "token" /\ req[q].by \in Users
    BY <1>1 DEF TokenRepo, TokenRole, TokenTeam, At, StageFits, FieldsFit
  <1>3. ASSUME NEW s \in {"role", "team", "issue"}, NEW i \in RepoIds \cup {None}, NEW l \in Levels,
               NEW r, r = [req[q] EXCEPT !.id = i, !.at = s, !.level = l]
        PROVE Fit(r)
    <2>1. s \in Stages
      BY DEF Stages
    <2>2. /\ r \in Request /\ r.at = s /\ r.op = "token" /\ r.by = req[q].by
          /\ r.name = req[q].name
      BY <1>1, <1>2, <1>3, <2>1 DEF Request
    <2> QED
      BY <1>1, <1>2, <2>2 DEF Fit, StageFits, FieldsFit
  <1>4. req[q].id \in RepoIds \cup {None} /\ req[q].level \in Levels
    BY <1>1 DEF Request
  <1>5. CASE TokenRepo(q)
    <2> DEFINE i == Find(req[q].name)
               r == [req[q] EXCEPT !.id = i, !.at = "role", !.level = req[q].level]
    <2>1. CASE Done(q)
      BY <1>1, <2>1, Ended
    <2>2. CASE req' = [req EXCEPT ![q].id = i, ![q].at = "role"]
      <3>1. req' = [req EXCEPT ![q] = r]
        BY <1>1, <2>2 DEF Request, Fits
      <3>2. i \in RepoIds \cup {None}
        BY FindTyped
      <3>3. Fit(r)
        BY <1>3, <1>4, <3>2
      <3> HIDE DEF r
      <3> QED
        BY <1>1, <3>1, <3>3, Moved
    <2> QED
      BY <1>5, <2>1, <2>2 DEF TokenRepo
  <1>6. CASE TokenRole(q)
    <2> DEFINE i == req[q].id
               s == IF i = None THEN "issue" ELSE RoleSettles(role[req[q].by])
               l == IF s = "issue" THEN Least(req[q].level, Capability(role[req[q].by], 0, i # None))
                    ELSE req[q].level
               r == [req[q] EXCEPT !.id = i, !.at = s, !.level = l]
    <2>1. s \in {"team", "issue"}
      BY DEF RoleSettles
    <2>2. l \in Levels
      <3>1. role[req[q].by] \in Levels /\ 0 \in Levels
        BY <1>2 DEF Typed, Kept, Tables, Levels
      <3>2. Capability(role[req[q].by], 0, i # None) \in Levels
        BY <3>1, CapabilityLevel
      <3> QED
        BY <1>4, <3>2, LeastLevel
    <2>3. req' = [req EXCEPT ![q] = r]
      BY <1>1, <1>6 DEF TokenRole, Request, Fits
    <2> HIDE DEF s, l
    <2>4. Fit(r)
      BY <1>3, <1>4, <2>1, <2>2
    <2> HIDE DEF r
    <2> QED
      BY <1>1, <2>3, <2>4, Moved
  <1>7. CASE TokenTeam(q)
    <2> DEFINE l == Least(req[q].level, TeamGrant(req[q].by, req[q].id))
               r == [req[q] EXCEPT !.id = req[q].id, !.at = "issue", !.level = l]
    <2>1. TeamGrant(req[q].by, req[q].id) \in Levels
      BY <1>4, TeamGrantLevel DEF Typed, Kept
    <2>2. l \in Levels
      BY <1>4, <2>1, LeastLevel
    <2>3. req' = [req EXCEPT ![q] = r]
      BY <1>1, <1>7 DEF TokenTeam, Request, Fits
    <2> HIDE DEF l
    <2>4. Fit(r)
      BY <1>3, <1>4, <2>2
    <2> HIDE DEF r
    <2> QED
      BY <1>1, <2>3, <2>4, Moved
  <1> QED
    BY <1>5, <1>6, <1>7

LEMMA CheckMirrorFits ==
    ASSUME Typed, NEW q \in Requests, CheckMirror(q) PROVE Fits'
  <1>1. Fits /\ StageFits(req[q]) /\ FieldsFit(req[q]) /\ req[q] \in Request
    BY Stands DEF Typed
  <1>2. req[q].op = "push" /\ "repo" \in Stages
    BY <1>1 DEF CheckMirror, At, StageFits, Stages
  <1>3. \A r : r.op = "push" /\ r.at = "repo" => StageFits(r)
    BY DEF StageFits
  <1>4. CASE Goto(q, "repo")
    BY <1>1, <1>2, <1>3, <1>4, Gone
  <1>5. CASE Done(q)
    BY <1>1, <1>5, Ended
  <1> QED
    BY <1>4, <1>5 DEF CheckMirror

LEMMA ServeFits ==
    ASSUME Typed, NEW q \in Requests, Serve(q) PROVE Fits'
  <1>1. Fits /\ StageFits(req[q]) /\ FieldsFit(req[q])
    BY Stands DEF Typed
  <1>2. req[q].op = "pull" /\ req[q].id \in RepoIds /\ {"spawn", "manifest"} \subseteq Stages
    BY <1>1 DEF Serve, StageFits, FieldsFit, Stages
  <1>3. \A r : r.op = "pull" /\ r.at \in {"spawn", "manifest"} => StageFits(r)
    BY DEF StageFits
  <1>4. \/ Done(q) \/ Goto(q, "spawn") \/ Goto(q, "manifest")
    BY DEF Serve
  <1> QED
    BY <1>1, <1>2, <1>3, <1>4, Ended, Gone

LEMMA LookingTyped ==
    ASSUME Typed, NEW q \in Requests, Looking(q) PROVE Kept' /\ Fits' /\ Watch
  <1>1. Fits'
    <2>1. SetupTaken(q) \/ Fail(q) => Done(q)
      BY DEF SetupTaken, Fail
    <2> QED
      BY <2>1, Ended, FindRepoFits, RefindFits, TokenFits, CheckMirrorFits, ServeFits
         DEF Looking, Typed
  <1>2. /\ UNCHANGED <<people, members, rows, counters, issued>> /\ Watch
        /\ Quiet \/ Fault
    BY DEF Looking, SetupTaken, FindRepo, Refind, TokenRepo, TokenRole, TokenTeam, CheckMirror,
        Serve, Fail
  <1>3. Kept'
    BY <1>2, BoundsKept, SameTables DEF Typed
  <1> QED
    BY <1>1, <1>2, <1>3

-----------------------------------------------------------------------------
(***************************************************************************)
(* The steps that change a table                                           *)
(***************************************************************************)
LEMMA PeopleTyped ==
    ASSUME Typed, NEW q \in Requests,
           CreateFirstAdmin(q) \/ CreateOrg(q) \/ AddOwner(q)
    PROVE Kept' /\ Fits' /\ Watch
  <1> USE DEF people, members, rows, counters, issued, bounds, Quiet
  <1>1. Fits /\ StageFits(req[q]) /\ FieldsFit(req[q])
    BY Stands DEF Typed
  <1>2. CASE CreateFirstAdmin(q)
    <2>1. req[q].op = "setup" /\ req[q].by \in Users /\ "org" \in Stages
      BY <1>1, <1>2 DEF CreateFirstAdmin, FirstAdmin, At, StageFits, FieldsFit, Stages
    <2>2. Fits'
      <3>1. \A r : r.op = "setup" /\ r.at = "org" => StageFits(r)
        BY DEF StageFits
      <3> QED
        BY <1>1, <1>2, <2>1, <3>1, Gone DEF CreateFirstAdmin
    <2> QED
      BY <1>2, <2>1, <2>2 DEF CreateFirstAdmin, Typed, Kept, Tables, RowsFit
  <1>3. CASE CreateOrg(q)
    <2>1. req[q].op \in {"setup", "found"} /\ "owner" \in Stages
      BY <1>1, <1>3 DEF CreateOrg, At, StageFits, Stages
    <2>2. Fits'
      <3>1. \A r : r.op = req[q].op /\ r.at = "owner" => StageFits(r)
        BY <2>1 DEF StageFits
      <3> QED
        BY <1>1, <1>3, <2>1, <3>1, Gone, Ended DEF CreateOrg
    <2> QED
      BY <1>3, <2>2 DEF CreateOrg, Typed, Kept, Tables, RowsFit
  <1>4. CASE AddOwner(q)
    <2>1. Fits'
      BY <1>1, <1>4, Ended DEF AddOwner
    <2>2. role' \in [Users -> Levels]
      <3>1. RoleOwner \in Levels
        BY DEF RoleOwner, Levels
      <3> QED
        BY <1>4, <3>1 DEF AddOwner, Typed, Kept, Tables
    <2> QED
      BY <1>4, <2>1, <2>2 DEF AddOwner, Typed, Kept, Tables, RowsFit
  <1> QED
    BY <1>2, <1>3, <1>4

LEMMA MembersTyped ==
    ASSUME Typed, NEW q \in Requests,
           SetMember(q) \/ RemoveMember(q) \/ SetTeam(q) \/ SetTeamPerm(q)
    PROVE Kept' /\ Fits' /\ Watch
  <1> USE DEF people, members, rows, counters, issued, bounds, Quiet
  <1>1. Fits /\ StageFits(req[q]) /\ FieldsFit(req[q]) /\ req[q] \in Request
    BY Stands DEF Typed
  <1>2. Fits' /\ Watch
    <2>1. Done(q) /\ Watch
      BY DEF SetMember, RemoveMember, SetTeam, SetTeamPerm
    <2> QED
      BY <1>1, <2>1, Ended
  <1>3. CASE SetMember(q) \/ RemoveMember(q)
    <2>1. req[q].level \in Levels /\ 0 \in Levels
      BY <1>1 DEF Request, Levels
    <2>2. role' \in [Users -> Levels]
      BY <1>3, <2>1 DEF SetMember, RemoveMember, Typed, Kept, Tables
    <2> QED
      BY <1>2, <1>3, <2>2 DEF SetMember, RemoveMember, Typed, Kept, Tables, RowsFit
  <1>4. CASE SetTeam(q)
    <2>1. req[q].to \in Users
      BY <1>1, <1>4 DEF SetTeam, FieldsFit
    <2>2. inTeam' \in [Teams -> SUBSET Users]
      BY <1>4, <2>1 DEF SetTeam, Typed, Kept, Tables
    <2> QED
      BY <1>2, <1>4, <2>2 DEF SetTeam, Typed, Kept, Tables, RowsFit
  <1>5. CASE SetTeamPerm(q)
    <2>1. req[q].id \in RepoIds /\ req[q].level \in Levels /\ req[q].team \in Teams
      BY <1>1, <1>5 DEF SetTeamPerm, At, FieldsFit, Request
    <2>2. grant' \in [Teams -> [RepoIds -> Levels]]
      BY <1>5, <2>1 DEF SetTeamPerm, Typed, Kept, Tables
    <2>3. \A t \in Teams, i \in RepoIds : nameOf[i] = None => grant'[t][i] = grant[t][i]
      BY <1>5, <2>1 DEF SetTeamPerm, Typed, Kept, Tables
    <2> QED
      BY <1>2, <1>5, <2>2, <2>3 DEF SetTeamPerm, Typed, Kept, Tables, RowsFit
  <1> QED
    BY <1>3, <1>4, <1>5

LEMMA InsertTyped ==
    ASSUME Typed, NEW q \in Requests, InsertRepo(q) PROVE Kept' /\ Fits' /\ Watch
  <1> USE DEF people, members, rows, counters, issued, bounds, Quiet
  <1> DEFINE n == req[q].name
  <1>1. Fits /\ StageFits(req[q]) /\ FieldsFit(req[q]) /\ req[q] \in Request
    BY Stands DEF Typed
  <1>2. /\ req[q].op \in {"create", "push", "pull"} /\ n \in Names
        /\ {"manifest", "refind"} \subseteq Stages
    BY <1>1 DEF InsertRepo, At, StageFits, FieldsFit, Stages
  <1>3. CASE ~Insertable(n)
    <2>1. Goto(q, "refind") /\ UNCHANGED <<nameOf, used>>
      BY <1>3 DEF InsertRepo
    <2>2. \A r : r.op = req[q].op /\ r.at = "refind" => StageFits(r)
      BY <1>2 DEF StageFits
    <2>3. Fits'
      BY <1>1, <1>2, <2>1, <2>2, Gone
    <2> QED
      BY <2>1, <2>3 DEF InsertRepo, Typed, Kept, Tables, RowsFit
  <1>4. CASE Insertable(n)
    <2> PICK i \in RepoIds \ used :
          /\ nameOf' = [nameOf EXCEPT ![i] = n] /\ used' = used \cup {i}
          /\ req' = [req EXCEPT ![q] = IF req[q].op = "create" THEN NoRequest
                                       ELSE [req[q] EXCEPT !.id = i, !.at = "manifest"]]
      BY <1>4 DEF InsertRepo
    <2> DEFINE r == [req[q] EXCEPT !.id = i, !.at = "manifest"]
    <2>1. /\ r \in Request /\ r.at = "manifest" /\ r.id = i
          /\ r.op = req[q].op /\ r.by = req[q].by /\ r.name = req[q].name
      BY <1>1, <1>2 DEF Request
    <2>2. Done(q) \/ (req[q].op # "create" /\ req' = [req EXCEPT ![q] = r])
      BY DEF Done
    <2> HIDE DEF r
    <2>3. req[q].op # "create" => Fit(r)
      BY <1>1, <1>2, <2>1 DEF Fit, StageFits, FieldsFit
    <2>4. Fits'
      BY <1>1, <2>2, <2>3, Ended, Moved
    <2>5. \A j \in RepoIds : nameOf[j] # n
      BY <1>4, FindTyped DEF Insertable
    <2>6. nameOf[i] = None /\ n # None
      BY <1>2, NamesAssumption DEF Typed, Kept, RowsFit
    <2>7. RowsFit'
      BY <2>5, <2>6 DEF InsertRepo, Typed, Kept, Tables, RowsFit
    <2>8. Tables'
      BY <1>2 DEF InsertRepo, Typed, Kept, Tables
    <2> QED
      BY <2>4, <2>7, <2>8 DEF InsertRepo, Kept
  <1> QED
    BY <1>3, <1>4

LEMMA DropTyped ==
    ASSUME Typed, NEW q \in Requests, DropPulls(q) \/ DropRow(q) PROVE Kept' /\ Fits' /\ Watch
  <1> USE DEF people, members, rows, counters, issued, bounds, Quiet
  <1> DEFINE n == req[q].name
  <1>1. Fits /\ StageFits(req[q]) /\ FieldsFit(req[q])
    BY Stands DEF Typed
  <1>2. req[q].op = "drop" /\ n \in Names /\ "row" \in Stages
    BY <1>1 DEF DropPulls, DropRow, At, StageFits, FieldsFit, Stages
  <1>3. CASE DropPulls(q)
    <2>1. \A r : r.op = "drop" /\ r.at = "row" => StageFits(r)
      BY DEF StageFits
    <2>2. Fits'
      BY <1>1, <1>2, <1>3, <2>1, Gone DEF DropPulls
    <2>3. pulls' \in [Names -> Nat] /\ late' \in [Names -> Nat]
      BY <1>2, <1>3 DEF DropPulls, LeftPulls, Typed, Kept, Tables
    <2> QED
      BY <1>3, <2>2, <2>3 DEF DropPulls, Typed, Kept, Tables, RowsFit
  <1>4. CASE DropRow(q)
    <2>1. Fits'
      BY <1>1, <1>4, Ended DEF DropRow
    <2> DEFINE i == Find(n)
    <2>2. CASE i = None
      BY <1>4, <2>1, <2>2 DEF DropRow, Typed, Kept, Tables, RowsFit
    <2>3. CASE i # None
      <3>1. i \in RepoIds
        BY <2>3, FindTyped
      <3>2. /\ nameOf' = [nameOf EXCEPT ![i] = None] /\ image' = image \ {i}
            /\ grant' = [t \in Teams |-> [grant[t] EXCEPT ![i] = 0]]
            /\ pats' = PatsWithout(i) /\ counted' = [counted EXCEPT ![n] = 0]
            /\ UNCHANGED <<people, role, inTeam, used, made, pulls, bumps, late, issued>> /\ Watch
            /\ Quiet
        BY <1>4, <2>3 DEF DropRow
      <3>3. pats' \in [Pats -> Pat \cup {None}]
        BY <3>2 DEF PatsWithout, Typed, Kept, Tables
      <3>4. grant' \in [Teams -> [RepoIds -> Levels]]
        BY <3>1, <3>2 DEF Typed, Kept, Tables, Levels
      <3> HIDE DEF i
      <3>5. Tables'
        BY <1>2, <3>1, <3>2, <3>3, <3>4 DEF Typed, Kept, Tables
      <3>6. RowsFit'
        BY <3>1, <3>2 DEF Typed, Kept, Tables, RowsFit
      <3> QED
        BY <2>1, <3>2, <3>5, <3>6 DEF Kept
    <2> QED
      BY <2>2, <2>3
  <1> QED
    BY <1>3, <1>4

LEMMA GrantedTyped ==
    ASSUME Typed, NEW q \in Requests, CreatePat(q) \/ Issue(q) PROVE Kept' /\ Fits' /\ Watch
  <1> USE DEF people, members, rows, counters, issued, bounds, Quiet
  <1>1. Fits /\ StageFits(req[q]) /\ FieldsFit(req[q]) /\ req[q] \in Request
    BY Stands DEF Typed
  <1>2. Fits' /\ Watch
    <2>1. Done(q) /\ Watch
      BY DEF CreatePat, Issue
    <2> QED
      BY <1>1, <2>1, Ended
  <1>3. CASE CreatePat(q)
    <2> DEFINE sc == IF req[q].scope.kind = "repo" THEN [req[q].scope EXCEPT !.repo = req[q].id]
                     ELSE req[q].scope
    <2>1. req[q].by \in Users /\ req[q].level \in 1..3
      BY <1>1, <1>3 DEF CreatePat, At, StageFits, FieldsFit
    <2>2. sc \in Scope
      BY <1>1 DEF Request, Scope
    <2>3. \/ UNCHANGED <<pats, made>>
          \/ \E p \in Pats : /\ pats' = [pats EXCEPT ![p] = [user |-> req[q].by, scope |-> sc, cap |-> req[q].level]]
                             /\ made' = [made EXCEPT ![p] = sc]
      BY <1>3 DEF CreatePat
    <2> HIDE DEF sc
    <2>4. pats' \in [Pats -> Pat \cup {None}] /\ made' \in [Pats -> Scope \cup {None}]
      <3> DEFINE row == [user |-> req[q].by, scope |-> sc, cap |-> req[q].level]
      <3>1. row \in Pat
        BY <2>1, <2>2 DEF Pat
      <3>2. \/ UNCHANGED <<pats, made>>
            \/ \E p \in Pats : pats' = [pats EXCEPT ![p] = row] /\ made' = [made EXCEPT ![p] = sc]
        BY <2>3
      <3> HIDE DEF row
      <3> QED
        BY <2>2, <3>1, <3>2 DEF Typed, Kept, Tables
    <2> QED
      BY <1>2, <1>3, <2>4 DEF CreatePat, Typed, Kept, Tables, RowsFit
  <1>4. CASE Issue(q)
    <2> DEFINE t == [user |-> req[q].by, name |-> req[q].name, level |-> req[q].level]
    <2>1. req[q].by \in Users /\ req[q].name \in Names /\ req[q].level \in Levels
      BY <1>1, <1>4 DEF Issue, At, StageFits, FieldsFit, Request
    <2>2. \A set \in {tokens, unfounded, strayed} : set \in SUBSET Grant
      BY DEF Typed, Kept, Tables
    <2>3. t.level # 0 => t \in Grant
      BY <2>1 DEF Grant, Levels
    <2>4. /\ tokens' = tokens \/ (t.level # 0 /\ tokens' = tokens \cup {t})
          /\ unfounded' = unfounded \/ (t.level # 0 /\ unfounded' = unfounded \cup {t})
          /\ strayed' = strayed \/ (t.level # 0 /\ strayed' = strayed \cup {t})
      BY <1>4 DEF Issue
    <2> HIDE DEF t
    <2>5. tokens' \in SUBSET Grant /\ unfounded' \in SUBSET Grant /\ strayed' \in SUBSET Grant
      BY <2>2, <2>3, <2>4
    <2> QED
      BY <1>2, <1>4, <2>5 DEF Issue, Typed, Kept, Tables, RowsFit
  <1> QED
    BY <1>3, <1>4

LEMMA ImageTyped ==
    ASSUME Typed, NEW q \in Requests, PutManifest(q) \/ DeleteManifest(q) PROVE Kept' /\ Fits' /\ Watch
  <1> USE DEF people, members, rows, counters, issued, bounds, Quiet
  <1>1. Fits /\ StageFits(req[q]) /\ FieldsFit(req[q])
    BY Stands DEF Typed
  <1>2. CASE PutManifest(q)
    <2>1. req[q].op \in {"push", "pull"} /\ req[q].id \in RepoIds /\ "retry" \in Stages
      BY <1>1, <1>2 DEF PutManifest, At, StageFits, FieldsFit, Stages
    <2>2. Fits'
      <3>1. CASE req[q].op = "pull"
        <4>1. \A r : r.op = req[q].op /\ r.at = "retry" => StageFits(r)
          BY <3>1 DEF StageFits
        <4> QED
          BY <1>1, <1>2, <2>1, <3>1, <4>1, Gone DEF PutManifest
      <3>2. CASE req[q].op # "pull"
        BY <1>1, <1>2, <3>2, Ended DEF PutManifest
      <3> QED
        BY <3>1, <3>2
    <2>3. image' \subseteq used
      BY <1>2, <2>1 DEF PutManifest, Typed, Kept, Tables, RowsFit
    <2> QED
      BY <1>2, <2>2, <2>3 DEF PutManifest, Typed, Kept, Tables, RowsFit
  <1>3. CASE DeleteManifest(q)
    <2>1. Fits'
      BY <1>1, <1>3, Ended DEF DeleteManifest
    <2> QED
      BY <1>3, <2>1 DEF DeleteManifest, Typed, Kept, Tables, RowsFit
  <1> QED
    BY <1>2, <1>3

LEMMA BumpTyped ==
    ASSUME Typed, NEW q \in Requests, SpawnBump(q) PROVE Kept' /\ Fits' /\ Watch
  <1> USE DEF people, members, rows, counters, issued, bounds, Quiet
  <1> DEFINE n == req[q].name
  <1>1. Fits /\ StageFits(req[q]) /\ FieldsFit(req[q])
    BY Stands DEF Typed
  <1>2. n \in Names /\ Fits'
    BY <1>1, Ended DEF SpawnBump, At, StageFits, FieldsFit
  <1>3. /\ bumps' = bumps \/ bumps' = [bumps EXCEPT ![n] = bumps[n] + 1]
        /\ counted' = counted \/ counted' = [counted EXCEPT ![n] = counted[n] + 1]
        /\ late' = late \/ late' = [late EXCEPT ![n] = late[n] + 1]
    BY DEF SpawnBump
  <1>4. bumps' \in [Names -> Nat] /\ counted' \in [Names -> Nat] /\ late' \in [Names -> Nat]
    <2>1. ASSUME NEW f \in [Names -> Nat] PROVE [f EXCEPT ![n] = f[n] + 1] \in [Names -> Nat]
      BY <1>2
    <2>2. bumps \in [Names -> Nat] /\ counted \in [Names -> Nat] /\ late \in [Names -> Nat]
      BY DEF Typed, Kept, Tables
    <2> QED
      BY <1>3, <2>1, <2>2
  <1> QED
    BY <1>2, <1>4 DEF SpawnBump, Typed, Kept, Tables, RowsFit

\* The steps of no request.
Aside ==
    \/ \E u \in Users : CreateUser(u)
    \/ SetUpstream
    \/ \E p \in Pats : DeletePat(p)
    \/ \E t \in tokens : Expire(t)
    \/ \E n \in Names : BumpImagePull(n)

LEMMA AsideTyped ==
    ASSUME Typed, Aside PROVE Kept' /\ Fits' /\ Watch /\ req' = req
  <1> USE DEF people, members, rows, counters, issued, bounds, Quiet
  <1>1. req' = req /\ Watch
    BY DEF Aside, CreateUser, SetUpstream, DeletePat, Expire, BumpImagePull
  <1>2. Fits'
    BY <1>1 DEF Typed, Fits, Fit, StageFits, FieldsFit
  <1>3. ASSUME NEW u \in Users, CreateUser(u) PROVE Kept'
    BY <1>3 DEF CreateUser, Typed, Kept, Tables, RowsFit
  <1>4. ASSUME SetUpstream PROVE Kept'
    <2>1. calls' \in 0..(MaxCalls + MaxMore) /\ faults' \in 0..MaxFaults
      BY <1>4, BoundsAssumption DEF SetUpstream, Typed, Kept, Tables
    <2>2. mirror' \in BOOLEAN
      BY <1>4 DEF SetUpstream
    <2> QED
      BY <1>4, <2>1, <2>2 DEF SetUpstream, Typed, Kept, Tables, RowsFit
  <1>5. ASSUME NEW p \in Pats, DeletePat(p) PROVE Kept'
    BY <1>5 DEF DeletePat, Typed, Kept, Tables, RowsFit
  <1>6. ASSUME NEW t \in tokens, Expire(t) PROVE Kept'
    BY <1>6 DEF Expire, Typed, Kept, Tables, RowsFit
  <1>7. ASSUME NEW n \in Names, BumpImagePull(n) PROVE Kept'
    <2>1. pulls' \in [Names -> Nat] /\ bumps' \in [Names -> Nat]
      BY <1>7 DEF BumpImagePull, Typed, Kept, Tables
    <2> QED
      BY <1>7, <2>1 DEF BumpImagePull, Typed, Kept, Tables, RowsFit
  <1> QED
    BY <1>1, <1>2, <1>3, <1>4, <1>5, <1>6, <1>7 DEF Aside

\* The steps of a request that change a table.
Changing(q) ==
    \/ CreateFirstAdmin(q) \/ CreateOrg(q) \/ AddOwner(q)
    \/ SetMember(q) \/ RemoveMember(q) \/ SetTeam(q) \/ SetTeamPerm(q)
    \/ InsertRepo(q) \/ DropPulls(q) \/ DropRow(q)
    \/ CreatePat(q) \/ Issue(q)
    \/ PutManifest(q) \/ DeleteManifest(q) \/ SpawnBump(q)

LEMMA NextCases ==
    Next <=> Aside \/ \E q \in Requests : Starting(q) \/ Looking(q) \/ Changing(q)
  BY DEF Next, Setup, Organization, Administer, Repository, Token, Dispatch, Starting, Looking,
      Changing, Aside

LEMMA InitTyped == Init => Typed
  <1> SUFFICES ASSUME Init PROVE Typed
    OBVIOUS
  <1>1. Fits
    BY NoRequestFits DEF Init, Fits, Fit
  <1>2. seen \in [Requests -> SUBSET Moment]
    BY DEF Init
  <1> DEFINE Parts ==
        /\ users \in SUBSET Users /\ org \in BOOLEAN /\ role \in [Users -> Levels]
        /\ inTeam \in [Teams -> SUBSET Users] /\ grant \in [Teams -> [RepoIds -> Levels]]
        /\ nameOf \in [RepoIds -> Names \cup {None}] /\ image \in SUBSET used
        /\ used \in SUBSET RepoIds /\ RowsFit
        /\ pats \in [Pats -> Pat \cup {None}] /\ tokens \in SUBSET Grant
  <1>3. ASSUME NeverSetUp PROVE Parts
    <2>1. /\ users = {} /\ org = FALSE /\ role = [u \in Users |-> 0] /\ 0 \in Levels
          /\ inTeam = [t \in Teams |-> {}] /\ image = {} /\ used = {}
      BY <1>3 DEF NeverSetUp, Levels
    <2>2. /\ grant = [t \in Teams |-> [i \in RepoIds |-> 0]] /\ nameOf = [i \in RepoIds |-> None]
          /\ pats = [p \in Pats |-> None] /\ tokens = {}
      BY <1>3 DEF NeverSetUp
    <2>3. grant \in [Teams -> [RepoIds -> Levels]] /\ RowsFit
      BY <2>1, <2>2 DEF RowsFit
    <2> QED
      BY <2>1, <2>2, <2>3
  <1>4. ASSUME InUse PROVE Parts
    <2> PICK n \in Names, i \in RepoIds, live \in BOOLEAN :
          /\ nameOf = [x \in RepoIds |-> IF x = i /\ live THEN n ELSE None]
          /\ grant \in [Teams -> [RepoIds -> {0, Push}]]
          /\ \A t \in Teams, x \in RepoIds : nameOf[x] = None => grant[t][x] = 0
          /\ used = {i} /\ image = IF live THEN {i} ELSE {}
          /\ \E u \in Users :
              /\ role[u] # 0
              /\ pats \in [Pats -> IF ~live THEN {None} ELSE {None, [user |-> u, cap |-> Push,
                                        scope |-> [kind |-> "repo", repo |-> i]]}]
              /\ tokens \in {{}, {[user |-> u, name |-> n, level |-> Push]}}
      BY <1>4, Zenon DEF InUse
    <2> PICK u \in Users :
          /\ pats \in [Pats -> IF ~live THEN {None} ELSE {None, [user |-> u, cap |-> Push,
                                    scope |-> [kind |-> "repo", repo |-> i]]}]
          /\ tokens \in {{}, {[user |-> u, name |-> n, level |-> Push]}}
      OBVIOUS
    <2>1. {0, RoleMember, RoleOwner} \subseteq Levels /\ {0, Push} \subseteq Levels
      BY DEF Levels, RoleMember, RoleOwner, Push
    <2>2. users = Users /\ org = TRUE /\ role \in [Users -> Levels] /\ inTeam \in [Teams -> SUBSET Users]
      <3>1. /\ users = Users /\ org = TRUE /\ role \in [Users -> {0, RoleMember, RoleOwner}]
            /\ inTeam \in [Teams -> {{x \in Users : role[x] # RoleOwner}}]
        BY <1>4 DEF InUse
      <3>2. {x \in Users : role[x] # RoleOwner} \in SUBSET Users
        OBVIOUS
      <3> QED
        BY <2>1, <3>1, <3>2
    <2>3. grant \in [Teams -> [RepoIds -> Levels]]
      BY <2>1
    <2>4. RowsFit /\ image \in SUBSET used /\ used \in SUBSET RepoIds /\
          nameOf \in [RepoIds -> Names \cup {None}]
      BY NamesAssumption DEF RowsFit
    <2>5. pats \in [Pats -> Pat \cup {None}]
      <3>1. [user |-> u, cap |-> Push, scope |-> [kind |-> "repo", repo |-> i]] \in Pat
        BY DEF Pat, Scope, Push
      <3> QED
        BY <3>1
    <2>6. tokens \in SUBSET Grant
      <3>1. [user |-> u, name |-> n, level |-> Push] \in Grant
        BY DEF Grant, Push
      <3> QED
        BY <3>1
    <2> QED
      BY <2>2, <2>3, <2>4, <2>5, <2>6
  <1>5. Parts
    BY <1>3, <1>4 DEF Init
  <1>6. made \in [Pats -> Scope \cup {None}]
    <2>1. made = [p \in Pats |-> IF pats[p] = None THEN None ELSE pats[p].scope]
      BY DEF Init
    <2>2. \A p \in Pats : pats[p] # None => pats[p].scope \in Scope
      BY <1>5 DEF Pat
    <2> QED
      BY <2>1, <2>2
  <1>7. mirror \in BOOLEAN
    BY <1>5 DEF Init
  <1> QED
    BY <1>1, <1>2, <1>5, <1>6, <1>7, BoundsAssumption DEF Init, Typed, Kept, Tables

LEMMA NextTyped ==
    ASSUME Typed, Next PROVE Typed' /\ Watch
  <1>1. Kept' /\ Fits' /\ Watch
    BY NextCases, AsideTyped, BeginTyped, LookingTyped, PeopleTyped, MembersTyped, InsertTyped,
       DropTyped, GrantedTyped, ImageTyped, BumpTyped DEF Changing
  <1> QED
    BY <1>1, Watched DEF Typed, Kept

LEMMA StepTyped == Typed /\ [Next]_vars => Typed'
  <1> SUFFICES ASSUME Typed, [Next]_vars PROVE Typed'
    OBVIOUS
  <1>1. CASE UNCHANGED vars
    BY <1>1 DEF vars, people, members, rows, counters, issued, bounds, Typed, Kept, Tables, RowsFit,
        Fits, Fit, StageFits, FieldsFit
  <1> QED
    BY <1>1, NextTyped

\* Every variable has its type.
THEOREM TypeCorrect == Spec => []TypeOK
  BY InitTyped, StepTyped, TypedOK, PTL DEF Spec

-----------------------------------------------------------------------------
(***************************************************************************)
(* What a step leaves of the requests and the tables                       *)
(***************************************************************************)
LEMMA Went ==
    ASSUME Fits, NEW q \in Requests, NEW s, Goto(q, s)
    PROVE /\ \A x \in Requests : x # q => req'[x] = req[x]
          /\ req'[q].at = s /\ req'[q].op = req[q].op /\ req'[q].by = req[q].by
          /\ req'[q].name = req[q].name /\ req'[q].id = req[q].id
          /\ req'[q].scope = req[q].scope
  <1>1. req[q] \in Request
    BY DEF Fits
  <1> QED
    BY <1>1 DEF Goto, Fits, Request

\* A request that goes on keeps what it was asked for.
GoesOn(q) ==
    /\ req'[q].op = req[q].op /\ req'[q].by = req[q].by /\ req'[q].name = req[q].name
    /\ req'[q].scope = req[q].scope
    /\ req'[q].id \in {req[q].id, Find(req[q].name)} \/ InsertRepo(q)
    /\ req'[q].id # req[q].id => req[q].name \in Names
    /\ req[q].op = "drop" => DropPulls(q)
    /\ req[q].op = "token" => TokenRepo(q) \/ TokenRole(q) \/ TokenTeam(q)

LEMMA OwnStep ==
    ASSUME Typed, NEW q \in Requests, Looking(q) \/ Changing(q)
    PROVE /\ \A x \in Requests : x # q => req'[x] = req[x]
          /\ req'[q] = NoRequest \/ GoesOn(q)
  <1>1. Fits /\ StageFits(req[q]) /\ FieldsFit(req[q]) /\ req[q] \in Request
    BY Stands DEF Typed
  <1>2. CASE Done(q)
    BY <1>1, <1>2, Ended
  <1>3. ASSUME NEW s, Goto(q, s), DropPulls(q) \/ req[q].op \notin {"drop", "token"}
        PROVE (\A x \in Requests : x # q => req'[x] = req[x]) /\ GoesOn(q)
    <2>1. req[q].op = "token" => ~DropPulls(q)
      BY <1>1 DEF DropPulls, At, StageFits
    <2> QED
      BY <1>1, <1>3, <2>1, Went DEF GoesOn
  <1>4. CASE Changing(q) /\ ~InsertRepo(q)
    <2>1. \/ Done(q)
          \/ Goto(q, "org") /\ At(q, "first")
          \/ Goto(q, "owner") /\ At(q, "org")
          \/ Goto(q, "row") /\ DropPulls(q)
          \/ Goto(q, "retry") /\ At(q, "manifest")
      <3>1. CASE CreateFirstAdmin(q) \/ CreateOrg(q) \/ DropPulls(q) \/ PutManifest(q)
        <4>1. CreateFirstAdmin(q) => Goto(q, "org") /\ At(q, "first")
          BY DEF CreateFirstAdmin, FirstAdmin
        <4>2. CreateOrg(q) => Done(q) \/ (Goto(q, "owner") /\ At(q, "org"))
          BY DEF CreateOrg
        <4>3. DropPulls(q) => Goto(q, "row")
          BY DEF DropPulls
        <4>4. PutManifest(q) => Done(q) \/ (Goto(q, "retry") /\ At(q, "manifest"))
          BY DEF PutManifest
        <4> QED
          BY <3>1, <4>1, <4>2, <4>3, <4>4
      <3>2. CASE \/ AddOwner(q) \/ SetMember(q) \/ RemoveMember(q) \/ SetTeam(q) \/ SetTeamPerm(q)
                 \/ DropRow(q) \/ CreatePat(q) \/ Issue(q) \/ DeleteManifest(q) \/ SpawnBump(q)
        BY <3>2 DEF AddOwner, SetMember, RemoveMember, SetTeam, SetTeamPerm, DropRow, CreatePat, Issue,
            DeleteManifest, SpawnBump
      <3> QED
        BY <1>4, <3>1, <3>2 DEF Changing
    <2>2. /\ DropPulls(q) => req[q].at = "pulls"
          /\ req[q].at \in {"first", "org", "manifest"} => req[q].op \notin {"drop", "token"}
      BY <1>1 DEF DropPulls, At, StageFits
    <2> QED
      BY <1>2, <1>3, <2>1, <2>2 DEF At
  <1>5. CASE SetupTaken(q) \/ Fail(q)
    BY <1>2, <1>5 DEF SetupTaken, Fail
  <1>6. CASE Serve(q)
    <2>1. \/ Done(q) \/ Goto(q, "spawn") \/ Goto(q, "manifest")
      BY <1>6 DEF Serve
    <2>2. req[q].op = "pull" /\ req[q].at # "mirror"
      BY <1>1, <1>6 DEF Serve, StageFits
    <2> QED
      BY <1>2, <1>3, <2>1, <2>2
  <1>7. CASE CheckMirror(q)
    <2>1. req[q].op = "push"
      BY <1>1, <1>7 DEF CheckMirror, At, StageFits
    <2> QED
      BY <1>2, <1>3, <1>7, <2>1 DEF CheckMirror
  <1>8. CASE FindRepo(q) \/ Refind(q) \/ InsertRepo(q)
    <2>1. req[q].op \notin {"drop", "token"} /\ req[q].at # "mirror" /\ req[q].name \in Names
      BY <1>1, <1>8 DEF FindRepo, Refind, InsertRepo, At, StageFits, FieldsFit
    <2>2. \/ Done(q)
          \/ Goto(q, "insert") \/ Goto(q, "refind")
          \/ \E i \in RepoIds \cup {None} :
                /\ i = Find(req[q].name) \/ InsertRepo(q)
                /\ \/ req' = [req EXCEPT ![q] = [req[q] EXCEPT !.id = i, !.at = "manifest"]]
                   \/ req' = [req EXCEPT ![q] = [req[q] EXCEPT !.id = i, !.at = Found(req[q].op)]]
                      /\ req[q].op # "create"
      <3>1. Find(req[q].name) \in RepoIds \cup {None}
        BY FindTyped
      <3>2. CASE FindRepo(q)
        BY <3>1, <3>2 DEF FindRepo
      <3>3. CASE Refind(q)
        BY <3>1, <3>3 DEF Refind, Done
      <3>4. CASE InsertRepo(q)
        <4>1. CASE Goto(q, "refind")
          BY <4>1
        <4>2. ASSUME NEW i \in RepoIds,
                     req' = [req EXCEPT ![q] = IF req[q].op = "create" THEN NoRequest
                                               ELSE [req[q] EXCEPT !.id = i, !.at = "manifest"]]
              PROVE Done(q) \/ req' = [req EXCEPT ![q] = [req[q] EXCEPT !.id = i, !.at = "manifest"]]
          BY <4>2 DEF Done
        <4> QED
          BY <3>4, <4>1, <4>2 DEF InsertRepo
      <3> QED
        BY <1>8, <3>2, <3>3, <3>4
    <2>3. ASSUME NEW i \in RepoIds \cup {None}, i = Find(req[q].name) \/ InsertRepo(q),
                 NEW s, s # "mirror",
                 req' = [req EXCEPT ![q] = [req[q] EXCEPT !.id = i, !.at = s]]
          PROVE (\A x \in Requests : x # q => req'[x] = req[x]) /\ GoesOn(q)
      BY <1>1, <2>1, <2>3 DEF GoesOn, Fits, Request
    <2>4. req[q].op \in {"perm", "pat", "push", "delete", "pull"} => Found(req[q].op) # "mirror"
      BY DEF Found
    <2>5. FindRepo(q) /\ req[q].op # "create" => req[q].op \in {"perm", "pat", "push", "delete", "pull"}
      BY <1>1 DEF FindRepo, At, StageFits
    <2>6. Refind(q) \/ InsertRepo(q) => req[q].op \in {"create", "push", "pull"}
      BY <1>1 DEF Refind, InsertRepo, At, StageFits
    <2>7. req[q].op # "create" => Found(req[q].op) # "mirror"
      BY <1>8, <2>4, <2>5, <2>6
    <2> QED
      BY <1>2, <1>3, <2>1, <2>2, <2>3, <2>7
  <1>9. CASE TokenRepo(q) \/ TokenRole(q) \/ TokenTeam(q)
    <2>1. req[q].op = "token" /\ req[q].name \in Names
      BY <1>1, <1>9 DEF TokenRepo, TokenRole, TokenTeam, At, StageFits, FieldsFit
    <2>2. CASE TokenRepo(q)
      BY <1>1, <1>2, <2>1, <2>2 DEF TokenRepo, GoesOn, Fits, Request
    <2>3. CASE TokenRole(q)
      BY <1>1, <2>1, <2>3 DEF TokenRole, GoesOn, Fits, Request
    <2>4. CASE TokenTeam(q)
      BY <1>1, <2>1, <2>4 DEF TokenTeam, GoesOn, Fits, Request
    <2> QED
      BY <1>9, <2>2, <2>3, <2>4
  <1> QED
    BY <1>4, <1>5, <1>6, <1>7, <1>8, <1>9 DEF Looking, Changing

\* Which steps change which tables.
LEMMA StepChanges ==
    ASSUME Typed, Next
    PROVE /\ \/ users' = users /\ founders' = founders
             \/ \E q \in Requests : CreateFirstAdmin(q)
             \/ \E u \in Users : CreateUser(u)
          /\ \/ pats' = pats /\ made' = made
             \/ \E q \in Requests : CreatePat(q) \/ DropRow(q)
             \/ \E p \in Pats : DeletePat(p)
          /\ \/ UNCHANGED counters
             \/ \E q \in Requests : DropPulls(q) \/ DropRow(q) \/ SpawnBump(q)
             \/ \E n \in Names : BumpImagePull(n)
          /\ \/ unfounded' = unfounded
             \/ \E q \in Requests : Issue(q)
          /\ \/ strayed' = strayed
             \/ \E q \in Requests : Issue(q)
          /\ \/ nameOf' = nameOf /\ used' = used
             \/ \E q \in Requests : InsertRepo(q) \/ DropRow(q)
  <1> USE DEF people, members, rows, counters, issued
  <1>1. ASSUME NEW q \in Requests, Starting(q)
        PROVE UNCHANGED <<users, founders, pats, made, counters, unfounded, strayed, nameOf, used>>
    BY <1>1, Starts DEF Begin
  <1>2. ASSUME NEW q \in Requests, Looking(q)
        PROVE UNCHANGED <<users, founders, pats, made, counters, unfounded, strayed, nameOf, used>>
    BY <1>2 DEF Looking, SetupTaken, FindRepo, Refind, TokenRepo, TokenRole, TokenTeam, CheckMirror,
        Serve, Fail
  <1>3. ASSUME Aside
        PROVE /\ UNCHANGED <<unfounded, strayed, nameOf, used>>
              /\ UNCHANGED <<users, founders>> \/ \E u \in Users : CreateUser(u)
              /\ UNCHANGED <<pats, made>> \/ \E p \in Pats : DeletePat(p)
              /\ UNCHANGED counters \/ \E n \in Names : BumpImagePull(n)
    BY <1>3 DEF Aside, CreateUser, SetUpstream, DeletePat, Expire, BumpImagePull
  <1>4. ASSUME NEW q \in Requests, Changing(q)
        PROVE /\ UNCHANGED <<users, founders>> \/ CreateFirstAdmin(q)
              /\ UNCHANGED <<pats, made>> \/ CreatePat(q) \/ DropRow(q)
              /\ UNCHANGED counters \/ DropPulls(q) \/ DropRow(q) \/ SpawnBump(q)
              /\ UNCHANGED <<unfounded, strayed>> \/ Issue(q)
              /\ UNCHANGED <<nameOf, used>> \/ InsertRepo(q) \/ DropRow(q)
    <2>1. CASE \/ CreateFirstAdmin(q) \/ CreateOrg(q) \/ AddOwner(q) \/ SetMember(q)
               \/ RemoveMember(q) \/ SetTeam(q) \/ SetTeamPerm(q)
      BY <2>1 DEF CreateFirstAdmin, CreateOrg, AddOwner, SetMember, RemoveMember, SetTeam, SetTeamPerm
    <2>2. CASE InsertRepo(q) \/ DeleteManifest(q) \/ DropPulls(q)
      BY <2>2 DEF InsertRepo, DeleteManifest, DropPulls
    <2>3. CASE DropRow(q)
      BY <2>3 DEF DropRow
    <2>4. CASE CreatePat(q) \/ Issue(q)
      BY <2>4 DEF CreatePat, Issue
    <2>5. CASE PutManifest(q) \/ SpawnBump(q)
      BY <2>5 DEF PutManifest, SpawnBump
    <2> QED
      BY <1>4, <2>1, <2>2, <2>3, <2>4, <2>5 DEF Changing
  <1> QED
    BY <1>1, <1>2, <1>3, <1>4, NextCases

-----------------------------------------------------------------------------
(***************************************************************************)
(* One first run, tokens with their scope, and pulls                       *)
(***************************************************************************)
\* Founders are users, and the insert that finds no user makes the first.
OneFounder == founders \subseteq users /\ \A a, b \in founders : a = b

\* However many first runs race, at most one makes its administrator.
THEOREM SetupHappensOnce == Spec => []SetupOnce
  <1>1. Init => OneFounder
    BY DEF Init, OneFounder
  <1>2. Typed /\ OneFounder /\ [Next]_vars => OneFounder'
    <2> SUFFICES ASSUME Typed, OneFounder, [Next]_vars PROVE OneFounder'
      OBVIOUS
    <2>1. ASSUME NEW q \in Requests, CreateFirstAdmin(q) PROVE OneFounder'
      <3>1. founders = {} /\ founders' = founders \cup {req[q].by} /\ users' = users \cup {req[q].by}
        BY <2>1 DEF CreateFirstAdmin, FirstAdmin, OneFounder
      <3> QED
        BY <3>1 DEF OneFounder
    <2>2. ASSUME NEW u \in Users, CreateUser(u) PROVE OneFounder'
      BY <2>2 DEF CreateUser, OneFounder
    <2>3. CASE users' = users /\ founders' = founders
      BY <2>3 DEF OneFounder
    <2>4. CASE UNCHANGED vars
      BY <2>3, <2>4 DEF vars, people
    <2> QED
      BY <2>1, <2>2, <2>3, <2>4, StepChanges
  <1>3. OneFounder => SetupOnce
    <2> SUFFICES ASSUME OneFounder PROVE Cardinality(founders) <= 1
      BY DEF SetupOnce
    <2>1. CASE founders = {}
      BY <2>1, FS_EmptySet
    <2>2. ASSUME NEW a \in founders PROVE Cardinality(founders) <= 1
      <3>1. founders = {a}
        BY DEF OneFounder
      <3>2. Cardinality({a}) = 1
        BY FS_Singleton
      <3> QED
        BY <3>1, <3>2
    <2> QED
      BY <2>1, <2>2
  <1> QED
    BY InitTyped, StepTyped, <1>1, <1>2, <1>3, PTL DEF Spec

\* A token has the scope it was made with, and for a repository names one.
ScopesKept == \A p \in Pats : pats[p] # None =>
    /\ pats[p].scope = made[p]
    /\ pats[p].scope.kind = "repo" => pats[p].scope.repo # None

LEMMA ScopesStay == Spec => []ScopesKept
  <1>1. Init => ScopesKept
    <2> SUFFICES ASSUME Init, NEW p \in Pats, pats[p] # None
                 PROVE /\ pats[p].scope = made[p]
                       /\ pats[p].scope.kind = "repo" => pats[p].scope.repo # None
      BY DEF ScopesKept
    <2>1. pats[p].scope = made[p]
      BY DEF Init
    <2>2. InUse
      BY DEF Init, NeverSetUp
    <2>3. PICK i \in RepoIds, u \in Users : pats[p] = [user |-> u, cap |-> Push,
                                                     scope |-> [kind |-> "repo", repo |-> i]]
      BY <2>2 DEF InUse
    <2> QED
      BY <2>1, <2>3, NamesAssumption
  <1>2. Typed /\ ScopesKept /\ [Next]_vars => ScopesKept'
    <2> SUFFICES ASSUME Typed, ScopesKept, [Next]_vars PROVE ScopesKept'
      OBVIOUS
    <2>1. ASSUME NEW q \in Requests, CreatePat(q) PROVE ScopesKept'
      <3> DEFINE sc == IF req[q].scope.kind = "repo" THEN [req[q].scope EXCEPT !.repo = req[q].id]
                       ELSE req[q].scope
                 row == [user |-> req[q].by, scope |-> sc, cap |-> req[q].level]
      <3>1. /\ req[q].scope \in Scope
            /\ req[q].scope.kind = "repo" => req[q].id \in RepoIds
        BY <2>1, Stands DEF CreatePat, At, Typed, FieldsFit, Request
      <3>2. sc.kind = "repo" => sc.repo # None
        BY <3>1, NamesAssumption DEF Scope
      <3>3. \/ UNCHANGED <<pats, made>>
            \/ \E p \in Pats : pats' = [pats EXCEPT ![p] = row] /\ made' = [made EXCEPT ![p] = sc]
        BY <2>1 DEF CreatePat
      <3>4. row.scope = sc
        OBVIOUS
      <3> HIDE DEF sc, row
      <3> QED
        BY <3>2, <3>3, <3>4 DEF ScopesKept, Typed, Kept, Tables
    <2>2. ASSUME NEW q \in Requests, DropRow(q) PROVE ScopesKept'
      <3>1. made' = made
        BY <2>2 DEF DropRow, rows
      <3>2. \A p \in Pats : pats'[p] # None => pats'[p] = pats[p]
        BY <2>2 DEF DropRow, PatsWithout
      <3> QED
        BY <3>1, <3>2 DEF ScopesKept
    <2>3. ASSUME NEW p \in Pats, DeletePat(p) PROVE ScopesKept'
      BY <2>3 DEF DeletePat, ScopesKept, Typed, Kept, Tables
    <2>4. CASE pats' = pats /\ made' = made
      BY <2>4 DEF ScopesKept
    <2>5. CASE UNCHANGED vars
      BY <2>4, <2>5 DEF vars, rows
    <2> QED
      BY <2>1, <2>2, <2>3, <2>4, <2>5, StepChanges
  <1> QED
    BY InitTyped, StepTyped, <1>1, <1>2, PTL DEF Spec

\* While a deletion is between its two statements, the counters of the name hold
\* only what is late.
Counted == \A n \in Names :
    /\ pulls[n] + bumps[n] <= counted[n] + late[n]
    /\ Dropping(n) => pulls[n] + bumps[n] <= late[n]

LEMMA DroppingNext ==
    ASSUME Typed, Next, NEW n \in Names, Dropping(n)'
    PROVE Dropping(n) \/ \E q \in Requests : DropPulls(q) /\ req[q].name = n
  <1>1. PICK x \in Requests : req'[x].op = "drop" /\ req'[x].at = "row" /\ req'[x].name = n
    BY DEF Dropping, At
  <1>2. CASE req'[x] = req[x]
    BY <1>1, <1>2 DEF Dropping, At
  <1>3. CASE req'[x] # req[x]
    <2>1. CASE Aside
      BY <1>3, <2>1, AsideTyped
    <2>2. ASSUME NEW q \in Requests, Starting(q)
          PROVE Dropping(n) \/ \E r \in Requests : DropPulls(r) /\ req[r].name = n
      <3>1. PICK r : Fresh(r) /\ Begin(q, r)
        BY <2>2, Starts
      <3>2. Fits /\ Fit(r) /\ req' = [req EXCEPT ![q] = r]
        BY <3>1 DEF Begin, Fresh, Typed
      <3>3. req'[q] = r /\ \A y \in Requests : y # q => req'[y] = req[y]
        BY <3>2, Moved
      <3> QED
        BY <1>1, <1>3, <3>1, <3>3 DEF Fresh
    <2>3. ASSUME NEW q \in Requests, Looking(q) \/ Changing(q)
          PROVE Dropping(n) \/ \E r \in Requests : DropPulls(r) /\ req[r].name = n
      <3>1. x = q /\ (req'[q] = NoRequest \/ GoesOn(q))
        BY <1>3, <2>3, OwnStep
      <3>2. GoesOn(q)
        BY <1>1, <3>1 DEF NoRequest
      <3> QED
        BY <1>1, <3>1, <3>2 DEF GoesOn
    <2> QED
      BY <2>1, <2>2, <2>3, NextCases
  <1> QED
    BY <1>2, <1>3

\* A repository is counted its own pulls, and those of its name that were under way.
THEOREM PullsAreCounted == Spec => []PullsOfThisRepo
  <1>1. Init => Counted
    BY DEF Init, Counted, Dropping, NoRequest
  <1>2. Typed /\ Counted /\ [Next]_vars => Counted'
    <2> SUFFICES ASSUME Typed, Counted, [Next]_vars PROVE Counted'
      OBVIOUS
    <2> USE DEF counters
    <2>0. /\ pulls \in [Names -> Nat] /\ bumps \in [Names -> Nat]
          /\ counted \in [Names -> Nat] /\ late \in [Names -> Nat]
      BY DEF Typed, Kept, Tables
    <2>1. CASE UNCHANGED vars
      BY <2>1 DEF vars, Counted, Dropping, At
    <2>2. CASE Next /\ UNCHANGED counters
      <3>1. ASSUME NEW n \in Names, Dropping(n)' PROVE pulls[n] + bumps[n] <= late[n]
        <4>1. CASE Dropping(n)
          BY <4>1 DEF Counted
        <4>2. ASSUME NEW q \in Requests, DropPulls(q), req[q].name = n
              PROVE pulls[n] + bumps[n] <= late[n]
          <5>1. pulls'[n] = 0 /\ late'[n] = bumps[n]
            BY <2>0, <4>2 DEF DropPulls, LeftPulls
          <5> QED
            BY <2>0, <2>2, <5>1
        <4> QED
          BY <2>2, <3>1, <4>1, <4>2, DroppingNext
      <3> QED
        BY <2>2, <3>1 DEF Counted
    <2>3. ASSUME NEW q \in Requests, DropPulls(q), Next PROVE Counted'
      <3> DEFINE n == req[q].name
      <3>1. /\ pulls' = [pulls EXCEPT ![n] = 0] /\ late' = [late EXCEPT ![n] = bumps[n]]
            /\ bumps' = bumps /\ counted' = counted
        BY <2>3 DEF DropPulls, LeftPulls
      <3>2. n \in Names
        BY <2>3, Stands DEF DropPulls, At, Typed, StageFits, FieldsFit
      <3>3. \A m \in Names \ {n} : Dropping(m)' => Dropping(m)
        <4>1. \A r \in Requests : DropPulls(r) => req'[r].at = "row" /\ req'[r] # req[r]
          BY Went DEF DropPulls, Typed, At
        <4>2. \A r \in Requests : DropPulls(r) => r = q
          BY <2>3, <4>1, OwnStep DEF Changing
        <4> QED
          BY <2>3, <4>2, DroppingNext
      <3>4. ASSUME NEW m \in Names
            PROVE /\ pulls'[m] + bumps'[m] <= counted'[m] + late'[m]
                  /\ Dropping(m)' => pulls'[m] + bumps'[m] <= late'[m]
        <4>1. CASE m = n
          BY <2>0, <3>1, <3>2, <4>1
        <4>2. CASE m # n
          BY <2>0, <3>1, <3>2, <3>3, <4>2 DEF Counted
        <4> QED
          BY <4>1, <4>2
      <3> QED
        BY <3>4 DEF Counted
    <2>4. ASSUME NEW q \in Requests, Next, DropRow(q) \/ SpawnBump(q)
          PROVE Counted'
      <3> DEFINE n == req[q].name
      <3>1. req'[q] = NoRequest /\ \A x \in Requests : x # q => req'[x] = req[x]
        BY <2>4, Ended DEF DropRow, SpawnBump, Typed
      <3>2. \A m \in Names : Dropping(m)' => Dropping(m)
        BY <3>1 DEF Dropping, At, NoRequest
      <3>3. n \in Names
        BY <2>4, Stands DEF DropRow, SpawnBump, At, Typed, StageFits, FieldsFit
      <3>4. CASE DropRow(q)
        <4>1. Dropping(n)
          BY <3>4, Stands DEF DropRow, Dropping, At, Typed, StageFits
        <4>2. /\ pulls' = pulls /\ bumps' = bumps /\ late' = late
              /\ counted' = counted \/ counted' = [counted EXCEPT ![n] = 0]
          BY <3>4 DEF DropRow
        <4>3. pulls[n] + bumps[n] <= late[n]
          BY <3>3, <4>1 DEF Counted
        <4> QED
          BY <2>0, <3>2, <3>3, <4>2, <4>3 DEF Counted
      <3>5. CASE SpawnBump(q)
        <4> DEFINE alive == nameOf[req[q].id] = n
        <4>1. \/ UNCHANGED <<pulls, bumps, counted, late>>
              \/ /\ pulls' = pulls /\ bumps' = [bumps EXCEPT ![n] = bumps[n] + 1]
                 /\ counted' = IF alive THEN [counted EXCEPT ![n] = counted[n] + 1] ELSE counted
                 /\ late' = IF Dropping(n) \/ ~alive THEN [late EXCEPT ![n] = late[n] + 1] ELSE late
          BY <3>5 DEF SpawnBump
        <4> HIDE DEF alive
        <4> QED
          BY <2>0, <3>2, <3>3, <4>1 DEF Counted
      <3> QED
        BY <2>4, <3>4, <3>5
    <2>5. ASSUME NEW n \in Names, BumpImagePull(n) PROVE Counted'
      <3>1. /\ bumps' = [bumps EXCEPT ![n] = bumps[n] - 1] /\ pulls' = [pulls EXCEPT ![n] = pulls[n] + 1]
            /\ UNCHANGED <<counted, late, req>>
        BY <2>5 DEF BumpImagePull
      <3>2. \A m \in Names : Dropping(m)' <=> Dropping(m)
        BY <3>1 DEF Dropping, At
      <3>3. ASSUME NEW m \in Names PROVE pulls'[m] + bumps'[m] = pulls[m] + bumps[m]
        BY <2>0, <3>1
      <3> QED
        BY <3>1, <3>2, <3>3 DEF Counted
    <2> QED
      BY <2>1, <2>2, <2>3, <2>4, <2>5, StepChanges
  <1>3. Counted => PullsOfThisRepo
    BY DEF Counted, PullsOfThisRepo
  <1> QED
    BY InitTyped, StepTyped, <1>1, <1>2, <1>3, PTL DEF Spec

-----------------------------------------------------------------------------
(***************************************************************************)
(* Bearer tokens                                                           *)
(***************************************************************************)
\* The repository a request has found has its name, or is gone.
IdFits(r) == r.id # None => r.id \in used /\ nameOf[r.id] \in {r.name, None}

\* What a token request has settled on, given the moments S it has been through:
\* its scope allowed the repository at one, and a role, a grant and a repository
\* that each were there at one allow its level.
Justified(r, S) ==
    r.op = "token" =>
        /\ r.at # "repo" => \E m \in S : InScope(r.scope, m.id)
        /\ r.id # None /\ r.at # "repo" => \E x \in S : x.id # None
        /\ r.at = "team" => r.id # None /\ \E m \in S : RoleMember <= m.role
        /\ r.at = "issue" => \E m, n, x \in S : r.level <= Capability(m.role, n.team, x.id # None)

Sound ==
    /\ \A q \in Requests :
        /\ IdFits(req[q]) /\ Justified(req[q], seen[q])
        /\ req[q].op = "token" => Current(q) \in seen[q]
    /\ unfounded = {} /\ strayed = {}

LEMMA JustifiedLater ==
    ASSUME NEW r, NEW S, NEW T, S \subseteq T, Justified(r, S) PROVE Justified(r, T)
  BY DEF Justified

LEMMA NamesMove ==
    ASSUME Typed, Next
    PROVE \A i \in used : i \in used' /\ nameOf'[i] \in {nameOf[i], None}
  <1>1. used \subseteq RepoIds
    BY DEF Typed, Kept, Tables
  <1>2. ASSUME NEW q \in Requests, InsertRepo(q)
        PROVE \A i \in used : i \in used' /\ nameOf'[i] \in {nameOf[i], None}
    BY <1>1, <1>2 DEF InsertRepo, Typed, Kept, Tables
  <1>3. ASSUME NEW q \in Requests, DropRow(q)
        PROVE \A i \in used : i \in used' /\ nameOf'[i] \in {nameOf[i], None}
    BY <1>1, <1>3 DEF DropRow, Typed, Kept, Tables
  <1> QED
    BY <1>2, <1>3, StepChanges

LEMMA IdsNext ==
    ASSUME Typed, Sound, Next PROVE \A q \in Requests : IdFits(req[q])'
  <1>1. \A x \in Requests : req'[x] = req[x] => IdFits(req[x])'
    BY NamesMove DEF IdFits, Sound
  <1>2. IdFits(NoRequest)'
    BY DEF IdFits, NoRequest
  <1>3. CASE Aside
    BY <1>1, <1>3, AsideTyped
  <1>4. ASSUME NEW q \in Requests, Starting(q) PROVE \A x \in Requests : IdFits(req[x])'
    <2>1. PICK r : Fresh(r) /\ Begin(q, r)
      BY <1>4, Starts
    <2>2. req'[q] = r /\ \A x \in Requests : x # q => req'[x] = req[x]
      BY <2>1, Moved DEF Begin, Fresh, Typed
    <2>3. IdFits(req[q])'
      BY <2>1, <2>2 DEF Fresh, IdFits
    <2> QED
      BY <1>1, <2>2, <2>3
  <1>5. ASSUME NEW q \in Requests, Looking(q) \/ Changing(q) PROVE \A x \in Requests : IdFits(req[x])'
    <2>1. /\ \A x \in Requests : x # q => req'[x] = req[x]
          /\ req'[q] = NoRequest \/ GoesOn(q)
      BY <1>5, OwnStep
    <2>2. ASSUME req'[q] = NoRequest PROVE IdFits(req[q])'
      BY <2>2 DEF IdFits, NoRequest
    <2>3. ASSUME GoesOn(q), req'[q].id = req[q].id PROVE IdFits(req[q])'
      BY <2>3, NamesMove DEF GoesOn, IdFits, Sound
    <2>4. ASSUME GoesOn(q), req'[q].id = Find(req[q].name), req'[q].id # req[q].id
          PROVE IdFits(req[q])'
      <3> DEFINE i == Find(req[q].name)
      <3>1. req[q].name \in Names /\ req'[q].name = req[q].name
        BY <2>4 DEF GoesOn
      <3>2. i # None => i \in RepoIds /\ nameOf[i] = req[q].name
        BY FindTyped
      <3>3. i # None => i \in used
        BY <3>1, <3>2, NamesAssumption DEF Typed, Kept, RowsFit
      <3> QED
        BY <2>4, <3>1, <3>2, <3>3, NamesMove DEF IdFits
    <2>5. ASSUME InsertRepo(q), GoesOn(q), req'[q].id # req[q].id PROVE IdFits(req[q])'
      <3>1. ~Goto(q, "refind")
        BY <2>5, Went DEF Typed
      <3>2. PICK i \in RepoIds \ used :
              /\ nameOf' = [nameOf EXCEPT ![i] = req[q].name] /\ used' = used \cup {i}
              /\ req' = [req EXCEPT ![q] = IF req[q].op = "create" THEN NoRequest
                                           ELSE [req[q] EXCEPT !.id = i, !.at = "manifest"]]
        BY <2>5, <3>1 DEF InsertRepo
      <3>3. req'[q] = NoRequest \/ (req'[q].id = i /\ nameOf'[i] = req[q].name)
        BY <3>2, Stands DEF Typed, Kept, Tables, Fits, Request
      <3> QED
        BY <2>2, <2>5, <3>2, <3>3 DEF GoesOn, IdFits
    <2>6. IdFits(req[q])'
      BY <2>1, <2>2, <2>3, <2>4, <2>5 DEF GoesOn
    <2> QED
      BY <1>1, <2>1, <2>6
  <1> QED
    BY <1>3, <1>4, <1>5, NextCases

\* What q's request becomes is justified by what has been seen so far.
LEMMA OwnSound ==
    ASSUME Typed, Sound, NEW q \in Requests, Looking(q) \/ Changing(q)
    PROVE Justified(req'[q], seen[q])
  <1>1. req'[q] = NoRequest \/ GoesOn(q)
    BY OwnStep
  <1>2. CASE req'[q].op # "token"
    BY <1>2 DEF Justified
  <1>3. CASE req'[q].op = "token"
    <2> DEFINE u == req[q].by
               S == seen[q]
               c == Current(q)
               there == Find(req[q].name)
    <2>1. GoesOn(q) /\ req[q].op = "token" /\ req'[q].scope = req[q].scope
      BY <1>1, <1>3 DEF NoRequest, GoesOn
    <2>2. /\ StageFits(req[q]) /\ FieldsFit(req[q]) /\ req[q] \in Request /\ S \in SUBSET Moment
          /\ IdFits(req[q]) /\ Justified(req[q], S) /\ c \in S
      BY <2>1, Stands DEF Typed, Sound
    <2>3. c.role = role[u] /\ c.team = TeamGrant(u, there) /\ c.id = there
      BY DEF Current
    <2>4. u \in Users /\ role[u] \in Levels
      BY <2>1, <2>2 DEF FieldsFit, Typed, Kept, Tables
    <2>5. CASE TokenRepo(q)
      <3>1. CASE req' = [req EXCEPT ![q].id = there, ![q].at = "role"]
        <4>1. req'[q].id = there /\ req'[q].at = "role"
          BY <2>2, <3>1 DEF Typed, Fits, Request
        <4>2. InScope(req[q].scope, c.id)
          <5>1. req'[q] # NoRequest
            BY <1>3 DEF NoRequest
          <5>2. ~Done(q)
            BY <5>1, Ended DEF Typed
          <5> QED
            BY <2>3, <2>5, <5>2 DEF TokenRepo
        <4> QED
          BY <2>1, <2>2, <2>3, <4>1, <4>2 DEF Justified
      <3>2. CASE Done(q)
        BY <1>3, <3>2, Ended DEF Typed, NoRequest
      <3> QED
        BY <2>5, <3>1, <3>2 DEF TokenRepo
    <2>6. ASSUME TokenRole(q) \/ TokenTeam(q)
          PROVE /\ \E m \in S : InScope(req'[q].scope, m.id)
                /\ req[q].id # None => \E x \in S : x.id # None
      <3>1. req[q].at # "repo"
        BY <2>6 DEF TokenRole, TokenTeam, At
      <3> QED
        BY <2>1, <2>2, <3>1 DEF Justified
    <2>7. CASE TokenRole(q)
      <3> DEFINE i == req[q].id
                 n == IF i = None THEN "issue" ELSE RoleSettles(role[u])
                 k == Capability(role[u], 0, i # None)
      <3>1. /\ req'[q].id = i /\ req'[q].at = n
            /\ n = "issue" => req'[q].level = Least(req[q].level, k)
        BY <2>2, <2>7 DEF TokenRole, Typed, Fits, Request
      <3>2. PICK x \in S : i # None => x.id # None
        BY <2>2, <2>6, <2>7
      <3>3. n = "team" => i # None /\ RoleMember <= c.role
        BY <2>3, <2>4 DEF RoleSettles, RoleMember, Levels
      <3>4. n = "issue" => req'[q].level <= Capability(c.role, c.team, x.id # None)
        <4>1. /\ 0 \in Levels /\ c.team \in Levels /\ 0 <= c.team /\ req[q].level \in Levels
              /\ (x.id # None) \in BOOLEAN /\ c.role \in Levels
          BY <2>2 DEF Levels, Request, Moment
        <4>2. k \in Levels /\ Capability(c.role, c.team, x.id # None) \in Levels
          BY <2>4, <4>1, CapabilityLevel
        <4>3. k <= Capability(c.role, c.team, x.id # None)
          <5>1. c.role <= c.role
            BY <4>1 DEF Levels
          <5> QED
            BY <2>3, <2>4, <3>2, <4>1, <5>1, CapabilityGrows
        <4>4. Least(req[q].level, k) \in Levels /\ Least(req[q].level, k) <= k
          BY <4>1, <4>2, LeastLevel
        <4> DEFINE d == Capability(c.role, c.team, x.id # None)
        <4> HIDE DEF k, n, d
        <4>5. d \in Levels /\ k <= d
          BY <4>2, <4>3 DEF d
        <4>6. n = "issue" => req'[q].level <= d
          BY <3>1, <4>2, <4>4, <4>5 DEF Levels
        <4> QED
          BY <4>6 DEF d
      <3>5. n \in {"team", "issue"}
        BY DEF RoleSettles
      <3> HIDE DEF n, c
      <3> QED
        BY <2>2, <2>6, <2>7, <3>1, <3>3, <3>4, <3>5 DEF Justified
    <2>8. CASE TokenTeam(q)
      <3> DEFINE i == req[q].id
                 g == TeamGrant(u, i)
      <3>1. req'[q].id = i /\ req'[q].at = "issue" /\ req'[q].level = Least(req[q].level, g)
        BY <2>2, <2>8 DEF TokenTeam, Typed, Fits, Request
      <3>2. PICK m \in S : i # None /\ i \in RepoIds /\ RoleMember <= m.role
        BY <2>1, <2>2, <2>8 DEF Justified, TokenTeam, At, Request
      <3>3. PICK x \in S : x.id # None
        BY <2>6, <2>8, <3>2
      <3>4. g \in Levels
        BY <3>2, TeamGrantLevel DEF Typed, Kept
      <3>5. c.team \in Levels /\ m.role \in Levels
        BY <2>2 DEF Moment
      <3>6. g <= c.team
        <4>1. CASE nameOf[i] = None
          <5>1. g = 0
            BY <3>2, <4>1, TeamGrantLevel DEF Typed, Kept
          <5> QED
            BY <3>5, <5>1 DEF Levels
        <4>2. CASE nameOf[i] # None
          <5>1. nameOf[i] = req[q].name
            BY <2>2, <3>2, <4>2 DEF IdFits
          <5>2. there = i
            BY <3>2, <4>2, <5>1, FindNamed DEF Typed, Kept
          <5> QED
            BY <2>3, <3>4, <5>2 DEF Levels
        <4> QED
          BY <4>1, <4>2
      <3> DEFINE d == Capability(m.role, c.team, x.id # None)
      <3>7. d \in Levels /\ d >= c.team
        <4> HIDE DEF c
        <4> QED
          BY <3>2, <3>3, <3>5 DEF Capability, Levels, RoleMember, RoleAdmin, Admin, Push
      <3>8. req[q].level \in Levels
        BY <2>2 DEF Request
      <3>9. Least(req[q].level, g) \in Levels /\ Least(req[q].level, g) <= g
        BY <3>4, <3>8, LeastLevel
      <3>10. req'[q].level <= d
        <4> HIDE DEF g, d, c
        <4> QED
          BY <3>1, <3>4, <3>5, <3>6, <3>7, <3>9 DEF Levels
      <3>11. \E a, b, e \in S : req'[q].level <= Capability(a.role, b.team, e.id # None)
        <4> HIDE DEF c, S
        <4> QED
          BY <2>2, <3>10
      <3> HIDE DEF c
      <3> QED
        BY <2>2, <2>6, <2>8, <3>1, <3>3, <3>11 DEF Justified
    <2> QED
      BY <2>1, <2>5, <2>7, <2>8 DEF GoesOn
  <1> QED
    BY <1>2, <1>3

LEMMA RequestsSound ==
    ASSUME Typed, Sound, Next, NEW q \in Requests
    PROVE Justified(req'[q], seen[q])
  <1>1. CASE req'[q] = req[q]
    BY <1>1 DEF Sound
  <1>2. CASE Aside
    BY <1>1, <1>2, AsideTyped
  <1>3. ASSUME NEW x \in Requests, Starting(x)
        PROVE Justified(req'[q], seen[q])
    <2>1. PICK r : Fresh(r) /\ Begin(x, r)
      BY <1>3, Starts
    <2>2. req'[x] = r /\ \A y \in Requests : y # x => req'[y] = req[y]
      BY <2>1, Moved DEF Begin, Fresh, Typed
    <2>3. Justified(r, seen[q])
      BY <2>1 DEF Fresh, Justified
    <2> QED
      BY <1>1, <2>2, <2>3
  <1>4. ASSUME NEW x \in Requests, Looking(x) \/ Changing(x)
        PROVE Justified(req'[q], seen[q])
    BY <1>1, <1>4, OwnStep, OwnSound
  <1> QED
    BY <1>2, <1>3, <1>4, NextCases

LEMMA NoneUnfounded ==
    ASSUME Typed, Sound, Next PROVE unfounded' = {} /\ strayed' = {}
  <1>1. ASSUME NEW q \in Requests, Issue(q) PROVE unfounded' = {} /\ strayed' = {}
    <2>1. /\ req[q].op = "token" /\ req[q].at = "issue" /\ req[q].level \in Levels
          /\ seen[q] \in SUBSET Moment
      BY <1>1, Stands DEF Issue, At, Typed, StageFits, Request
    <2>2. Justified(req[q], seen[q]) /\ unfounded = {} /\ strayed = {}
      BY DEF Sound
    <2>3. \E m \in seen[q] : InScope(req[q].scope, m.id)
      BY <2>1, <2>2 DEF Justified
    <2>4. Founded(req[q].level, seen[q])
      <3>1. PICK m \in seen[q], n \in seen[q], x \in seen[q] :
                req[q].level <= Capability(m.role, n.team, x.id # None)
        BY <2>1, <2>2 DEF Justified
      <3> QED
        BY <2>1, <3>1, JoinFounds
    <2> QED
      BY <1>1, <2>2, <2>3, <2>4 DEF Issue
  <1>2. CASE unfounded' = unfounded /\ strayed' = strayed
    BY <1>2 DEF Sound
  <1> QED
    BY <1>1, <1>2, StepChanges

LEMMA InitSound == Init => Sound
  <1> SUFFICES ASSUME Init PROVE Sound
    OBVIOUS
  <1>1. (\A q \in Requests : req[q] = NoRequest) /\ unfounded = {} /\ strayed = {}
    BY DEF Init
  <1> QED
    BY <1>1 DEF Sound, NoRequest, IdFits, Justified

LEMMA StepSound == Typed /\ Sound /\ [Next]_vars => Sound'
  <1> SUFFICES ASSUME Typed, Sound, [Next]_vars PROVE Sound'
    OBVIOUS
  <1>1. CASE UNCHANGED vars
    <2>1. /\ UNCHANGED <<role, inTeam, grant, nameOf, used, req, seen, unfounded, strayed>>
      BY <1>1 DEF vars, members, rows, issued
    <2>2. \A n : Find(n)' = Find(n)
      BY <2>1 DEF Find
    <2>3. \A q \in Requests : Current(q)' = Current(q)
      BY <2>1, <2>2 DEF Current, TeamGrant
    <2> QED
      BY <2>1, <2>3 DEF Sound, IdFits, Justified
  <1>2. CASE Next
    <2>1. Typed' /\ Watch
      BY <1>2, NextTyped
    <2>2. \A q \in Requests : req'[q].op = "token" =>
                seen[q] \subseteq seen'[q] /\ Current(q)' \in seen'[q]
      BY <2>1, Watched DEF Typed, Kept
    <2>3. ASSUME NEW q \in Requests PROVE Justified(req'[q], seen'[q])
      <3>1. CASE req'[q].op # "token"
        BY <3>1 DEF Justified
      <3>2. CASE req'[q].op = "token"
        BY <1>2, <2>2, <3>2, RequestsSound, JustifiedLater
      <3> QED
        BY <3>1, <3>2
    <2>4. ASSUME NEW q \in Requests PROVE Justified(req[q], seen[q])'
      BY <2>3 DEF Justified, Capability, InScope
    <2>5. ASSUME NEW q \in Requests, req'[q].op = "token" PROVE (Current(q) \in seen[q])'
      BY <2>2, <2>5
    <2>6. \A q \in Requests : IdFits(req[q])'
      BY <1>2, IdsNext
    <2>7. unfounded' = {} /\ strayed' = {}
      BY <1>2, NoneUnfounded
    <2> QED
      BY <2>4, <2>5, <2>6, <2>7 DEF Sound
  <1> QED
    BY <1>1, <1>2

\* A bearer token grants no more than its user was allowed at one moment of the request
\* for it, if the user had at some moment all it had at any other; and otherwise joins
\* a role and a team's grant that each were there at some moment of the request.
THEOREM GrantsAreJustified == Spec => []GrantsJustified
  <1>1. Sound => GrantsJustified
    BY DEF Sound, GrantsJustified
  <1> QED
    BY InitTyped, StepTyped, InitSound, StepSound, <1>1, PTL DEF Spec

\* A personal access token is stored with the scope it was made with while its row is
\* there, whatever is deleted and made again, and a bearer token got with one is for a
\* name that stood for the repository of the scope at some moment of the request.
THEOREM PatsStayConfined == Spec => []PatConfined
  <1>1. Sound /\ ScopesKept => PatConfined
    BY DEF Sound, ScopesKept, PatConfined
  <1> QED
    BY InitTyped, StepTyped, InitSound, StepSound, ScopesStay, <1>1, PTL DEF Spec

=============================================================================
