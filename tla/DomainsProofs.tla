---------------------------- MODULE DomainsProofs ----------------------------
(***************************************************************************)
(* Proofs about Domains, for any names, contacts and handlers: the types,  *)
(* with the domains distinct and the primary one among them, that the      *)
(* public URL follows the table, and that the redirector, once nothing is  *)
(* left to do, sends clients to a domain the task serves.                  *)
(***************************************************************************)
EXTENDS Domains, SequenceTheorems, TLAPS

-----------------------------------------------------------------------------
(***************************************************************************)
(* The domains table                                                       *)
(***************************************************************************)
Table(s, p) == s \in Seq(Names) /\ IsInjective(s) /\ p \in Range(s) \cup {None}

\* A name that is not in the table is added at its end.
LEMMA AddKeepsTable ==
    ASSUME NEW d \in Names, Table(domains, primary),
           domains' = WithDomain(d),
           primary' = IF primary = None /\ domains' # domains THEN d ELSE primary
    PROVE  Table(domains', primary')
<1> DEFINE s == Append(domains, d)
<1>1. CASE d \in Known
  BY <1>1 DEF WithDomain, Table
<1>2. CASE d \notin Known
  <2>1. domains' = s
    BY <1>2 DEF WithDomain
  <2>2. /\ s \in Seq(Names) /\ Len(s) = Len(domains) + 1
        /\ \A i \in 1..Len(domains) : s[i] = domains[i]
        /\ s[Len(domains) + 1] = d
    BY AppendProperties DEF Table
  <2>3. /\ Len(domains) \in Nat
        /\ DOMAIN domains = 1..Len(domains) /\ DOMAIN s = 1..(Len(domains) + 1)
    BY <2>2, LenProperties DEF Table
  <2>4. \A i \in DOMAIN domains : domains[i] # d
    BY <1>2 DEF Known, Range
  <2>5. IsInjective(s)
    <3>1. SUFFICES ASSUME NEW i \in DOMAIN s, NEW j \in DOMAIN s, s[i] = s[j] PROVE i = j
      BY DEF IsInjective
    <3>2. \A x \in DOMAIN s : x \in 1..Len(domains) \/ x = Len(domains) + 1
      BY <2>3
    <3>3. CASE i \in 1..Len(domains) /\ j \in 1..Len(domains)
      BY <2>2, <2>3, <3>1, <3>3 DEF Table, IsInjective
    <3> QED
      BY <2>2, <2>3, <2>4, <3>1, <3>2, <3>3
  <2>6. Range(domains) \subseteq Range(s)
    <3>1. ASSUME NEW i \in DOMAIN domains PROVE domains[i] \in Range(s)
      BY <2>2, <2>3, <3>1 DEF Range
    <3> QED
      BY <3>1 DEF Range
  <2>7. d \in Range(s)
    BY <2>2, <2>3 DEF Range
  <2> QED
    BY <2>1, <2>2, <2>5, <2>6, <2>7 DEF Table
<1> QED
  BY <1>1, <1>2

\* The table without a name keeps the others, and their order.
LEMMA WithoutKeepsTable ==
    ASSUME NEW d \in Names, domains \in Seq(Names), IsInjective(domains)
    PROVE  /\ WithoutDomain(d) \in Seq(Names) /\ IsInjective(WithoutDomain(d))
           /\ Range(WithoutDomain(d)) = Known \ {d}
<1>1. CASE d \notin Known
  BY <1>1 DEF WithoutDomain, Known
<1>2. CASE d \in Known
  <2> DEFINE k == CHOOSE i \in DOMAIN domains : domains[i] = d
             n == Len(domains)
             s == SubSeq(domains, 1, k - 1)
             t == SubSeq(domains, k + 1, n)
             r == s \o t
  <2>1. n \in Nat /\ DOMAIN domains = 1..n /\ \A i \in 1..n : domains[i] \in Names
    BY LenProperties, ElementOfSeq
  <2>2. k \in 1..n /\ domains[k] = d
    BY <1>2, <2>1 DEF Known, Range
  <2>3. WithoutDomain(d) = r
    BY <1>2 DEF WithoutDomain, RemoveAt
  <2> HIDE DEF k
  <2>4. /\ s \in Seq(Names) /\ Len(s) = k - 1
        /\ \A i \in 1..(k - 1) : s[i] = domains[i]
    <3>1. \A i \in 1..(k - 1) : domains[i] \in Names
      BY <2>1, <2>2
    <3>2. 1 \in Int /\ k - 1 \in Int
      BY <2>2
    <3>3. /\ s \in Seq(Names) /\ Len(s) = IF 1 <= k - 1 THEN (k - 1) - 1 + 1 ELSE 0
          /\ \A i \in 1..((k - 1) - 1 + 1) : s[i] = domains[1 + i - 1]
      BY <3>1, <3>2, SubSeqProperties
    <3> QED
      BY <3>3, <2>2
  <2>5. /\ t \in Seq(Names) /\ Len(t) = n - k
        /\ \A i \in 1..(n - k) : t[i] = domains[k + i]
    <3>1. \A i \in (k + 1)..n : domains[i] \in Names
      BY <2>1, <2>2
    <3>2. k + 1 \in Int /\ n \in Int
      BY <2>1, <2>2
    <3>3. /\ t \in Seq(Names) /\ Len(t) = IF k + 1 <= n THEN n - (k + 1) + 1 ELSE 0
          /\ \A i \in 1..(n - (k + 1) + 1) : t[i] = domains[(k + 1) + i - 1]
      BY <3>1, <3>2, SubSeqProperties
    <3> QED
      BY <3>3, <2>1, <2>2
  <2> HIDE DEF n, s, t
  <2>6. /\ r \in Seq(Names) /\ Len(r) = n - 1
        /\ \A i \in 1..(n - 1) : r[i] = IF i < k THEN domains[i] ELSE domains[i + 1]
    <3>1. /\ r \in Seq(Names) /\ Len(r) = Len(s) + Len(t)
          /\ \A i \in 1..(Len(s) + Len(t)) :
                r[i] = IF i <= Len(s) THEN s[i] ELSE t[i - Len(s)]
      BY <2>4, <2>5, ConcatProperties
    <3>2. Len(s) + Len(t) = n - 1
      BY <2>1, <2>2, <2>4, <2>5
    <3>3. ASSUME NEW i \in 1..(n - 1) PROVE r[i] = IF i < k THEN domains[i] ELSE domains[i + 1]
      <4>1. CASE i < k
        <5>1. i \in 1..(k - 1) /\ i <= Len(s)
          BY <4>1, <2>2, <2>4
        <5> QED
          BY <5>1, <3>1, <3>2, <4>1, <2>4
      <4>2. CASE ~(i < k)
        <5>1. i - (k - 1) \in 1..(n - k) /\ ~(i <= Len(s)) /\ k + (i - (k - 1)) = i + 1
          BY <4>2, <2>1, <2>2, <2>4
        <5> QED
          BY <5>1, <3>1, <3>2, <4>2, <2>4, <2>5
      <4> QED
        BY <4>1, <4>2
    <3> QED
      BY <3>1, <3>2, <3>3
  <2>7. DOMAIN r = 1..(n - 1)
    BY <2>6, LenProperties
  <2> HIDE DEF r
  <2>8. IsInjective(r)
    <3>1. SUFFICES ASSUME NEW i \in DOMAIN r, NEW j \in DOMAIN r, r[i] = r[j] PROVE i = j
      BY DEF IsInjective
    <3> DEFINE At(x) == IF x < k THEN x ELSE x + 1
    <3>2. \A x \in DOMAIN r : At(x) \in 1..n /\ r[x] = domains[At(x)]
      BY <2>1, <2>2, <2>6, <2>7
    <3>3. At(i) = At(j)
      BY <3>1, <3>2, <2>1 DEF IsInjective
    <3> QED
      BY <3>3, <2>2, <2>7
  <2>9. Range(r) \subseteq Known \ {d}
    <3>1. ASSUME NEW x \in DOMAIN r PROVE r[x] \in Known /\ r[x] # d
      <4> DEFINE y == IF x < k THEN x ELSE x + 1
      <4>1. y \in 1..n /\ y # k /\ r[x] = domains[y]
        BY <2>1, <2>2, <2>6, <2>7
      <4> HIDE DEF y
      <4> QED
        BY <4>1, <2>1, <2>2 DEF Known, Range, IsInjective
    <3> QED
      BY <3>1 DEF Range
  <2>10. Known \ {d} \subseteq Range(r)
    <3>1. ASSUME NEW x \in 1..n, domains[x] # d PROVE domains[x] \in Range(r)
      <4> DEFINE y == IF x < k THEN x ELSE x - 1
      <4>1. y \in 1..(n - 1) /\ r[y] = domains[x]
        BY <3>1, <2>1, <2>2, <2>6
      <4> HIDE DEF y
      <4> QED
        BY <4>1, <2>7 DEF Range
    <3> QED
      BY <3>1, <2>1 DEF Known, Range
  <2> QED
    BY <2>3, <2>6, <2>8, <2>9, <2>10
<1> QED
  BY <1>1, <1>2

-----------------------------------------------------------------------------
(***************************************************************************)
(* Types                                                                   *)
(***************************************************************************)
LEMMA EffectiveIsName == TypeOK => Effective \in Names \cup {None}
<1> SUFFICES ASSUME TypeOK PROVE Effective \in Names \cup {None}
  OBVIOUS
<1>1. Known \subseteq Names
  BY ElementOfSeq DEF TypeOK, Known, Range
<1>2. domains # <<>> => Head(domains) \in Names
  BY HeadTailProperties DEF TypeOK
<1> QED
  BY <1>1, <1>2, BoundsAssumption DEF Effective, PrimaryDomain, TypeOK

\* The URL of a start is what the table gives, unless the read failed.
LEMMA StartUrl ==
    ASSUME NEW start \in StartUrls
    PROVE  /\ start.failed \in BOOLEAN /\ start.url \in {Effective, None}
           /\ ~start.failed => start.url = Effective
<1>1. CASE start = [url |-> Effective, failed |-> FALSE]
  BY <1>1
<1>2. CASE start = [url |-> None, failed |-> TRUE]
  BY <1>2
<1> QED
  BY <1>1, <1>2 DEF StartUrls

LEMMA IdleIsRequest == Idle \in Request /\ Idle.at = "idle"
  BY DEF Idle, Request, Ops

\* What Committed leaves of the requests.
LEMMA CommittedRequests ==
    ASSUME req \in [Requests -> Request], NEW q \in Requests, NEW op \in Ops, Committed(q, op)
    PROVE  /\ req' \in [Requests -> Request]
           /\ \A r \in Requests : req'[r].at = "commit" => req[r].at = "commit" /\ req'[r].name = req[r].name
<1>1. ASSUME NEW x \in BOOLEAN
      PROVE  [Idle EXCEPT !.op = op, !.at = "read", !.alone = x] \in Request
  BY DEF Idle, Request
<1>2. ASSUME NEW r \in Requests PROVE [req[r] EXCEPT !.alone = FALSE] \in Request
  BY DEF Request
<1> DEFINE a == \A x \in Requests : ~Refreshing(x)
           new(r) == IF r = q THEN [Idle EXCEPT !.op = op, !.at = "read", !.alone = a]
                     ELSE IF Refreshing(r) THEN [req[r] EXCEPT !.alone = FALSE] ELSE req[r]
<1>3. a \in BOOLEAN
  OBVIOUS
<1> HIDE DEF a
<1>4. req' = [r \in Requests |-> new(r)]
  BY DEF Committed, a
<1>5. ASSUME NEW r \in Requests
      PROVE  new(r) \in Request /\ (new(r).at = "commit" => req[r].at = "commit" /\ new(r).name = req[r].name)
  <2>1. CASE r = q
    BY <1>1, <1>3, <2>1 DEF Idle
  <2>2. CASE r # q /\ Refreshing(r)
    BY <1>2, <2>2 DEF Request
  <2>3. CASE r # q /\ ~Refreshing(r)
    BY <2>3
  <2> QED
    BY <2>1, <2>2, <2>3
<1> HIDE DEF new
<1> QED
  BY <1>4, <1>5

\* Every variable has its type; the domains are distinct, and the primary one is one of
\* them.
THEOREM TypeCorrect == Spec => []TypeOK
<1>1. Init => TypeOK
  <2> SUFFICES ASSUME Init PROVE TypeOK
    OBVIOUS
  <2>1. domains \in Seq(Names) /\ IsInjective(domains)
    <3>1. <<>> \in Seq(Names) /\ IsInjective(<<>>)
      BY EmptySeq DEF IsInjective
    <3> QED
      BY <3>1, EarlierAssumption DEF Init
  <2>2. domains # <<>> => Head(domains) \in Names
    BY <2>1, HeadTailProperties
  <2>3. Known \subseteq Names
    BY <2>1, ElementOfSeq DEF Known, Range
  <2>4. url \in Names \cup {None} /\ doubt \in BOOLEAN
    <3>1. Effective \in Names \cup {None}
      BY <2>2, <2>3, BoundsAssumption DEF Init, Effective, PrimaryDomain
    <3> QED
      BY <3>1, StartUrl DEF Init
  <2>5. req \in [Requests -> Request] /\ \A q \in Requests : req[q].at # "commit"
    BY IdleIsRequest DEF Init, Idle
  <2>6. loop = NewLoop /\ calls \in 0..MaxCalls /\ faults \in 0..MaxFaults
    BY BoundsAssumption DEF Init
  <2> QED
    <3>1. loop \in [at : {"url", "domains", "bind", "http", "acme", "tls", "sleep", "down"},
                    url : Names \cup {None}, domains : SUBSET Names, email : Emails \cup {None},
                    sure : BOOLEAN]
      BY <2>6 DEF NewLoop
    <3> QED
      BY <2>1, <2>4, <2>5, <2>6, <3>1 DEF Init, TypeOK
<1>2. TypeOK /\ [Next]_vars => TypeOK'
  <2> SUFFICES ASSUME TypeOK, [Next]_vars PROVE TypeOK'
    OBVIOUS
  <2>1. req \in [Requests -> Request] /\ calls \in 0..MaxCalls /\ faults \in 0..MaxFaults
    BY DEF TypeOK
  <2>2. Begin => calls' \in 0..MaxCalls /\ faults' \in 0..MaxFaults
    BY BoundsAssumption DEF Begin, TypeOK
  <2>3. Fault => calls' \in 0..MaxCalls /\ faults' \in 0..MaxFaults
    BY BoundsAssumption DEF Fault, TypeOK
  <2>4. Quiet => calls' \in 0..MaxCalls /\ faults' \in 0..MaxFaults
    BY DEF Quiet, bounds, TypeOK
  <2>5. ASSUME NEW q \in Requests, NEW d \in Names, StartAdd(q, d) PROVE TypeOK'
    <3>1. [Idle EXCEPT !.op = "add", !.at = "commit", !.name = d] \in Request
      BY DEF Idle, Request, Ops
    <3>2. req' \in [Requests -> Request]
      BY <2>1, <2>5, <3>1 DEF StartAdd
    <3> QED
      BY <2>2, <2>5, <3>2 DEF StartAdd, TypeOK, Known, table, listeners, history
  <2>6. ASSUME NEW q \in Requests, NEW d \in Names, Delete(q, d) PROVE TypeOK'
    <3>1. domains' \in Seq(Names) /\ IsInjective(domains') /\ Known' = Known \ {d}
      BY <2>6, WithoutKeepsTable DEF Delete, TypeOK, Known
    <3>2. domains' # <<>> => Head(domains') \in Known'
      BY <3>1, HeadTailProperties, LenProperties DEF Known, Range
    <3>3. primary' \in Known' \cup {None}
      BY <2>6, <3>1, <3>2 DEF Delete, TypeOK
    <3>4. req' \in [Requests -> Request]
          /\ \A r \in Requests : req'[r].at = "commit" => req'[r].name \in Names
      BY <2>1, <2>6, CommittedRequests DEF Delete, Ops, TypeOK
    <3> QED
      BY <2>2, <2>6, <3>1, <3>3, <3>4 DEF Delete, TypeOK, listeners, history
  <2>7. ASSUME NEW q \in Requests, NEW d \in Names, SetPrimary(q, d) PROVE TypeOK'
    <3>1. req' \in [Requests -> Request]
          /\ \A r \in Requests : req'[r].at = "commit" => req'[r].name \in Names
      BY <2>1, <2>7, CommittedRequests DEF SetPrimary, Ops, TypeOK
    <3> QED
      BY <2>2, <2>7, <3>1 DEF SetPrimary, TypeOK, Known, listeners, history
  <2>8. ASSUME NEW q \in Requests, NEW e \in Emails \cup {None}, SetContact(q, e) PROVE TypeOK'
    <3>1. [Idle EXCEPT !.op = "contact", !.at = "notify"] \in Request
      BY DEF Idle, Request, Ops
    <3>2. req' \in [Requests -> Request]
      BY <2>1, <2>8, <3>1 DEF SetContact
    <3> QED
      BY <2>2, <2>8, <3>2 DEF SetContact, TypeOK, Known, listeners, history
  <2>9. ASSUME NEW q \in Requests, Add(q) PROVE TypeOK'
    <3>1. req[q].name \in Names
      BY <2>9 DEF Add, TypeOK
    <3>2. Table(domains', primary')
      BY <2>9, <3>1, AddKeepsTable DEF Add, TypeOK, Table, Known
    <3>3. req' \in [Requests -> Request]
          /\ \A r \in Requests : req'[r].at = "commit" => req'[r].name \in Names
      BY <2>1, <2>9, CommittedRequests DEF Add, Ops, TypeOK
    <3> QED
      BY <2>4, <2>9, <3>2, <3>3 DEF Add, TypeOK, Table, Known, listeners, history
  <2>10. ASSUME NEW q \in Requests, ReadPrimary(q) PROVE TypeOK'
    <3>1. ASSUME NEW f \in Names \cup {None}
          PROVE  /\ [req[q] EXCEPT !.at = "store", !.found = f] \in Request
                 /\ [req[q] EXCEPT !.at = "store", !.found = f, !.alone = FALSE] \in Request
      BY <2>1 DEF Request
    <3>2. \E r \in Request : r.at = "store" /\ req' = [req EXCEPT ![q] = r]
      <4>1. CASE Quiet /\ req' = [req EXCEPT ![q].at = "store", ![q].found = FoundDomain]
        <5>1. req' = [req EXCEPT ![q] = [req[q] EXCEPT !.at = "store", !.found = FoundDomain]]
          BY <4>1, <2>1
        <5> QED
          BY <5>1, <3>1, <2>1, EffectiveIsName DEF FoundDomain, Request
      <4>2. CASE req' = [req EXCEPT ![q].at = "store", ![q].found = None, ![q].alone = FALSE]
        <5>1. req' = [req EXCEPT ![q] =
                        [req[q] EXCEPT !.at = "store", !.found = None, !.alone = FALSE]]
          BY <4>2, <2>1
        <5> QED
          BY <5>1, <3>1, <2>1 DEF Request
      <4> QED
        BY <2>10, <4>1, <4>2 DEF ReadPrimary
    <3>3. req' \in [Requests -> Request]
          /\ \A r \in Requests : req'[r].at = "commit" => req'[r].name \in Names
      BY <3>2, <2>1 DEF TypeOK
    <3> QED
      BY <2>3, <2>4, <2>10, <3>3 DEF ReadPrimary, TypeOK, Known, table, listeners, history
  <2>11. ASSUME NEW q \in Requests, StoreUrl(q) PROVE TypeOK'
    <3>1. [req[q] EXCEPT !.at = "notify"] \in Request /\ req[q].found \in Names \cup {None}
          /\ req[q].alone \in BOOLEAN
      BY <2>1 DEF Request
    <3>2. \E r \in Request : r.at # "commit" /\ req' = [req EXCEPT ![q] = r]
      <4>1. [req[q] EXCEPT !.at = "notify"].at = "notify"
        BY <2>1 DEF Request
      <4> QED
        BY <2>1, <2>11, <3>1, <4>1, IdleIsRequest DEF StoreUrl
    <3>3. req' \in [Requests -> Request]
          /\ \A r \in Requests : req'[r].at = "commit" => req'[r].name \in Names
      BY <3>2, <2>1 DEF TypeOK
    <3> QED
      BY <2>4, <2>11, <3>1, <3>3 DEF StoreUrl, TypeOK, Known, table, listeners
  <2>12. ASSUME NEW q \in Requests, Notify(q) PROVE TypeOK'
    <3>1. req' \in [Requests -> Request]
          /\ \A r \in Requests : req'[r].at = "commit" => req'[r].name \in Names
      BY <2>1, <2>12, IdleIsRequest DEF Notify, TypeOK
    <3> QED
      BY <2>4, <2>12, <3>1 DEF Notify, Permit, TypeOK, Known, table, listeners, history
  <2>13. ASSUME NEW q \in Requests, Drop(q) PROVE TypeOK'
    <3>1. req' \in [Requests -> Request]
          /\ \A r \in Requests : req'[r].at = "commit" => req'[r].name \in Names
      BY <2>1, <2>13, IdleIsRequest DEF Drop, TypeOK
    <3> QED
      BY <2>3, <2>13, <3>1 DEF Drop, TypeOK, Known, table, listeners
  <2>14. CASE ReadUrl
    BY <2>4, <2>14 DEF ReadUrl, UrlNow, TypeOK, Known, table, history
  <2>15. CASE ReadDomains
    <3>1. Known \in SUBSET Names
      BY ElementOfSeq DEF TypeOK, Known, Range
    <3> QED
      BY <2>3, <2>4, <2>15, <3>1 DEF ReadDomains, TypeOK, Known, table
  <2>16. CASE BindHttp \/ BindRedirect
    BY <2>4, <2>16 DEF BindHttp, BindRedirect, TypeOK, Known, table, history
  <2>17. CASE StartAcme
    <3> DEFINE Loops ==
            [at : {"url", "domains", "bind", "http", "acme", "tls", "sleep", "down"},
             url : Names \cup {None}, domains : SUBSET Names, email : Emails \cup {None},
             sure : BOOLEAN]
    <3>1. EffectiveContact \in Emails \cup {None} /\ Contact \in Emails \cup {None}
      BY BoundsAssumption DEF EffectiveContact, TypeOK
    <3>2. ASSUME NEW e \in Emails \cup {None}, loop' = [loop EXCEPT !.at = "tls", !.email = e]
          PROVE  loop' \in Loops
      BY <3>2 DEF TypeOK
    <3>3. ASSUME loop' = [loop EXCEPT !.at = "sleep"]
          PROVE  loop' \in Loops
      BY <3>3 DEF TypeOK
    <3>4. missed' \in BOOLEAN /\ calls' \in 0..MaxCalls /\ faults' \in 0..MaxFaults
      BY <2>3, <2>4, <2>17 DEF StartAcme, TypeOK
    <3>5. loop' \in Loops
      BY <2>17, <3>1, <3>2, <3>3 DEF StartAcme
    <3> QED
      BY <2>17, <3>4, <3>5 DEF StartAcme, TypeOK, Known, table
  <2>18. CASE AcmeFails
    BY <2>3, <2>18 DEF AcmeFails, TypeOK, Known, table, history
  <2>19. CASE Reload \/ Retry \/ Release
    BY <2>4, <2>19 DEF Reload, Retry, Release, NextRound, Abort, TypeOK, Known, table, history
  <2>20. CASE Restart
    <3>1. req' \in [Requests -> Request]
          /\ \A r \in Requests : req'[r].at = "commit" => req'[r].name \in Names
      BY <2>20, IdleIsRequest DEF Restart
    <3>2. url' \in Names \cup {None} /\ doubt' \in BOOLEAN
      BY <2>20, StartUrl, EffectiveIsName DEF Restart
    <3> QED
      BY <2>3, <2>20, <3>1, <3>2 DEF Restart, NewLoop, TypeOK, Known, table
  <2>21. CASE UNCHANGED vars
    BY <2>21 DEF vars, table, listeners, history, bounds, TypeOK, Known
  <2> QED
    BY <2>5, <2>6, <2>7, <2>8, <2>9, <2>10, <2>11, <2>12, <2>13, <2>14, <2>15, <2>16, <2>17,
       <2>18, <2>19, <2>20, <2>21
    DEF Next, Serve, Handle, Finish
<1> QED
  BY <1>1, <1>2, PTL DEF Spec

-----------------------------------------------------------------------------
(***************************************************************************)
(* The public URL                                                          *)
(***************************************************************************)
\* A change that is alone is the only one half-way.
AloneIsOnly ==
    \A q, r \in Requests : Refreshing(q) /\ Refreshing(r) /\ req[q].alone => r = q

\* What it is about to store is what the table gives.
StoresEffective ==
    \A q \in Requests : req[q].at = "store" /\ req[q].alone => req[q].found = Effective

UrlInv == AloneIsOnly /\ StoresEffective /\ UrlFollows

\* A step that changes neither the table nor the URL, and leaves no request half-way
\* that was not.
LEMMA QuietStep ==
    ASSUME TypeOK, UrlInv, NEW q \in Requests, NEW r, req' = [req EXCEPT ![q] = r],
           r.at \notin {"read", "store"}, UNCHANGED table, UNCHANGED url,
           ~doubt' => ~doubt /\ ~Refreshing(q)
    PROVE  UrlInv'
<1>1. req'[q] = r /\ \A x \in Requests : x # q => req'[x] = req[x]
  BY DEF TypeOK
<1>2. Effective' = Effective
  BY DEF Effective, PrimaryDomain, table
<1>3. \A x \in Requests : Refreshing(x)' => x # q /\ Refreshing(x)
  BY <1>1 DEF Refreshing
<1>4. AloneIsOnly'
  BY <1>1, <1>3 DEF AloneIsOnly, UrlInv, Refreshing
<1>5. StoresEffective'
  BY <1>1, <1>2 DEF StoresEffective, UrlInv
<1>6. UrlFollows'
  <2> SUFFICES ASSUME \A x \in Requests : ~Refreshing(x)', ~doubt' PROVE url' = Effective'
    BY DEF UrlFollows
  <2>1. \A x \in Requests : ~Refreshing(x)
    BY <1>1 DEF Refreshing
  <2> QED
    BY <2>1, <1>2 DEF UrlFollows, UrlInv
<1> QED
  BY <1>4, <1>5, <1>6 DEF UrlInv

\* A commit: the request is half-way now, and alone only if no other one is.
LEMMA CommitStep ==
    ASSUME TypeOK, UrlInv, NEW q \in Requests, NEW op \in Ops, Committed(q, op)
    PROVE  UrlInv'
<1>1. req'[q].at = "read" /\ (req'[q].alone => \A x \in Requests : ~Refreshing(x))
  BY DEF Committed, Idle
<1>2. ASSUME NEW r \in Requests, r # q
      PROVE  /\ Refreshing(r) => ~req'[r].alone /\ req'[r].at = req[r].at
             /\ ~Refreshing(r) => req'[r] = req[r]
  BY <1>2 DEF Committed, TypeOK, Request
<1>3. AloneIsOnly'
  BY <1>1, <1>2 DEF AloneIsOnly, Refreshing
<1>4. StoresEffective'
  BY <1>1, <1>2 DEF StoresEffective, Refreshing
<1>5. UrlFollows'
  BY <1>1 DEF UrlFollows, Refreshing
<1> QED
  BY <1>3, <1>4, <1>5 DEF UrlInv

LEMMA UrlInvariant == Spec => []UrlInv
<1>1. Init => UrlInv
  <2> SUFFICES ASSUME Init PROVE UrlInv
    OBVIOUS
  <2>1. \A q \in Requests : req[q].at = "idle"
    BY IdleIsRequest DEF Init
  <2>2. ~doubt => url = Effective
    BY StartUrl DEF Init
  <2> QED
    BY <2>1, <2>2 DEF UrlInv, AloneIsOnly, StoresEffective, UrlFollows, Refreshing
<1>2. TypeOK /\ UrlInv /\ [Next]_vars => UrlInv'
  <2> SUFFICES ASSUME TypeOK, UrlInv, [Next]_vars PROVE UrlInv'
    OBVIOUS
  <2>1. req \in [Requests -> Request]
    BY DEF TypeOK
  <2>2. ASSUME NEW q \in Requests, NEW d \in Names, StartAdd(q, d) PROVE UrlInv'
    <3>1. [Idle EXCEPT !.op = "add", !.at = "commit", !.name = d].at = "commit" /\ ~Refreshing(q)
      BY <2>2 DEF Idle, StartAdd, Refreshing
    <3> QED
      BY <2>2, <3>1, QuietStep DEF StartAdd, history
  <2>3. ASSUME NEW q \in Requests, NEW e \in Emails \cup {None}, SetContact(q, e) PROVE UrlInv'
    <3> DEFINE r == [Idle EXCEPT !.op = "contact", !.at = "notify"]
    <3>1. r.at = "notify" /\ ~Refreshing(q)
      BY <2>3 DEF Idle, SetContact, Refreshing
    <3>2. req'[q] = r /\ \A x \in Requests : x # q => req'[x] = req[x]
      BY <2>1, <2>3 DEF SetContact
    <3>3. Effective' = Effective
      BY <2>3 DEF SetContact, Effective, PrimaryDomain
    <3> HIDE DEF r
    <3>4. \A x \in Requests : Refreshing(x)' <=> Refreshing(x)
      BY <3>1, <3>2 DEF Refreshing
    <3>5. AloneIsOnly' /\ StoresEffective'
      BY <3>1, <3>2, <3>3, <3>4 DEF UrlInv, AloneIsOnly, StoresEffective, Refreshing
    <3> QED
      BY <2>3, <3>3, <3>4, <3>5 DEF UrlInv, UrlFollows, SetContact, history
  <2>4. ASSUME NEW q \in Requests, NEW d \in Names, Delete(q, d) \/ SetPrimary(q, d) PROVE UrlInv'
    BY <2>4, CommitStep DEF Delete, SetPrimary, Ops
  <2>5. ASSUME NEW q \in Requests, Add(q) PROVE UrlInv'
    BY <2>5, CommitStep DEF Add, Ops
  <2>6. ASSUME NEW q \in Requests, ReadPrimary(q) PROVE UrlInv'
    <3>1. /\ req'[q].at = "store" /\ \A x \in Requests : x # q => req'[x] = req[x]
          /\ req'[q].alone => req[q].alone /\ req'[q].found = Effective
      BY <2>1, <2>6 DEF ReadPrimary, FoundDomain, Request
    <3>2. Effective' = Effective
      BY <2>6 DEF ReadPrimary, Effective, PrimaryDomain, table
    <3>3. \A x \in Requests : Refreshing(x)' <=> Refreshing(x)
      BY <3>1, <2>6 DEF Refreshing, ReadPrimary
    <3>4. AloneIsOnly'
      BY <3>1, <3>3 DEF UrlInv, AloneIsOnly
    <3>5. StoresEffective'
      BY <3>1, <3>2 DEF UrlInv, StoresEffective
    <3>6. UrlFollows'
      BY <3>1 DEF UrlFollows, Refreshing
    <3> QED
      BY <3>4, <3>5, <3>6 DEF UrlInv
  <2>7. ASSUME NEW q \in Requests, StoreUrl(q) PROVE UrlInv'
    <3>1. /\ req'[q].at \in {"idle", "notify"}
          /\ \A x \in Requests : x # q => req'[x] = req[x]
      BY <2>1, <2>7, IdleIsRequest DEF StoreUrl, Request
    <3>2. Effective' = Effective
      BY <2>7 DEF StoreUrl, Effective, PrimaryDomain, table
    <3>3. \A x \in Requests : Refreshing(x)' => x # q /\ Refreshing(x)
      BY <3>1 DEF Refreshing
    <3>4. AloneIsOnly'
      BY <3>1, <3>3 DEF UrlInv, AloneIsOnly
    <3>5. StoresEffective'
      BY <3>1, <3>2 DEF UrlInv, StoresEffective
    <3>6. ~doubt' => url' = Effective
      BY <2>7 DEF StoreUrl, UrlInv, StoresEffective
    <3> QED
      BY <3>2, <3>4, <3>5, <3>6 DEF UrlInv, UrlFollows
  <2>8. ASSUME NEW q \in Requests, Notify(q) PROVE UrlInv'
    BY <2>8, QuietStep, IdleIsRequest DEF Notify, Refreshing, history
  <2>9. ASSUME NEW q \in Requests, Drop(q) PROVE UrlInv'
    BY <2>9, QuietStep, IdleIsRequest DEF Drop
  <2>10. CASE Restart
    <3>1. \A q \in Requests : req'[q].at = "idle"
      BY <2>10, IdleIsRequest DEF Restart
    <3>2. Effective' = Effective
      BY <2>10 DEF Restart, Effective, PrimaryDomain, table
    <3>3. ~doubt' => url' = Effective
      BY <2>10, StartUrl DEF Restart
    <3> QED
      BY <2>10, <3>1, <3>2, <3>3
      DEF Restart, UrlInv, AloneIsOnly, StoresEffective, UrlFollows, Refreshing
  <2>11. CASE UNCHANGED <<table, url, req, doubt>>
    <3>1. Effective' = Effective
      BY <2>11 DEF Effective, PrimaryDomain, table
    <3> QED
      BY <2>11, <3>1 DEF UrlInv, AloneIsOnly, StoresEffective, UrlFollows, Refreshing
  <2>12. Serve \/ AcmeFails \/ UNCHANGED vars => UNCHANGED <<table, url, req, doubt>>
    BY DEF Serve, ReadUrl, ReadDomains, BindHttp, BindRedirect, StartAcme, Reload, Retry, Release,
           AcmeFails, history, vars
  <2> QED
    BY <2>2, <2>3, <2>4, <2>5, <2>6, <2>7, <2>8, <2>9, <2>10, <2>11, <2>12 DEF Next, Handle, Finish
<1> QED
  BY <1>1, <1>2, TypeCorrect, PTL DEF Spec

\* With no change half-way the public URL is the one the table gives, unless the last
\* changes overlapped or one of them failed.
THEOREM UrlFollowsTable == Spec => []UrlFollows
<1>1. UrlInv => UrlFollows
  BY DEF UrlInv
<1> QED
  BY <1>1, UrlInvariant, PTL

-----------------------------------------------------------------------------
(***************************************************************************)
(* The redirector                                                          *)
(***************************************************************************)
\* A change that will still wake the task, or has woken it.
Telling ==
    \/ permit
    \/ \E q \in Requests :
        req[q].at \in {"read", "store", "notify"} /\ req[q].op # "set_primary"

\* Unless a change that wakes the task is half-way, the public URL is a domain of
\* the table: a new primary domain is one, and so is the one before it.
UrlKnown ==
    (Configured = None /\ ~doubt /\ \A q \in Requests : Refreshing(q) => req[q].op = "set_primary")
    => url \in Known \cup {None}

\* And unless the task is to be woken, what it has read is what it redirects to.
LoopHome ==
    Configured = None /\ loop.sure /\ ~missed /\ ~Telling =>
        /\ loop.at = "domains" => loop.url \in Known \cup {None}
        /\ loop.at \in {"bind", "http", "acme", "tls", "sleep", "down"} =>
            loop.url \in loop.domains \cup {None}

HomeInv == UrlKnown /\ LoopHome

\* The URL that the table gives is one of its domains, unless it is configured.
LEMMA EffectiveIsKnown ==
    ASSUME TypeOK, Configured = None
    PROVE  Effective \in Known \cup {None}
<1>1. domains # <<>> => Head(domains) \in Known
  BY HeadTailProperties, LenProperties DEF TypeOK, Known, Range
<1> QED
  BY <1>1 DEF TypeOK, Effective, PrimaryDomain

\* A step of a handler, that leaves the task and the URL alone.
LEMMA HandlerStep ==
    ASSUME TypeOK, HomeInv, UNCHANGED <<loop, url>>, doubt => doubt', missed => missed',
           Known \subseteq Known' \/ Telling',
           Telling => Telling' \/ missed',
           (~doubt' /\ \A q \in Requests : Refreshing(q)' => req'[q].op = "set_primary") =>
                /\ \A q \in Requests : Refreshing(q) => req[q].op = "set_primary"
                /\ Known \subseteq Known'
    PROVE  HomeInv'
<1>1. UrlKnown'
  BY DEF HomeInv, UrlKnown
<1>2. LoopHome'
  BY DEF HomeInv, LoopHome
<1> QED
  BY <1>1, <1>2 DEF HomeInv

\* A commit: it will wake the task, unless it only changes the primary domain.
LEMMA CommitHome ==
    ASSUME TypeOK, HomeInv, NEW q \in Requests, NEW op \in Ops, Committed(q, op),
           UNCHANGED <<loop, url, permit, doubt, missed>>,
           op = "set_primary" => Known' = Known,
           req[q].at \in {"idle", "commit"}
    PROVE  HomeInv'
<1>1. req'[q].at = "read" /\ req'[q].op = op
  BY DEF Committed, Idle
<1>2. ASSUME NEW r \in Requests, r # q
      PROVE  req'[r].at = req[r].at /\ req'[r].op = req[r].op
  BY <1>2 DEF Committed, TypeOK, Request
<1>3. CASE op = "set_primary"
  <2>1. Telling => Telling'
    BY <1>2, <1>3 DEF Telling
  <2>2. ASSUME \A r \in Requests : Refreshing(r)' => req'[r].op = "set_primary"
        PROVE  \A r \in Requests : Refreshing(r) => req[r].op = "set_primary"
    BY <1>2, <2>2 DEF Refreshing
  <2> QED
    BY <1>3, <2>1, <2>2 DEF HomeInv, UrlKnown, LoopHome
<1>4. CASE op # "set_primary"
  <2>1. Telling' /\ Refreshing(q)' /\ req'[q].op # "set_primary"
    BY <1>1, <1>4 DEF Telling, Refreshing
  <2> QED
    BY <2>1 DEF HomeInv, UrlKnown, LoopHome
<1> QED
  BY <1>3, <1>4

\* When nothing is left to do the redirector sends clients to a domain that has a
\* certificate, or to the host they asked for: whoever deletes the domain the task
\* redirects to still has to wake it, and a new primary domain was served before.
\* Except when the URL was left by refreshes that overlapped or failed (loop.sure), or
\* the task missed something in its round.
THEOREM RedirectsStayHome == Spec => []RedirectsHome
<1>1. Init /\ TypeOK => HomeInv
  <2> SUFFICES ASSUME Init, TypeOK PROVE HomeInv
    OBVIOUS
  <2>1. url \in {Effective, None} /\ loop.at = "url"
    BY StartUrl DEF Init, NewLoop
  <2> QED
    BY <2>1, EffectiveIsKnown DEF HomeInv, UrlKnown, LoopHome
<1>2. TypeOK /\ UrlInv /\ HomeInv /\ [Next]_vars => HomeInv'
  <2> SUFFICES ASSUME TypeOK, UrlInv, HomeInv, [Next]_vars PROVE HomeInv'
    OBVIOUS
  <2>1. req \in [Requests -> Request]
    BY DEF TypeOK
  <2>2. ASSUME NEW q \in Requests, NEW r, req' = [req EXCEPT ![q] = r]
        PROVE  req'[q] = r /\ \A x \in Requests : x # q => req'[x] = req[x]
    BY <2>1, <2>2
  <2>3. ASSUME NEW q \in Requests, NEW d \in Names, StartAdd(q, d) PROVE HomeInv'
    <3> DEFINE r == [Idle EXCEPT !.op = "add", !.at = "commit", !.name = d]
    <3>1. r.at = "commit" /\ req[q].at = "idle"
      BY <2>3 DEF Idle, StartAdd
    <3>2. req' = [req EXCEPT ![q] = r]
      BY <2>3 DEF StartAdd
    <3>3. UNCHANGED <<loop, url, permit, doubt, missed, domains>>
      BY <2>3 DEF StartAdd, table, listeners, history
    <3> HIDE DEF r
    <3>4. req'[q].at = "commit" /\ \A x \in Requests : x # q => req'[x] = req[x]
      BY <3>1, <3>2, <2>2
    <3>5. Telling => Telling'
      BY <3>1, <3>3, <3>4 DEF Telling
    <3> QED
      BY <3>1, <3>3, <3>4, <3>5, HandlerStep DEF Refreshing, Known
  <2>4. ASSUME NEW q \in Requests, NEW e \in Emails \cup {None}, SetContact(q, e) PROVE HomeInv'
    <3> DEFINE r == [Idle EXCEPT !.op = "contact", !.at = "notify"]
    <3>1. r.at = "notify" /\ r.op = "contact" /\ req[q].at = "idle"
      BY <2>4 DEF Idle, SetContact
    <3>2. req' = [req EXCEPT ![q] = r]
      BY <2>4 DEF SetContact
    <3>3. UNCHANGED <<loop, url, permit, doubt, missed, domains>>
      BY <2>4 DEF SetContact, listeners, history
    <3> HIDE DEF r
    <3>4. /\ req'[q].at = "notify" /\ req'[q].op = "contact"
          /\ \A x \in Requests : x # q => req'[x] = req[x]
      BY <3>1, <3>2, <2>2
    <3>5. Telling'
      BY <3>4 DEF Telling
    <3> QED
      BY <3>1, <3>3, <3>4, <3>5, HandlerStep DEF Refreshing, Known
  <2>5. ASSUME NEW q \in Requests, NEW d \in Names, Delete(q, d) PROVE HomeInv'
    BY <2>5, CommitHome DEF Delete, Ops, listeners, history
  <2>6. ASSUME NEW q \in Requests, NEW d \in Names, SetPrimary(q, d) PROVE HomeInv'
    BY <2>6, CommitHome DEF SetPrimary, Ops, listeners, history, Known
  <2>7. ASSUME NEW q \in Requests, Add(q) PROVE HomeInv'
    BY <2>7, CommitHome DEF Add, Ops, listeners, history
  <2>8. ASSUME NEW q \in Requests, ReadPrimary(q) PROVE HomeInv'
    <3>1. /\ req'[q].at = "store" /\ req'[q].op = req[q].op /\ req[q].at = "read"
          /\ \A x \in Requests : x # q => req'[x] = req[x]
      BY <2>1, <2>8 DEF ReadPrimary, Request
    <3>2. UNCHANGED <<loop, url, permit, doubt, missed, domains>>
      BY <2>8 DEF ReadPrimary, table, listeners, history
    <3>3. Telling => Telling'
      BY <3>1, <3>2 DEF Telling
    <3> QED
      BY <3>1, <3>2, <3>3, HandlerStep DEF Refreshing, Known
  <2>9. ASSUME NEW q \in Requests, StoreUrl(q) PROVE HomeInv'
    <3>1. UNCHANGED <<loop, permit, missed, domains>> /\ req[q].at = "store"
      BY <2>9 DEF StoreUrl, table, listeners
    <3>2. /\ req[q].op # "set_primary" => req'[q].at = "notify" /\ req'[q].op = req[q].op
          /\ \A x \in Requests : x # q => req'[x] = req[x]
      BY <2>1, <2>9 DEF StoreUrl, Request
    <3>3. UrlKnown'
      <4>1. ASSUME ~doubt' PROVE url' = Effective
        BY <2>9, <4>1 DEF StoreUrl, UrlInv, StoresEffective
      <4> QED
        BY <3>1, <4>1, EffectiveIsKnown DEF UrlKnown, Known
    <3>4. Telling => Telling'
      BY <3>1, <3>2 DEF Telling
    <3>5. LoopHome'
      BY <3>1, <3>4 DEF HomeInv, LoopHome, Known
    <3> QED
      BY <3>3, <3>5 DEF HomeInv
  <2>10. ASSUME NEW q \in Requests, Notify(q) PROVE HomeInv'
    <3>1. UNCHANGED <<loop, url, doubt, missed, domains>> /\ req[q].at = "notify" /\ permit'
      BY <2>10 DEF Notify, Permit, table, listeners, history
    <3>2. req'[q].at = "idle" /\ \A x \in Requests : x # q => req'[x] = req[x]
      BY <2>2, <2>10, IdleIsRequest DEF Notify
    <3>3. Telling'
      BY <3>1 DEF Telling
    <3> QED
      BY <3>1, <3>2, <3>3, HandlerStep DEF Refreshing, Known
  <2>11. ASSUME NEW q \in Requests, Drop(q) PROVE HomeInv'
    <3>1. /\ UNCHANGED <<loop, url, permit, domains>>
          /\ doubt' = (doubt \/ Refreshing(q))
          /\ missed' = (missed \/ req[q].op # "set_primary")
      BY <2>11 DEF Drop, table, listeners
    <3>2. req'[q].at = "idle" /\ \A x \in Requests : x # q => req'[x] = req[x]
      BY <2>2, <2>11, IdleIsRequest DEF Drop
    <3>3. Telling => Telling' \/ missed'
      BY <3>1, <3>2 DEF Telling
    <3>4. UrlKnown'
      BY <3>1, <3>2 DEF HomeInv, UrlKnown, Refreshing, Known
    <3>5. LoopHome'
      BY <3>1, <3>3 DEF HomeInv, LoopHome, Known
    <3> QED
      BY <3>4, <3>5 DEF HomeInv
  <2>12. CASE Restart
    <3>1. url' \in {Effective, None} /\ domains' = domains
      BY <2>12, StartUrl DEF Restart, table
    <3> QED
      BY <2>12, <3>1, EffectiveIsKnown DEF Restart, NewLoop, HomeInv, UrlKnown, LoopHome, Known
  <2>13. ASSUME UNCHANGED <<url, req, doubt, domains>> PROVE UrlKnown'
    BY <2>13 DEF HomeInv, UrlKnown, Refreshing, Known
  <2>14. CASE ReadUrl
    <3>1. UNCHANGED <<url, req, doubt, permit, domains>>
      BY <2>14 DEF ReadUrl, table
    <3>2. loop'.at = "domains" /\ loop'.url = url /\ loop'.sure = ~doubt
      BY <2>14 DEF ReadUrl, UrlNow, TypeOK
    <3>3. ~Telling' => \A q \in Requests : Refreshing(q) => req[q].op = "set_primary"
      BY <3>1 DEF Telling, Refreshing
    <3>4. LoopHome'
      BY <3>1, <3>2, <3>3 DEF HomeInv, UrlKnown, LoopHome, Known
    <3> QED
      BY <2>13, <3>1, <3>4 DEF HomeInv
  <2>15. CASE ReadDomains
    <3>1. UNCHANGED <<url, req, doubt, permit, domains>>
      BY <2>15 DEF ReadDomains, table
    <3>2. \/ missed'
          \/ /\ loop.at = "domains" /\ missed' = missed
             /\ loop'.at \in {"bind", "acme"} /\ loop'.url = loop.url /\ loop'.sure = loop.sure
             /\ loop'.domains = Known
      BY <2>15 DEF ReadDomains, TypeOK
    <3>3. Telling' = Telling
      BY <3>1 DEF Telling
    <3>4. LoopHome'
      BY <3>2, <3>3 DEF HomeInv, LoopHome
    <3> QED
      BY <2>13, <3>1, <3>4 DEF HomeInv
  <2>16. CASE BindHttp \/ StartAcme \/ AcmeFails
    <3>1. UNCHANGED <<url, req, doubt, permit, domains>> /\ missed' \in {missed, TRUE}
      BY <2>16 DEF BindHttp, StartAcme, AcmeFails, table, history
    <3>2. /\ loop.at \in {"bind", "acme", "tls"} /\ loop'.at \in {"http", "down", "tls", "sleep"}
          /\ loop'.url = loop.url /\ loop'.sure = loop.sure /\ loop'.domains = loop.domains
      BY <2>16 DEF BindHttp, StartAcme, AcmeFails, TypeOK
    <3>3. Telling' = Telling
      BY <3>1 DEF Telling
    <3>4. LoopHome'
      BY <3>1, <3>2, <3>3 DEF HomeInv, LoopHome
    <3> QED
      BY <2>13, <3>1, <3>4 DEF HomeInv
  <2>17. CASE Reload \/ Retry
    <3>1. UNCHANGED <<url, req, doubt, domains>> /\ loop'.at = "url"
      BY <2>17 DEF Reload, Retry, NextRound, table, history, TypeOK
    <3>2. LoopHome'
      BY <3>1 DEF LoopHome
    <3> QED
      BY <2>13, <3>1, <3>2 DEF HomeInv
  <2>18. CASE BindRedirect \/ Release \/ UNCHANGED vars
    <3>1. UNCHANGED <<url, req, doubt, missed, permit, domains, loop>>
      BY <2>18 DEF BindRedirect, Release, table, history, listeners, vars
    <3>2. Telling' = Telling
      BY <3>1 DEF Telling
    <3>3. LoopHome'
      BY <3>1, <3>2 DEF HomeInv, LoopHome, Known
    <3> QED
      BY <2>13, <3>1, <3>3 DEF HomeInv
  <2> QED
    BY <2>3, <2>4, <2>5, <2>6, <2>7, <2>8, <2>9, <2>10, <2>11, <2>12, <2>14, <2>15, <2>16, <2>17,
       <2>18
    DEF Next, Serve, Handle, Finish
<1>3. HomeInv => RedirectsHome
  BY DEF HomeInv, LoopHome, RedirectsHome, Settled, Telling
<1> QED
  BY <1>1, <1>2, <1>3, TypeCorrect, UrlInvariant, PTL DEF Spec
=============================================================================
