--------------------------- MODULE SettingsProofs ---------------------------
(***************************************************************************)
(* Proofs about Settings, for any storage settings, accounts, domains and  *)
(* requests: the types, that the storage client in use follows the saved   *)
(* settings, and that accounts are made for an allowed domain only.        *)
(***************************************************************************)
EXTENDS Settings, TLAPS

LEMMA KeyOfIndex == ASSUME NEW n \in DOMAIN StorageKeys PROVE StorageKeys[n] \in Keys
  BY DEF Keys, Range

LEMMA IndexOfKey ==
    ASSUME NEW k \in Keys PROVE \E n \in DOMAIN StorageKeys : StorageKeys[n] = k
  BY DEF Keys, Range

LEMMA Indices ==
    /\ Len(StorageKeys) \in Nat \ {0} /\ DOMAIN StorageKeys = 1..Len(StorageKeys)
    /\ 1 \in DOMAIN StorageKeys
  <1>1. StorageKeys \in Seq(Range(StorageKeys)) /\ StorageKeys # <<>>
    BY KeysAssumption
  <1> QED
    BY <1>1

LEMMA GivenValue ==
    ASSUME NEW K, NEW V, NEW g \in Change(K, V), NEW k \in DOMAIN g
    PROVE g[k] \in V
  <1> PICK s \in SUBSET K : g \in [s -> V]
    BY DEF Change
  <1> QED
    OBVIOUS

LEMMA EffectiveValue ==
    ASSUME TypeOK PROVE \A k \in Keys : Effective(k) \in Values
  BY ValuesAssumption DEF TypeOK, Effective

\* A request is told from the others by its operation.
LEMMA Shapes ==
    ASSUME TypeOK, NEW q \in Requests
    PROVE /\ req[q] = Idle \/ req[q] \in StorageUpdate \/ req[q] \in OAuthUpdate
                            \/ req[q] \in SignInRequest
          /\ Updating(q) => req[q] \in StorageUpdate
          /\ req[q].op = "oauth" => req[q] \in OAuthUpdate
          /\ SigningIn(q) => req[q] \in SignInRequest
          /\ req[q] = Idle => ~Updating(q) /\ ~SigningIn(q)
  BY DEF TypeOK, Updating, SigningIn, Idle, StorageUpdate, OAuthUpdate, SignInRequest

-----------------------------------------------------------------------------
(***************************************************************************)
(* Types                                                                   *)
(***************************************************************************)
AnyRequest == {Idle} \cup StorageUpdate \cup OAuthUpdate \cup SignInRequest

\* A request past the exchange has an email, which makes it an account.
EmailKnown == \A q \in Requests :
    SigningIn(q) /\ req[q].at \in {"find", "name", "create"} => req[q].email \in Emails
Typed == TypeOK /\ EmailKnown

LEMMA BeginTyped ==
    ASSUME Typed, NEW q \in Requests, Begin(q) PROVE calls' \in 0..MaxCalls /\ faults' = faults
  BY BoundsAssumption DEF Typed, TypeOK, Begin

\* A sign-in that is told of a change.
Told(r, g) == [r EXCEPT !.moments = Append(@, g)]

LEMMA ToldTyped ==
    ASSUME NEW g \in Google, NEW r \in SignInRequest
    PROVE /\ Told(r, g) \in SignInRequest
          /\ Told(r, g).at = r.at /\ Told(r, g).email = r.email /\ Told(r, g).op = r.op
          /\ Told(r, g).enabled = r.enabled /\ Told(r, g).client = r.client
          /\ Told(r, g).domain = r.domain /\ Told(r, g).moments = Append(r.moments, g)
  BY DEF Told, SignInRequest

LEMMA GoogleRow ==
    ASSUME NEW g \in Google, NEW row \in {"enabled", "client", "domain"},
           NEW given \in OAuthChange, given[row] # {}
    PROVE [g EXCEPT ![row] = CHOOSE v \in given[row] : TRUE] \in Google
  <1> DEFINE v == CHOOSE x \in given[row] : TRUE
  <1>1. v \in given[row]
    OBVIOUS
  <1>2. given \in [enabled : SUBSET BOOLEAN, client : SUBSET BOOLEAN, domain : SUBSET (Domains \cup {None})]
    BY DEF OAuthChange
  <1> HIDE DEF v
  <1>3. CASE row = "enabled"
    <2>1. v \in BOOLEAN
      BY <1>1, <1>2, <1>3
    <2> QED
      BY <1>3, <2>1 DEF Google, v
  <1>4. CASE row = "client"
    <2>1. v \in BOOLEAN
      BY <1>1, <1>2, <1>4
    <2> QED
      BY <1>4, <2>1 DEF Google, v
  <1>5. CASE row = "domain"
    <2>1. v \in Domains \cup {None}
      BY <1>1, <1>2, <1>5
    <2> QED
      BY <1>5, <2>1 DEF Google, v
  <1> QED
    BY <1>3, <1>4, <1>5

LEMMA StorageTyped ==
    ASSUME Typed, NEW q \in Requests, UpdateStorage(q) PROVE Typed'
  <1> USE DEF Typed, tables, bounds
  <1>1. CASE StartStorage(q)
    <2> PICK given \in Change(Keys, Values) :
        req' = [r \in Requests |->
            IF r = q THEN [op |-> "storage", at |-> "save", given |-> given, next |-> 1,
                           read |-> [k \in Keys |-> Base], alone |-> ~\E x \in Requests : Updating(x)]
            ELSE IF Updating(r) THEN [req[r] EXCEPT !.alone = FALSE] ELSE req[r]]
      BY <1>1 DEF StartStorage
    <2> DEFINE new == [op |-> "storage", at |-> "save", given |-> given, next |-> 1,
                           read |-> [k \in Keys |-> Base], alone |-> ~\E x \in Requests : Updating(x)]
    <2>1. new \in StorageUpdate
      BY Indices, ValuesAssumption DEF StorageUpdate
    <2>2. ASSUME NEW r \in Requests, r # q PROVE req'[r] \in AnyRequest
      <3>1. CASE Updating(r)
        <4>1. req[r] \in StorageUpdate
          BY <3>1, Shapes
        <4>2. req'[r] = [req[r] EXCEPT !.alone = FALSE]
          BY <3>1, <2>2
        <4> QED
          BY <4>1, <4>2 DEF StorageUpdate, AnyRequest
      <3>2. CASE ~Updating(r)
        BY <3>2, <2>2 DEF TypeOK, AnyRequest
      <3> QED
        BY <3>1, <3>2
    <2>3. req'[q] = new
      OBVIOUS
    <2>4. req' \in [Requests -> AnyRequest]
      BY <2>1, <2>2, <2>3 DEF AnyRequest
    <2>5. EmailKnown'
      BY <2>3 DEF EmailKnown, SigningIn, Updating
    <2> QED
      BY <1>1, <2>4, <2>5, BeginTyped DEF StartStorage, TypeOK, AnyRequest
  <1>2. ASSUME NEW at \in {"save", "read"}, Is(q, "storage", at),
               NEW r \in StorageUpdate, req' = [req EXCEPT ![q] = r]
        PROVE req' \in [Requests -> AnyRequest] /\ EmailKnown'
    BY <1>2 DEF TypeOK, AnyRequest, EmailKnown, SigningIn, StorageUpdate
  <1>3. ASSUME NEW at \in {"save", "read"}, Is(q, "storage", at) PROVE req[q] \in StorageUpdate
    BY <1>3, Shapes DEF Is, Updating
  <1>4. CASE SaveSetting(q)
    <2>1. req[q] \in StorageUpdate /\ Is(q, "storage", "save")
      BY <1>4, <1>3 DEF SaveSetting
    <2> DEFINE k == StorageKeys[req[q].next]
               r == IF req[q].next < Len(StorageKeys) THEN [req[q] EXCEPT !.next = @ + 1]
                    ELSE [req[q] EXCEPT !.next = 1, !.at = "read"]
    <2>2. k \in Keys
      BY <2>1, KeyOfIndex DEF StorageUpdate
    <2>3. k \in DOMAIN req[q].given => req[q].given[k] \in Values
      BY <2>1, GivenValue DEF StorageUpdate
    <2>4. saved' \in [Keys -> Values \cup {None}]
      BY <1>4, <2>2, <2>3 DEF SaveSetting, TypeOK
    <2>5. r \in StorageUpdate
      <3>1. CASE req[q].next < Len(StorageKeys)
        <4>1. req[q].next + 1 \in DOMAIN StorageKeys
          BY <2>1, <3>1, Indices DEF StorageUpdate
        <4> QED
          BY <2>1, <3>1, <4>1 DEF StorageUpdate
      <3>2. CASE ~(req[q].next < Len(StorageKeys))
        BY <2>1, <3>2, Indices DEF StorageUpdate
      <3> QED
        BY <3>1, <3>2
    <2>6. req' = [req EXCEPT ![q] = r]
      <3>1. Passed(q, "read")
        BY <1>4 DEF SaveSetting
      <3>2. CASE req[q].next < Len(StorageKeys)
        BY <3>1, <3>2 DEF Passed
      <3>3. CASE ~(req[q].next < Len(StorageKeys))
        BY <3>1, <3>3 DEF Passed
      <3> QED
        BY <3>2, <3>3
    <2>7. req' \in [Requests -> AnyRequest] /\ EmailKnown'
      BY <1>2, <2>1, <2>5, <2>6
    <2> QED
      BY <1>4, <2>4, <2>7 DEF SaveSetting, TypeOK, AnyRequest, Quiet
  <1>5. CASE ReadBack(q)
    <2>1. req[q] \in StorageUpdate /\ Is(q, "storage", "read")
      BY <1>5, <1>3 DEF ReadBack
    <2> DEFINE k == StorageKeys[req[q].next]
               last == req[q].next = Len(StorageKeys)
               r == [req[q] EXCEPT !.read[k] = ReadSetting(q, k), !.next = IF last THEN 1 ELSE @ + 1,
                                   !.at = IF last THEN "swap" ELSE @]
    <2>2. k \in Keys
      BY <2>1, KeyOfIndex DEF StorageUpdate
    <2>3. ReadSetting(q, k) \in Values
      BY <2>2, EffectiveValue, ValuesAssumption DEF ReadSetting
    <2>4. r \in StorageUpdate
      <3>1. [req[q].read EXCEPT ![k] = ReadSetting(q, k)] \in [Keys -> Values]
        BY <2>1, <2>3 DEF StorageUpdate
      <3>2. (IF last THEN 1 ELSE req[q].next + 1) \in DOMAIN StorageKeys
        BY <2>1, Indices DEF StorageUpdate
      <3> QED
        BY <2>1, <3>1, <3>2 DEF StorageUpdate
    <2>5. req' = [req EXCEPT ![q] = r]
      BY <1>5 DEF ReadBack
    <2>6. req' \in [Requests -> AnyRequest] /\ EmailKnown'
      BY <1>2, <2>1, <2>4, <2>5
    <2> QED
      BY <1>5, <2>6 DEF ReadBack, TypeOK, AnyRequest, Quiet
  <1>6. CASE SetStorage(q)
    <2>1. req[q] \in StorageUpdate
      BY <1>6, Shapes DEF SetStorage, Is, Updating
    <2>2. req' \in [Requests -> AnyRequest] /\ EmailKnown'
      BY <1>6 DEF SetStorage, Return, TypeOK, AnyRequest, EmailKnown, SigningIn, Idle
    <2> QED
      BY <1>6, <2>1, <2>2 DEF SetStorage, TypeOK, AnyRequest, StorageUpdate, Quiet
  <1> QED
    BY <1>1, <1>4, <1>5, <1>6 DEF UpdateStorage

LEMMA OAuthTyped ==
    ASSUME Typed, NEW q \in Requests, StartOAuth(q) \/ SaveOAuth(q) PROVE Typed'
  <1> USE DEF Typed, tables, bounds
  <1>1. CASE StartOAuth(q)
    <2> PICK given \in OAuthChange :
        req' = [req EXCEPT ![q] = [op |-> "oauth", at |-> "enabled", given |-> given]]
      BY <1>1 DEF StartOAuth
    <2>1. req' \in [Requests -> AnyRequest] /\ EmailKnown'
      BY DEF TypeOK, AnyRequest, OAuthUpdate, EmailKnown, SigningIn
    <2> QED
      BY <1>1, <2>1, BeginTyped DEF StartOAuth, TypeOK, AnyRequest
  <1>2. CASE SaveOAuth(q)
    <2>1. req[q] \in OAuthUpdate
      BY <1>2, Shapes DEF SaveOAuth
    <2>2. google' \in Google
      <3>1. CASE req[q].given[req[q].at] = {}
        BY <1>2, <3>1 DEF SaveOAuth, TypeOK
      <3>2. CASE req[q].given[req[q].at] # {}
        BY <1>2, <2>1, <3>2, GoogleRow DEF SaveOAuth, TypeOK, OAuthUpdate
      <3> QED
        BY <3>1, <3>2
    <2>3. req' = [x \in Requests |->
                IF x = q THEN CASE req[q].at = "enabled" -> [req[q] EXCEPT !.at = "client"]
                                [] req[q].at = "client" -> [req[q] EXCEPT !.at = "domain"]
                                [] OTHER -> Idle
                ELSE IF SigningIn(x) THEN Told(req[x], google') ELSE req[x]]
      BY <1>2 DEF SaveOAuth, Told
    <2>4. ASSUME NEW x \in Requests
          PROVE /\ req'[x] \in AnyRequest
                /\ SigningIn(x)' => SigningIn(x) /\ req'[x].email = req[x].email
                                                 /\ req'[x].at = req[x].at
      <3>1. CASE x = q
        BY <2>1, <2>3, <3>1 DEF AnyRequest, OAuthUpdate, SigningIn, Idle
      <3>2. CASE x # q /\ SigningIn(x)
        BY <2>2, <2>3, <3>2, Shapes, ToldTyped DEF AnyRequest
      <3>3. CASE x # q /\ ~SigningIn(x)
        BY <2>3, <3>3 DEF AnyRequest, TypeOK, SigningIn
      <3> QED
        BY <3>1, <3>2, <3>3
    <2>5. EmailKnown'
      BY <2>4 DEF EmailKnown
    <2>6. req' \in [Requests -> AnyRequest]
      BY <2>3, <2>4
    <2> QED
      BY <1>2, <2>2, <2>5, <2>6 DEF SaveOAuth, TypeOK, AnyRequest, Quiet
  <1> QED
    BY <1>1, <1>2

LEMMA SignInTyped ==
    ASSUME Typed, NEW q \in Requests, SignIn(q) PROVE Typed'
  <1> USE DEF Typed, tables, bounds
  <1>1. CASE StartSignIn(q)
    <2> DEFINE r == [op |-> "sign_in", at |-> "enabled", enabled |-> FALSE, client |-> FALSE,
                     domain |-> None, email |-> None, name |-> 0, moments |-> <<google>>]
    <2>1. r \in SignInRequest
      BY DEF SignInRequest, TypeOK
    <2>3. req' = [req EXCEPT ![q] = r]
      BY <1>1 DEF StartSignIn
    <2>4. req' \in [Requests -> AnyRequest] /\ EmailKnown'
      BY <2>1, <2>3 DEF TypeOK, AnyRequest, EmailKnown, SigningIn
    <2> QED
      BY <1>1, <2>4, BeginTyped DEF StartSignIn, TypeOK, AnyRequest
  <1>2. ASSUME NEW r, r = Idle \/ (r \in SignInRequest /\
                   (r.at \in {"find", "name", "create"} => r.email \in Emails)),
               req' = [req EXCEPT ![q] = r]
        PROVE req' \in [Requests -> AnyRequest] /\ EmailKnown'
    <2>1. r \in AnyRequest
      BY <1>2 DEF AnyRequest
    <2>2. req' \in [Requests -> AnyRequest]
      BY <1>2, <2>1 DEF TypeOK, AnyRequest
    <2>3. ASSUME NEW x \in Requests, SigningIn(x)', req'[x].at \in {"find", "name", "create"}
          PROVE req'[x].email \in Emails
      <3>1. CASE x = q
        BY <1>2, <2>3, <3>1 DEF TypeOK, SigningIn, Idle
      <3>2. CASE x # q
        BY <1>2, <2>3, <3>2 DEF TypeOK, SigningIn, EmailKnown
      <3> QED
        BY <3>1, <3>2
    <2> QED
      BY <2>2, <2>3 DEF EmailKnown
  <1>3. SUFFICES ASSUME ~StartSignIn(q), req[q] \in SignInRequest
        PROVE Typed'
    BY <1>1, Shapes DEF SignIn, LoadEnabled, LoadClient, LoadDomain, Exchange, FindUser, UniqueName, CreateUser,
        Is, SigningIn
  <1>4. ASSUME UNCHANGED <<saved, google, client, apart, calls, faults>>,
               accounts' \in SUBSET [email : Emails, name : Nat],
               req' \in [Requests -> AnyRequest], EmailKnown'
        PROVE Typed'
    BY <1>4 DEF TypeOK, AnyRequest
  <1> USE DEF SignInRequest
  <1>5. CASE LoadEnabled(q)
    <2> DEFINE r == [req[q] EXCEPT !.at = "client", !.enabled = google.enabled]
    <2>1. r \in SignInRequest /\ r.at = "client"
      BY <1>3 DEF TypeOK, Google
    <2>2. req' = [req EXCEPT ![q] = r]
      BY <1>5 DEF LoadEnabled
    <2> HIDE DEF r
    <2> QED
      BY <1>2, <1>4, <1>5, <2>1, <2>2 DEF LoadEnabled, Quiet, TypeOK
  <1>51. CASE LoadClient(q)
    <2> DEFINE r == [req[q] EXCEPT !.at = "domain", !.client = google.client]
    <2>1. r \in SignInRequest /\ r.at = "domain"
      BY <1>3 DEF TypeOK, Google
    <2>2. req' = [req EXCEPT ![q] = r]
      BY <1>51 DEF LoadClient
    <2> HIDE DEF r
    <2> QED
      BY <1>2, <1>4, <1>51, <2>1, <2>2 DEF LoadClient, Quiet, TypeOK
  <1>6. CASE LoadDomain(q)
    <2>1. [req[q] EXCEPT !.at = "exchange", !.domain = google.domain] \in SignInRequest
      BY <1>3 DEF TypeOK, Google
    <2>2. \/ req' = [req EXCEPT ![q] = [req[q] EXCEPT !.at = "exchange", !.domain = google.domain]]
          \/ req' = [req EXCEPT ![q] = Idle]
      BY <1>6 DEF LoadDomain, Return
    <2> QED
      BY <1>2, <1>4, <1>6, <2>1, <2>2 DEF LoadDomain, Quiet, TypeOK
  <1>7. ASSUME NEW e \in Emails, Exchange(q, e) PROVE Typed'
    <2>1. [req[q] EXCEPT !.at = "find", !.email = e] \in SignInRequest
      BY <1>3
    <2>2. \/ req' = [req EXCEPT ![q] = [req[q] EXCEPT !.at = "find", !.email = e]]
          \/ req' = [req EXCEPT ![q] = Idle]
      BY <1>7 DEF Exchange, Return
    <2> QED
      BY <1>2, <1>3, <1>4, <1>7, <2>1, <2>2 DEF Exchange, Quiet, TypeOK
  <1>8. CASE FindUser(q)
    <2>1. req[q].email \in Emails
      BY <1>3, <1>8 DEF FindUser, Is, EmailKnown, SigningIn
    <2>2. \/ req' = [req EXCEPT ![q] = [req[q] EXCEPT !.at = "name"]]
          \/ req' = [req EXCEPT ![q] = Idle]
      BY <1>8 DEF FindUser, Return
    <2>3. [req[q] EXCEPT !.at = "name"] \in SignInRequest /\ [req[q] EXCEPT !.at = "name"].email \in Emails
      BY <1>3, <2>1
    <2> QED
      BY <1>2, <1>4, <1>8, <2>2, <2>3 DEF FindUser, Quiet, TypeOK
  <1>9. CASE UniqueName(q)
    <2>1. req[q].email \in Emails
      BY <1>3, <1>9 DEF UniqueName, Is, EmailKnown, SigningIn
    <2>2. \/ req' = [req EXCEPT ![q] = [req[q] EXCEPT !.name = req[q].name + 1]]
          \/ req' = [req EXCEPT ![q] = [req[q] EXCEPT !.at = "create"]]
      BY <1>9 DEF UniqueName
    <2>3. /\ [req[q] EXCEPT !.at = "create"] \in SignInRequest
          /\ [req[q] EXCEPT !.at = "create"].email \in Emails
          /\ [req[q] EXCEPT !.name = req[q].name + 1] \in SignInRequest
          /\ [req[q] EXCEPT !.name = req[q].name + 1].email \in Emails
      BY <1>3, <2>1
    <2> QED
      BY <1>2, <1>4, <1>9, <2>2, <2>3 DEF UniqueName, Quiet, TypeOK
  <1>10. CASE CreateUser(q)
    <2>1. req[q].email \in Emails
      BY <1>3, <1>10 DEF CreateUser, Is, EmailKnown, SigningIn
    <2>2. accounts' \in SUBSET [email : Emails, name : Nat]
      BY <1>3, <1>10, <2>1 DEF CreateUser, TypeOK
    <2> QED
      BY <1>2, <1>4, <1>10, <2>2 DEF CreateUser, Return, Quiet
  <1> QED
    BY <1>3, <1>5, <1>51, <1>6, <1>7, <1>8, <1>9, <1>10 DEF SignIn

LEMMA EffectiveTyped == ASSUME TypeOK PROVE EffectiveStorage \in [Keys -> Values]
  BY EffectiveValue DEF EffectiveStorage

LEMMA InitTyped == Init => Typed
  <1> SUFFICES ASSUME Init PROVE Typed
    OBVIOUS
  <1>1. client \in [Keys -> Values]
    BY ValuesAssumption DEF Init, EffectiveStorage, Effective
  <1>2. req \in [Requests -> AnyRequest] /\ EmailKnown
    BY DEF Init, AnyRequest, EmailKnown, SigningIn, Idle
  <1>3. calls \in 0..MaxCalls /\ faults \in 0..MaxFaults
    BY BoundsAssumption DEF Init
  <1>4. saved \in [Keys -> Values \cup {None}] /\ google \in Google /\ accounts = {} /\ apart = FALSE
    BY DEF Init
  <1> QED
    BY <1>1, <1>2, <1>3, <1>4 DEF Typed, TypeOK, AnyRequest

LEMMA NextTyped == Typed /\ [Next]_vars => Typed'
  <1> SUFFICES ASSUME Typed, [Next]_vars PROVE Typed'
    OBVIOUS
  <1>1. ASSUME NEW q \in Requests, UpdateStorage(q) \/ StartOAuth(q) \/ SaveOAuth(q) \/ SignIn(q)
        PROVE Typed'
    BY <1>1, StorageTyped, OAuthTyped, SignInTyped
  <1>2. ASSUME NEW q \in Requests, Fail(q) PROVE Typed'
    <2>1. req' \in [Requests -> AnyRequest] /\ EmailKnown'
      BY <1>2 DEF Fail, Return, Typed, TypeOK, AnyRequest, EmailKnown, SigningIn, Idle
    <2> QED
      BY <1>2, <2>1, BoundsAssumption DEF Fail, Typed, TypeOK, AnyRequest, tables
  <1>3. CASE Restart
    <2>1. req' \in [Requests -> AnyRequest] /\ EmailKnown'
      BY <1>3 DEF Restart, AnyRequest, EmailKnown, SigningIn, Idle
    <2>2. client' \in [Keys -> Values] /\ apart' = FALSE
      BY <1>3, EffectiveTyped DEF Restart, Typed
    <2>3. calls' \in 0..MaxCalls /\ faults' \in 0..MaxFaults
      BY <1>3, BoundsAssumption DEF Restart, Typed, TypeOK
    <2>4. UNCHANGED tables
      BY <1>3 DEF Restart
    <2> QED
      BY <2>1, <2>2, <2>3, <2>4 DEF Typed, TypeOK, AnyRequest, tables
  <1>4. CASE UNCHANGED vars
    BY <1>4 DEF vars, tables, bounds, Typed, TypeOK, EmailKnown, SigningIn
  <1> QED
    BY <1>1, <1>2, <1>3, <1>4 DEF Next

\* Every variable has its type, and a request the shape of its operation.
THEOREM TypeCorrect == Spec => []TypeOK
  <1>1. Typed => TypeOK
    BY DEF Typed
  <1> QED
    BY InitTyped, NextTyped, <1>1, PTL DEF Spec

-----------------------------------------------------------------------------
(***************************************************************************)
(* The storage client                                                      *)
(***************************************************************************)
\* An update that is alone is the only one in progress.
Alone == \A q, r \in Requests : Updating(q) /\ req[q].alone /\ Updating(r) => r = q

\* What an update that is alone has read is what the rows still say.
ReadSoFar == \A q \in Requests : Updating(q) /\ req[q].alone =>
    /\ req[q].at = "read" => \A i \in DOMAIN StorageKeys :
            i < req[q].next => req[q].read[StorageKeys[i]] = Effective(StorageKeys[i])
    /\ req[q].at = "swap" => req[q].read = EffectiveStorage

ClientInv == Typed /\ Alone /\ ReadSoFar /\ ClientFollows

LEMMA EffectiveKept ==
    ASSUME saved' = saved
    PROVE EffectiveStorage' = EffectiveStorage /\ \A k : Effective(k)' = Effective(k)
  BY DEF EffectiveStorage, Effective

\* A step that saves nothing and only ends updates keeps all of it, if it ends none
\* without saying that rows and client may be apart.
LEMMA Undisturbed ==
    ASSUME ClientInv, saved' = saved, client' = client, apart => apart',
           \A r \in Requests : Updating(r)' => Updating(r) /\ req'[r] = req[r],
           \A r \in Requests : Updating(r) /\ ~Updating(r)' => apart'
    PROVE Alone' /\ ReadSoFar' /\ ClientFollows'
  <1>1. Alone'
    BY DEF ClientInv, Alone
  <1>2. ReadSoFar'
    BY EffectiveKept DEF ClientInv, ReadSoFar
  <1>3. ClientFollows'
    BY EffectiveKept DEF ClientInv, ClientFollows
  <1> QED
    BY <1>1, <1>2, <1>3

LEMMA StartKept ==
    ASSUME ClientInv, NEW q \in Requests, StartStorage(q)
    PROVE Alone' /\ ReadSoFar' /\ ClientFollows'
  <1> PICK given \in Change(Keys, Values) :
        req' = [r \in Requests |->
            IF r = q THEN [op |-> "storage", at |-> "save", given |-> given, next |-> 1,
                           read |-> [k \in Keys |-> Base], alone |-> ~\E x \in Requests : Updating(x)]
            ELSE IF Updating(r) THEN [req[r] EXCEPT !.alone = FALSE] ELSE req[r]]
    BY DEF StartStorage
  <1>1. Updating(q)' /\ req'[q].at = "save" /\ req'[q].alone = ~\E x \in Requests : Updating(x)
    BY DEF Updating
  <1>2. ASSUME NEW r \in Requests, r # q, Updating(r)' PROVE Updating(r) /\ ~req'[r].alone
    <2>1. CASE Updating(r)
      BY <1>2, <2>1, Shapes DEF ClientInv, Typed, StorageUpdate
    <2>2. CASE ~Updating(r)
      BY <1>2, <2>2 DEF Updating
    <2> QED
      BY <2>1, <2>2
  <1>3. Alone'
    BY <1>1, <1>2 DEF Alone
  <1>4. ReadSoFar'
    BY <1>1, <1>2 DEF ReadSoFar
  <1> QED
    BY <1>1, <1>3, <1>4 DEF ClientFollows

\* A step of an update that goes on: beside it none is alone.
LEMMA OwnStep ==
    ASSUME ClientInv, NEW q \in Requests, Updating(q), NEW r, req' = [req EXCEPT ![q] = r],
           r.op = "storage", r.alone = req[q].alone
    PROVE /\ Alone' /\ ClientFollows'
          /\ \A x \in Requests : Updating(x)' /\ req'[x].alone => x = q
          /\ req'[q] = r
  <1>1. req'[q] = r
    BY DEF ClientInv, Typed, TypeOK
  <1>2. \A x \in Requests : x # q => req'[x] = req[x]
    BY DEF ClientInv, Typed, TypeOK
  <1>3. \A x \in Requests : Updating(x)' <=> Updating(x)
    BY <1>1, <1>2 DEF Updating
  <1>4. \A x \in Requests : req'[x].alone = req[x].alone
    BY <1>1, <1>2
  <1>5. Alone'
    BY <1>3, <1>4 DEF ClientInv, Alone
  <1>6. ClientFollows'
    BY <1>3 DEF ClientFollows
  <1> QED
    BY <1>1, <1>3, <1>5, <1>6 DEF Alone

LEMMA SaveKept ==
    ASSUME ClientInv, NEW q \in Requests, SaveSetting(q)
    PROVE Alone' /\ ReadSoFar' /\ ClientFollows'
  <1>1. Updating(q) /\ req[q] \in StorageUpdate
    BY Shapes DEF SaveSetting, Is, Updating, ClientInv, Typed
  <1> DEFINE r == IF req[q].next < Len(StorageKeys) THEN [req[q] EXCEPT !.next = req[q].next + 1]
                  ELSE [req[q] EXCEPT !.next = 1, !.at = "read"]
  <1>2. req' = [req EXCEPT ![q] = r]
    BY DEF SaveSetting, Passed
  <1>3. /\ r.op = "storage" /\ r.alone = req[q].alone
        /\ r.at = "save" \/ (r.at = "read" /\ r.next = 1)
    BY <1>1 DEF SaveSetting, Is, StorageUpdate
  <1> HIDE DEF r
  <1>4. /\ Alone' /\ ClientFollows' /\ req'[q] = r
        /\ \A x \in Requests : Updating(x)' /\ req'[x].alone => x = q
    BY <1>1, <1>2, <1>3, OwnStep
  <1>5. ReadSoFar'
    <2>1. \A i \in DOMAIN StorageKeys : ~(i < 1)
      BY Indices
    <2> QED
      BY <1>3, <1>4, <2>1 DEF ReadSoFar
  <1> QED
    BY <1>4, <1>5

LEMMA ReadKept ==
    ASSUME ClientInv, NEW q \in Requests, ReadBack(q)
    PROVE Alone' /\ ReadSoFar' /\ ClientFollows'
  <1>1. Updating(q) /\ req[q] \in StorageUpdate /\ req[q].at = "read"
    BY Shapes DEF ReadBack, Is, Updating, ClientInv, Typed
  <1> DEFINE n == req[q].next
             k == StorageKeys[n]
             last == n = Len(StorageKeys)
             r == [req[q] EXCEPT !.read[k] = ReadSetting(q, k), !.next = IF last THEN 1 ELSE @ + 1,
                                 !.at = IF last THEN "swap" ELSE @]
  <1>2. req' = [req EXCEPT ![q] = r]
    BY DEF ReadBack
  <1>3. /\ r.op = "storage" /\ r.alone = req[q].alone
        /\ r.at = IF last THEN "swap" ELSE "read"
        /\ r.next = IF last THEN 1 ELSE n + 1
        /\ r.read = [req[q].read EXCEPT ![k] = ReadSetting(q, k)]
    BY <1>1 DEF StorageUpdate
  <1>4. ReadSetting(q, k) = Effective(k) /\ n \in DOMAIN StorageKeys
    BY <1>1 DEF ReadSetting, StorageUpdate
  <1>5. ASSUME req[q].alone, NEW i \in DOMAIN StorageKeys, i <= n
        PROVE r.read[StorageKeys[i]] = Effective(StorageKeys[i])
    <2>1. StorageKeys[i] \in Keys /\ req[q].read \in [Keys -> Values]
      BY <1>1, KeyOfIndex DEF StorageUpdate
    <2>2. CASE StorageKeys[i] = k
      BY <1>3, <1>4, <2>1, <2>2
    <2>3. CASE StorageKeys[i] # k
      <3>1. i < n
        BY <1>4, <1>5, <2>3, Indices
      <3>2. req[q].read[StorageKeys[i]] = Effective(StorageKeys[i])
        BY <1>1, <1>5, <3>1 DEF ClientInv, ReadSoFar
      <3> QED
        BY <1>3, <2>1, <2>3, <3>2
    <2> QED
      BY <2>2, <2>3
  <1>6. ASSUME req[q].alone, last PROVE r.read = EffectiveStorage
    <2>1. r.read \in [Keys -> Values]
      <3>1. k \in Keys
        BY <1>4, KeyOfIndex
      <3>2. Effective(k) \in Values
        BY <3>1, EffectiveValue DEF ClientInv, Typed
      <3> QED
        BY <1>1, <1>3, <1>4, <3>2 DEF StorageUpdate
    <2>2. ASSUME NEW x \in Keys PROVE r.read[x] = Effective(x)
      <3>1. PICK i \in DOMAIN StorageKeys : StorageKeys[i] = x
        BY IndexOfKey
      <3>2. i <= n
        BY <1>6, Indices
      <3> QED
        BY <1>5, <1>6, <3>1, <3>2
    <2> QED
      BY <2>1, <2>2 DEF EffectiveStorage
  <1>7. saved' = saved
    BY DEF ReadBack, tables
  <1> HIDE DEF r, last, k
  <1>8. /\ Alone' /\ ClientFollows' /\ req'[q] = r
        /\ \A x \in Requests : Updating(x)' /\ req'[x].alone => x = q
    BY <1>1, <1>2, <1>3, OwnStep
  <1>9. ReadSoFar'
    <2> SUFFICES ASSUME r.alone
                 PROVE /\ r.at = "read" => \A i \in DOMAIN StorageKeys :
                            i < r.next => r.read[StorageKeys[i]] = Effective(StorageKeys[i])
                       /\ r.at = "swap" => r.read = EffectiveStorage
      BY <1>7, <1>8, EffectiveKept DEF ReadSoFar
    <2>1. CASE last
      BY <1>3, <1>6, <2>1
    <2>2. CASE ~last
      BY <1>3, <1>4, <1>5, <2>2, Indices
    <2> QED
      BY <2>1, <2>2
  <1> QED
    BY <1>8, <1>9

LEMMA SwapKept ==
    ASSUME ClientInv, NEW q \in Requests, SetStorage(q)
    PROVE Alone' /\ ReadSoFar' /\ ClientFollows'
  <1>1. Updating(q) /\ req[q] \in StorageUpdate /\ req[q].at = "swap"
    BY Shapes DEF SetStorage, Is, Updating, ClientInv, Typed
  <1>2. saved' = saved /\ client' = req[q].read /\ apart' = ~req[q].alone
    BY DEF SetStorage, tables
  <1>3. ~Updating(q)' /\ \A x \in Requests : x # q => req'[x] = req[x]
    BY DEF SetStorage, Return, ClientInv, Typed, TypeOK, Updating, Idle
  <1>4. \A x \in Requests : Updating(x)' => x # q /\ Updating(x) /\ ~req'[x].alone
    BY <1>1, <1>3 DEF Updating, ClientInv, Alone
  <1>5. Alone' /\ ReadSoFar'
    BY <1>4 DEF Alone, ReadSoFar
  <1>6. ClientFollows'
    BY <1>1, <1>2, EffectiveKept DEF ClientFollows, ClientInv, ReadSoFar
  <1> QED
    BY <1>5, <1>6

LEMMA OtherKept ==
    ASSUME ClientInv, NEW q \in Requests,
           StartOAuth(q) \/ SaveOAuth(q) \/ SignIn(q) \/ Fail(q)
    PROVE Alone' /\ ReadSoFar' /\ ClientFollows'
  <1> DEFINE Others == \A r \in Requests : r # q => (Updating(r)' <=> Updating(r)) /\
                                                   (Updating(r) => req'[r] = req[r])
  <1>1. CASE StartOAuth(q) \/ SignIn(q)
    <2>1. saved' = saved /\ client' = client /\ apart' = apart
      BY <1>1 DEF StartOAuth, SignIn, StartSignIn, LoadEnabled, LoadClient, LoadDomain, Exchange, FindUser,
          UniqueName, CreateUser, tables
    <2>2. ~Updating(q) /\ \E r : r.op # "storage" /\ req' = [req EXCEPT ![q] = r]
      <3>1. CASE StartOAuth(q)
        <4>1. ~Updating(q)
          BY <3>1 DEF StartOAuth, Begin, Updating, Idle
        <4> PICK given \in OAuthChange :
              req' = [req EXCEPT ![q] = [op |-> "oauth", at |-> "enabled", given |-> given]]
          BY <3>1 DEF StartOAuth
        <4> DEFINE r == [op |-> "oauth", at |-> "enabled", given |-> given]
        <4>2. r.op # "storage" /\ req' = [req EXCEPT ![q] = r]
          OBVIOUS
        <4> HIDE DEF r
        <4> QED
          BY <4>1, <4>2
      <3>2. CASE StartSignIn(q)
        <4>1. ~Updating(q)
          BY <3>2 DEF StartSignIn, Begin, Updating, Idle
        <4> DEFINE r == [op |-> "sign_in", at |-> "enabled", enabled |-> FALSE, client |-> FALSE,
                         domain |-> None, email |-> None, name |-> 0, moments |-> <<google>>]
        <4>2. r.op # "storage"
          OBVIOUS
        <4>3. req' = [req EXCEPT ![q] = r]
          BY <3>2 DEF StartSignIn
        <4> HIDE DEF r
        <4> QED
          BY <4>1, <4>2, <4>3
      <3>3. CASE CreateUser(q)
        BY <3>3 DEF CreateUser, Is, Return, Updating, Idle
      <3>4. CASE LoadEnabled(q) \/ LoadClient(q) \/ LoadDomain(q) \/ FindUser(q) \/ UniqueName(q)
                 \/ \E e \in Emails : Exchange(q, e)
        <4>1. req[q].op = "sign_in"
          BY <3>4 DEF LoadEnabled, LoadClient, LoadDomain, FindUser, UniqueName, Exchange, Is
        <4>2. req[q] \in SignInRequest
          BY <4>1, Shapes DEF SigningIn, ClientInv, Typed
        <4>3. \E r : r.op # "storage" /\ req' = [req EXCEPT ![q] = r]
          BY <3>4, <4>2 DEF LoadEnabled, LoadClient, LoadDomain, FindUser, UniqueName, Exchange, Return, Idle,
              SignInRequest
        <4> QED
          BY <4>1, <4>3 DEF Updating
      <3> QED
        BY <1>1, <3>1, <3>2, <3>3, <3>4 DEF SignIn
    <2>3. \A r \in Requests : (Updating(r)' <=> Updating(r)) /\ (Updating(r) => req'[r] = req[r])
      BY <2>2 DEF Updating, ClientInv, Typed, TypeOK
    <2> QED
      BY <2>1, <2>3, Undisturbed
  <1>2. CASE SaveOAuth(q)
    <2>1. saved' = saved /\ client' = client /\ apart' = apart
      BY <1>2 DEF SaveOAuth
    <2>2. req[q].op = "oauth"
      BY <1>2 DEF SaveOAuth
    <2>3. req' = [x \in Requests |->
                IF x = q THEN CASE req[q].at = "enabled" -> [req[q] EXCEPT !.at = "client"]
                                [] req[q].at = "client" -> [req[q] EXCEPT !.at = "domain"]
                                [] OTHER -> Idle
                ELSE IF SigningIn(x) THEN Told(req[x], google') ELSE req[x]]
      BY <1>2 DEF SaveOAuth, Told
    <2>4. ~Updating(q)' /\ ~Updating(q)
      BY <2>2, <2>3, Shapes DEF Updating, OAuthUpdate, Idle, ClientInv, Typed
    <2>5. ASSUME NEW r \in Requests, r # q
          PROVE (Updating(r)' <=> Updating(r)) /\ (Updating(r) => req'[r] = req[r])
      <3>1. CASE SigningIn(r)
        <4>1. req[r] \in SignInRequest
          BY <3>1, Shapes DEF ClientInv, Typed
        <4>2. req'[r].op = "sign_in"
          BY <2>3, <2>5, <3>1, <4>1 DEF Told, SignInRequest
        <4> QED
          BY <3>1, <4>2 DEF Updating, SigningIn
      <3>2. CASE ~SigningIn(r)
        BY <2>3, <2>5, <3>2 DEF Updating
      <3> QED
        BY <3>1, <3>2
    <2>6. \A r \in Requests : (Updating(r)' <=> Updating(r)) /\ (Updating(r) => req'[r] = req[r])
      BY <2>4, <2>5
    <2> QED
      BY <2>1, <2>6, Undisturbed
  <1>3. CASE Fail(q)
    <2>1. saved' = saved /\ client' = client /\ apart' = (apart \/ Updating(q))
      BY <1>3 DEF Fail, tables
    <2>2. ~Updating(q)' /\ \A r \in Requests : r # q => req'[r] = req[r]
      BY <1>3 DEF Fail, Return, ClientInv, Typed, TypeOK, Updating, Idle
    <2>3. \A r \in Requests : Updating(r)' => Updating(r) /\ req'[r] = req[r]
      BY <2>2 DEF Updating
    <2>4. \A r \in Requests : Updating(r) /\ ~Updating(r)' => apart'
      BY <2>1, <2>2 DEF Updating
    <2> QED
      BY <2>1, <2>3, <2>4, Undisturbed
  <1> QED
    BY <1>1, <1>2, <1>3

\* The storage client in use is the one the saved settings describe, unless an update
\* is in progress, has overlapped another or was cut off, for any number of updates.
THEOREM ClientFollowsRows == Spec => []ClientFollows
  <1>1. Init => ClientInv
    <2> SUFFICES ASSUME Init PROVE Alone /\ ReadSoFar /\ ClientFollows
      BY InitTyped DEF ClientInv
    <2>1. \A q \in Requests : ~Updating(q)
      BY DEF Init, Updating, Idle
    <2> QED
      BY <2>1 DEF Init, Alone, ReadSoFar, ClientFollows
  <1>2. ClientInv /\ [Next]_vars => ClientInv'
    <2> SUFFICES ASSUME ClientInv, [Next]_vars PROVE Alone' /\ ReadSoFar' /\ ClientFollows'
      BY NextTyped DEF ClientInv
    <2>1. ASSUME NEW q \in Requests, UpdateStorage(q) PROVE Alone' /\ ReadSoFar' /\ ClientFollows'
      BY <2>1, StartKept, SaveKept, ReadKept, SwapKept DEF UpdateStorage
    <2>2. ASSUME NEW q \in Requests, StartOAuth(q) \/ SaveOAuth(q) \/ SignIn(q) \/ Fail(q)
          PROVE Alone' /\ ReadSoFar' /\ ClientFollows'
      BY <2>2, OtherKept
    <2>3. CASE Restart
      <3>1. saved' = saved /\ client' = EffectiveStorage
        BY <2>3 DEF Restart, tables
      <3>2. \A q \in Requests : ~Updating(q)'
        BY <2>3 DEF Restart, Updating, Idle
      <3> QED
        BY <3>1, <3>2, EffectiveKept DEF Alone, ReadSoFar, ClientFollows
    <2>4. CASE UNCHANGED vars
      BY <2>4, Undisturbed DEF vars, tables, Updating
    <2> QED
      BY <2>1, <2>2, <2>3, <2>4 DEF Next
  <1>3. ClientInv => ClientFollows
    BY DEF ClientInv
  <1> QED
    BY <1>1, <1>2, <1>3, PTL DEF Spec

-----------------------------------------------------------------------------
(***************************************************************************)
(* The allowed domain                                                      *)
(***************************************************************************)
\* What the settings were, one after the other, in the course of a sign-in.
WasOn(m) == \E i \in DOMAIN m : m[i].enabled
WasActive(m) == \E i, j \in DOMAIN m : i <= j /\ m[i].enabled /\ m[j].client
WasAllowed(m, d) == \E i, j, k \in DOMAIN m :
    i <= j /\ j <= k /\ m[i].enabled /\ m[j].client /\ m[k].domain = d

\* What a sign-in knows of the settings it has read, at each of its steps.
Asked(r) ==
    /\ r.at = "client" /\ r.enabled => WasOn(r.moments)
    /\ r.at = "domain" /\ r.enabled /\ r.client => WasActive(r.moments)
    /\ r.at \in {"exchange", "find", "name", "create"} => WasAllowed(r.moments, r.domain)
    /\ r.at = "find" => r.domain = None \/ r.domain \in DomainsOf[r.email]
    /\ r.at \in {"name", "create"} => r.domain \in DomainsOf[r.email]

\* The last moment of its history is the settings as they are.
Watched(g, r) == r.moments # <<>> /\ r.moments[Len(r.moments)] = g

SignInsAsked == \A q \in Requests : SigningIn(q) => Asked(req[q]) /\ Watched(google, req[q])
AccountInv == Typed /\ SignInsAsked

\* A history that goes on keeps what it has shown, and its last moment is what was added.
LEMMA Longer ==
    ASSUME NEW m \in Seq(Google), NEW g \in Google
    PROVE /\ WasOn(m) => WasOn(Append(m, g))
          /\ WasActive(m) => WasActive(Append(m, g))
          /\ \A d : WasAllowed(m, d) => WasAllowed(Append(m, g), d)
          /\ Append(m, g) # <<>> /\ Append(m, g)[Len(Append(m, g))] = g
  <1> DEFINE n == Append(m, g)
  <1>1. n # <<>> /\ n[Len(n)] = g
    OBVIOUS
  <1>2. ASSUME NEW i \in DOMAIN m PROVE i \in DOMAIN n /\ n[i] = m[i]
    OBVIOUS
  <1> HIDE DEF n
  <1>3. WasOn(m) => WasOn(n)
    BY <1>2 DEF WasOn
  <1>4. WasActive(m) => WasActive(n)
    BY <1>2 DEF WasActive
  <1>5. ASSUME NEW d, WasAllowed(m, d) PROVE WasAllowed(n, d)
    <2> PICK i \in DOMAIN m, j \in DOMAIN m, k \in DOMAIN m :
            i <= j /\ j <= k /\ m[i].enabled /\ m[j].client /\ m[k].domain = d
      BY <1>5 DEF WasAllowed
    <2>1. i \in DOMAIN n /\ j \in DOMAIN n /\ k \in DOMAIN n /\ n[i] = m[i] /\ n[j] = m[j] /\ n[k] = m[k]
      BY <1>2
    <2> QED
      BY <2>1 DEF WasAllowed
  <1> QED
    BY <1>1, <1>3, <1>4, <1>5 DEF n

\* A step that leaves Google's settings alone, and changes no sign-in but q's.
LEMMA AskedAfter ==
    ASSUME AccountInv, NEW q \in Requests, google' = google,
           NEW r, req' = [req EXCEPT ![q] = r],
           r.op = "sign_in" => Asked(r) /\ Watched(google, r)
    PROVE SignInsAsked'
  <1>1. ASSUME NEW x \in Requests, SigningIn(x)' PROVE Asked(req'[x]) /\ Watched(google', req'[x])
    <2>1. CASE x = q
      BY <1>1, <2>1 DEF AccountInv, Typed, TypeOK, SigningIn
    <2>2. CASE x # q
      BY <1>1, <2>2 DEF AccountInv, Typed, TypeOK, SigningIn, SignInsAsked
    <2> QED
      BY <2>1, <2>2
  <1>2. ASSUME NEW x \in Requests, SigningIn(x)' PROVE Asked(req[x])' /\ Watched(google, req[x])'
    BY <1>1, <1>2 DEF Asked, Watched
  <1> QED
    BY <1>2 DEF SignInsAsked

LEMMA ToldAsked ==
    ASSUME NEW g \in Google, NEW r \in SignInRequest, Asked(r)
    PROVE Asked(Told(r, g)) /\ Watched(g, Told(r, g))
  <1> DEFINE w == Told(r, g)
  <1>1. /\ w.at = r.at /\ w.email = r.email /\ w.domain = r.domain
        /\ w.enabled = r.enabled /\ w.client = r.client /\ w.moments = Append(r.moments, g)
    BY ToldTyped
  <1>2. /\ WasOn(r.moments) => WasOn(w.moments)
        /\ WasActive(r.moments) => WasActive(w.moments)
        /\ WasAllowed(r.moments, r.domain) => WasAllowed(w.moments, r.domain)
        /\ w.moments # <<>> /\ w.moments[Len(w.moments)] = g
    <2>1. r.moments \in Seq(Google)
      BY DEF SignInRequest
    <2>2. /\ WasOn(r.moments) => WasOn(Append(r.moments, g))
          /\ WasActive(r.moments) => WasActive(Append(r.moments, g))
          /\ WasAllowed(r.moments, r.domain) => WasAllowed(Append(r.moments, g), r.domain)
          /\ Append(r.moments, g) # <<>>
          /\ Append(r.moments, g)[Len(Append(r.moments, g))] = g
      BY <2>1, Longer, Zenon
    <2>3. w.moments = Append(r.moments, g)
      BY <1>1
    <2> HIDE DEF w
    <2> QED
      BY <2>2, <2>3, Zenon
  <1> HIDE DEF w
  <1>3. Watched(g, w)
    BY <1>2 DEF Watched
  <1>4. Asked(w)
    BY <1>1, <1>2 DEF Asked
  <1> QED
    BY <1>3, <1>4 DEF w

LEMMA SignInAsked ==
    ASSUME AccountInv, NEW q \in Requests, SignIn(q) PROVE SignInsAsked'
  <1>1. CASE StartSignIn(q)
    <2> DEFINE r == [op |-> "sign_in", at |-> "enabled", enabled |-> FALSE, client |-> FALSE,
                     domain |-> None, email |-> None, name |-> 0, moments |-> <<google>>]
    <2>1. req' = [req EXCEPT ![q] = r] /\ google' = google
      BY <1>1 DEF StartSignIn, tables
    <2>2. Asked(r) /\ Watched(google, r)
      BY DEF Asked, Watched
    <2> HIDE DEF r
    <2> QED
      BY <2>1, <2>2, AskedAfter
  <1>2. SUFFICES ASSUME ~StartSignIn(q), req[q] \in SignInRequest, req[q].op = "sign_in"
        PROVE SignInsAsked'
    BY <1>1, Shapes DEF SignIn, LoadEnabled, LoadClient, LoadDomain, Exchange, FindUser, UniqueName, CreateUser,
        Is, SigningIn, AccountInv, Typed
  <1>3. Asked(req[q]) /\ Watched(google, req[q]) /\ google \in Google
    BY <1>2 DEF AccountInv, Typed, TypeOK, SignInsAsked, SigningIn
  <1>4. google' = google
    BY <1>2 DEF SignIn, LoadEnabled, LoadClient, LoadDomain, Exchange, FindUser, UniqueName, CreateUser, tables
  <1>5. ASSUME Return(q) PROVE SignInsAsked'
    BY <1>4, <1>5, AskedAfter DEF Return, Idle
  <1>51. req[q].moments \in Seq(Google) /\ Len(req[q].moments) \in DOMAIN req[q].moments
         /\ \A i \in DOMAIN req[q].moments : i <= Len(req[q].moments)
         /\ req[q].moments[Len(req[q].moments)] = google
    <2>1. req[q].moments \in Seq(Google) /\ req[q].moments # <<>>
      BY <1>2, <1>3 DEF SignInRequest, Watched
    <2>2. req[q].moments[Len(req[q].moments)] = google
      BY <1>3 DEF Watched
    <2> QED
      BY <2>1, <2>2
  <1>6. CASE LoadEnabled(q)
    <2> DEFINE r == [req[q] EXCEPT !.at = "client", !.enabled = google.enabled]
    <2>1. req' = [req EXCEPT ![q] = r]
      BY <1>6 DEF LoadEnabled
    <2>2. r.at = "client" /\ r.enabled = google.enabled /\ r.moments = req[q].moments
      BY <1>2 DEF SignInRequest
    <2> HIDE DEF r
    <2>3. Watched(google, r)
      BY <1>3, <2>2 DEF Watched
    <2>4. r.enabled => WasOn(r.moments)
      BY <1>51, <2>2 DEF WasOn
    <2>5. Asked(r)
      BY <2>2, <2>4 DEF Asked
    <2> QED
      BY <1>4, <2>1, <2>3, <2>5, AskedAfter
  <1>61. CASE LoadClient(q)
    <2> DEFINE r == [req[q] EXCEPT !.at = "domain", !.client = google.client]
    <2>1. req' = [req EXCEPT ![q] = r] /\ req[q].at = "client"
      BY <1>61 DEF LoadClient, Is
    <2>2. /\ r.at = "domain" /\ r.enabled = req[q].enabled /\ r.client = google.client
          /\ r.moments = req[q].moments
      BY <1>2 DEF SignInRequest
    <2> HIDE DEF r
    <2>3. Watched(google, r)
      BY <1>3, <2>2 DEF Watched
    <2>4. r.enabled /\ r.client => WasActive(r.moments)
      <3> SUFFICES ASSUME r.enabled, r.client PROVE WasActive(req[q].moments)
        BY <2>2
      <3>1. WasOn(req[q].moments)
        BY <1>3, <2>1, <2>2 DEF Asked
      <3> QED
        BY <1>51, <2>2, <3>1 DEF WasOn, WasActive
    <2>5. Asked(r)
      BY <2>2, <2>4 DEF Asked
    <2> QED
      BY <1>4, <2>1, <2>3, <2>5, AskedAfter
  <1>7. CASE LoadDomain(q)
    <2>1. CASE IsActive(q)
      <3> DEFINE r == [req[q] EXCEPT !.at = "exchange", !.domain = google.domain]
      <3>1. req' = [req EXCEPT ![q] = r] /\ req[q].at = "domain"
        BY <1>7, <2>1 DEF LoadDomain, Is
      <3>2. r.at = "exchange" /\ r.domain = google.domain /\ r.moments = req[q].moments
        BY <1>2 DEF SignInRequest
      <3> HIDE DEF r
      <3>3. Watched(google, r)
        BY <1>3, <3>2 DEF Watched
      <3>4. WasAllowed(r.moments, r.domain)
        <4>1. WasActive(req[q].moments)
          BY <1>3, <2>1, <3>1 DEF Asked, IsActive
        <4> QED
          BY <1>51, <3>2, <4>1 DEF WasActive, WasAllowed
      <3>5. Asked(r)
        BY <3>2, <3>4 DEF Asked
      <3> QED
        BY <1>4, <3>1, <3>3, <3>5, AskedAfter
    <2>2. CASE ~IsActive(q)
      BY <1>5, <1>7, <2>2 DEF LoadDomain
    <2> QED
      BY <2>1, <2>2
  <1>8. ASSUME NEW e \in Emails, Exchange(q, e) PROVE SignInsAsked'
    <2>1. CASE DomainAccepted(q, e)
      <3> DEFINE r == [req[q] EXCEPT !.at = "find", !.email = e]
      <3>1. req' = [req EXCEPT ![q] = r]
        BY <1>8, <2>1 DEF Exchange
      <3>2. Asked(r) /\ Watched(google, r)
        BY <1>2, <1>3, <1>8, <2>1 DEF SignInRequest, Asked, Watched, Exchange, Is, DomainAccepted
      <3> HIDE DEF r
      <3> QED
        BY <1>4, <3>1, <3>2, AskedAfter
    <2>2. CASE ~DomainAccepted(q, e)
      BY <1>5, <1>8, <2>2 DEF Exchange
    <2> QED
      BY <2>1, <2>2
  <1>9. CASE FindUser(q)
    <2>1. CASE Known(req[q].email) \/ req[q].domain = None
      BY <1>5, <1>9, <2>1 DEF FindUser
    <2>2. CASE ~(Known(req[q].email) \/ req[q].domain = None)
      <3> DEFINE r == [req[q] EXCEPT !.at = "name"]
      <3>1. req' = [req EXCEPT ![q] = r]
        BY <1>9, <2>2 DEF FindUser
      <3>2. Asked(r) /\ Watched(google, r)
        BY <1>2, <1>3, <1>9, <2>2 DEF SignInRequest, Asked, Watched, FindUser, Is
      <3> HIDE DEF r
      <3> QED
        BY <1>4, <3>1, <3>2, AskedAfter
    <2> QED
      BY <2>1, <2>2
  <1>10. CASE UniqueName(q)
    <2> DEFINE r == IF Taken(req[q].name) THEN [req[q] EXCEPT !.name = req[q].name + 1]
                    ELSE [req[q] EXCEPT !.at = "create"]
    <2>1. req' = [req EXCEPT ![q] = r]
      BY <1>10 DEF UniqueName
    <2>2. Asked(r) /\ Watched(google, r)
      BY <1>2, <1>3, <1>10 DEF SignInRequest, Asked, Watched, UniqueName, Is
    <2> HIDE DEF r
    <2> QED
      BY <1>4, <2>1, <2>2, AskedAfter
  <1>11. CASE CreateUser(q)
    BY <1>5, <1>11 DEF CreateUser
  <1> QED
    BY <1>2, <1>6, <1>61, <1>7, <1>8, <1>9, <1>10, <1>11 DEF SignIn

\* The settings change: every sign-in in progress is told.
LEMMA SaveOAuthAsked ==
    ASSUME AccountInv, NEW q \in Requests, SaveOAuth(q) PROVE SignInsAsked'
  <1>1. google' \in Google
    BY OAuthTyped DEF AccountInv, Typed, TypeOK
  <1>2. req' = [x \in Requests |->
            IF x = q THEN CASE req[q].at = "enabled" -> [req[q] EXCEPT !.at = "client"]
                            [] req[q].at = "client" -> [req[q] EXCEPT !.at = "domain"]
                            [] OTHER -> Idle
            ELSE IF SigningIn(x) THEN Told(req[x], google') ELSE req[x]]
    BY DEF SaveOAuth, Told
  <1>3. req[q] \in OAuthUpdate
    BY Shapes DEF SaveOAuth, AccountInv, Typed
  <1>4. ASSUME NEW x \in Requests, SigningIn(x)' PROVE Asked(req'[x]) /\ Watched(google', req'[x])
    <2>1. x # q
      BY <1>2, <1>3, <1>4 DEF SigningIn, OAuthUpdate, Idle
    <2>2. SigningIn(x)
      BY <1>2, <1>4, <2>1 DEF SigningIn
    <2>3. req[x] \in SignInRequest /\ Asked(req[x])
      BY <2>2, Shapes DEF AccountInv, Typed, SignInsAsked
    <2> QED
      BY <1>1, <1>2, <2>1, <2>2, <2>3, ToldAsked
  <1>5. ASSUME NEW x \in Requests, SigningIn(x)' PROVE Asked(req[x])' /\ Watched(google, req[x])'
    BY <1>4, <1>5 DEF Asked, Watched
  <1> QED
    BY <1>5 DEF SignInsAsked

\* The other steps change no sign-in, or end it.
LEMMA OtherAsked ==
    ASSUME AccountInv, google' = google,
           \A x \in Requests : SigningIn(x)' => SigningIn(x) /\ req'[x] = req[x]
    PROVE SignInsAsked'
  <1>1. ASSUME NEW x \in Requests, SigningIn(x)' PROVE Asked(req[x])' /\ Watched(google, req[x])'
    BY <1>1 DEF AccountInv, SignInsAsked, Asked, Watched
  <1> QED
    BY <1>1 DEF SignInsAsked

LEMMA StorageAsked ==
    ASSUME AccountInv, NEW q \in Requests, UpdateStorage(q) PROVE SignInsAsked'
  <1>1. google' = google
    BY DEF UpdateStorage, StartStorage, SaveSetting, ReadBack, SetStorage, tables
  <1>2. CASE StartStorage(q)
    <2> PICK given \in Change(Keys, Values) :
        req' = [r \in Requests |->
            IF r = q THEN [op |-> "storage", at |-> "save", given |-> given, next |-> 1,
                           read |-> [k \in Keys |-> Base], alone |-> ~\E x \in Requests : Updating(x)]
            ELSE IF Updating(r) THEN [req[r] EXCEPT !.alone = FALSE] ELSE req[r]]
      BY <1>2 DEF StartStorage
    <2>1. ASSUME NEW x \in Requests, SigningIn(x)' PROVE SigningIn(x) /\ req'[x] = req[x]
      <3>1. x # q
        BY <2>1 DEF SigningIn
      <3>2. ~Updating(x)
        BY <2>1, <3>1, Shapes DEF SigningIn, AccountInv, Typed, StorageUpdate
      <3> QED
        BY <2>1, <3>1, <3>2 DEF SigningIn
    <2> QED
      BY <1>1, <2>1, OtherAsked
  <1>3. CASE SaveSetting(q) \/ ReadBack(q) \/ SetStorage(q)
    <2>1. req[q] \in StorageUpdate
      BY <1>3, Shapes DEF SaveSetting, ReadBack, SetStorage, Is, Updating, AccountInv, Typed
    <2>2. PICK r : req' = [req EXCEPT ![q] = r] /\ r.op # "sign_in"
      <3>1. CASE SaveSetting(q)
        <4> DEFINE n == req[q].next
                   new == IF n < Len(StorageKeys) THEN [req[q] EXCEPT !.next = n + 1]
                          ELSE [req[q] EXCEPT !.next = 1, !.at = "read"]
        <4>1. req' = [req EXCEPT ![q] = new]
          BY <3>1 DEF SaveSetting, Passed
        <4>2. new.op # "sign_in"
          BY <2>1 DEF StorageUpdate
        <4> HIDE DEF new
        <4> QED
          BY <4>1, <4>2, Zenon
      <3>2. CASE ReadBack(q)
        <4> DEFINE n == req[q].next
                   k == StorageKeys[n]
                   last == n = Len(StorageKeys)
                   new == [req[q] EXCEPT !.read[k] = ReadSetting(q, k),
                               !.next = IF last THEN 1 ELSE @ + 1, !.at = IF last THEN "swap" ELSE @]
        <4>1. req' = [req EXCEPT ![q] = new]
          BY <3>2 DEF ReadBack
        <4>2. new.op # "sign_in"
          BY <2>1 DEF StorageUpdate
        <4> HIDE DEF new
        <4> QED
          BY <4>1, <4>2, Zenon
      <3>3. CASE SetStorage(q)
        <4>1. req' = [req EXCEPT ![q] = Idle] /\ Idle.op # "sign_in"
          BY <3>3 DEF SetStorage, Return, Idle
        <4> QED
          BY <4>1, Zenon
      <3> QED
        BY <1>3, <3>1, <3>2, <3>3
    <2>3. req'[q].op # "sign_in" /\ \A x \in Requests : x # q => req'[x] = req[x]
      BY <2>2 DEF AccountInv, Typed, TypeOK
    <2> QED
      BY <1>1, <2>3, OtherAsked DEF SigningIn
  <1> QED
    BY <1>2, <1>3 DEF UpdateStorage

\* An account is made only for someone whose domain the settings allowed: in the course
\* of the sign-in it was switched on, then or later had a client, and then or later the
\* domain was allowed (google_callback_inner).  All three held at once when no update
\* ran meanwhile; an update saved between the reads may leave no such moment.
THEOREM AccountsAllowedOnly == Spec => []AccountsAllowed
  <1>1. Init => AccountInv
    BY InitTyped DEF AccountInv, SignInsAsked, Init, SigningIn, Idle
  <1>2. AccountInv /\ [Next]_vars => AccountInv'
    <2> SUFFICES ASSUME AccountInv, [Next]_vars PROVE SignInsAsked'
      BY NextTyped DEF AccountInv
    <2>1. ASSUME NEW q \in Requests, StartOAuth(q) PROVE SignInsAsked'
      <3>1. google' = google /\ \A x \in Requests : x # q => req'[x] = req[x]
        BY <2>1 DEF StartOAuth, tables, AccountInv, Typed, TypeOK
      <3>2. ~SigningIn(q)'
        BY <2>1 DEF StartOAuth, SigningIn, AccountInv, Typed, TypeOK
      <3> QED
        BY <3>1, <3>2, OtherAsked DEF SigningIn
    <2>2. ASSUME NEW q \in Requests, Fail(q) PROVE SignInsAsked'
      <3>1. google' = google /\ \A x \in Requests : x # q => req'[x] = req[x]
        BY <2>2 DEF Fail, Return, tables, AccountInv, Typed, TypeOK
      <3>2. ~SigningIn(q)'
        BY <2>2 DEF Fail, Return, Idle, SigningIn, AccountInv, Typed, TypeOK
      <3> QED
        BY <3>1, <3>2, OtherAsked DEF SigningIn
    <2>3. CASE Restart
      BY <2>3 DEF Restart, SignInsAsked, SigningIn, Idle
    <2>4. CASE UNCHANGED vars
      BY <2>4, OtherAsked DEF vars, tables, SigningIn
    <2> QED
      BY <2>1, <2>2, <2>3, <2>4, StorageAsked, SignInAsked, SaveOAuthAsked DEF Next
  <1>3. AccountInv => AccountsAllowed
    <2> SUFFICES ASSUME AccountInv, NEW q \in Requests, Is(q, "sign_in", "create")
                 PROVE AllowedInOrder(req[q].moments, req[q].email)
      BY DEF AccountsAllowed
    <2>1. Asked(req[q])
      BY DEF Is, AccountInv, SignInsAsked, SigningIn
    <2>2. WasAllowed(req[q].moments, req[q].domain) /\ req[q].domain \in DomainsOf[req[q].email]
      BY <2>1 DEF Is, Asked
    <2> QED
      BY <2>2 DEF WasAllowed, AllowedInOrder
  <1> QED
    BY <1>1, <1>2, <1>3, PTL DEF Spec
=============================================================================
