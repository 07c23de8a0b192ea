------------------------------ MODULE Upstream ------------------------------
(***************************************************************************)
(* One conversation with an upstream registry (src/src/proxy.rs) or with a *)
(* provider's API (src/src/providers.rs): probing it, fetching a manifest, *)
(* listing the catalog, the tags of a repository, or the repositories of a *)
(* DigitalOcean registry or a GitHub owner.                                *)
(*                                                                         *)
(* A page is asked for without credentials; a 401 names a realm, which the *)
(* credentials are sent to for a token, and the page is asked for again.   *)
(* Redirects are followed by hand.  A provider's API is asked with its     *)
(* token, which is the upstream's password, and with no challenge.  The    *)
(* upstream answers as it likes: the statuses, redirects, realms and links *)
(* it sends are not constrained.                                           *)
(* The specification is called Conversation.                               *)
(***************************************************************************)
EXTENDS Naturals

CONSTANTS
    Hosts,       \* hosts the upstream can name
    Home,        \* the host of the configured upstream
    Loopback,    \* localhost and loopback addresses
    Allowed,     \* import.trusted_realm_hosts, and the known realm host of this upstream
    Refused,     \* hosts with a link-local or unspecified address
    Pages,       \* bound: pages of a listing
    MaxPages,    \* MAX_PAGES
    MaxRedirects \* MAX_REDIRECTS

ASSUME HostsAssumption == Home \in Hosts
ASSUME PagesAssumption ==
    Pages \in Nat \ {0} /\ MaxPages \in Nat \ {0} /\ MaxRedirects \in Nat

VARIABLES
    op,      \* what is asked for
    creds,   \* whether the upstream has credentials
    last,    \* the last page of the listing
    at,      \* where the call is
    url,     \* the origin of the page that is asked for
    page,    \* its number
    pages,   \* the pages asked for
    out,     \* the pages whose entries were taken
    get,     \* the GET under way
    strayed, \* history: a link did not name the following page
    cut      \* history: a page was answered by 404, or by a body without the list

control == <<at, url, page, pages>>
conversation == <<op, creds, last, control, out, get, strayed, cut>>

Origin == [host : Hosts, tls : BOOLEAN]
Paged == {"catalog", "tags"}
Api == {"digitalocean", "github"}
Single == {"probe", "manifest"}
Results == {"ok", "missing", "error"}
\* The user's password, a registry's token, or a provider's token: the password itself.
Auth == {"none", "basic", "bearer", "api_token"}
Get == [why : {"login", "api", "anon", "token", "retry"}, first : Origin, url : Origin,
        auth : Auth, hops : 0..MaxRedirects]

Top == [host |-> Home, tls |-> TRUE]

\* realm_is_trusted, and no cleartext but to a loopback host.
Trusted(o) == o.host = Home \/ o.host \in Loopback \cup Allowed
Cleartext(o) == ~o.tls /\ o.host \notin Loopback
Guarded(o) == o.host \notin Refused

End(result) == at' = result /\ UNCHANGED <<url, page, pages, get>>
Open(why, o, auth) ==
    /\ get' = [why |-> why, first |-> o, url |-> o, auth |-> auth, hops |-> 0]
    /\ at' = "get" /\ UNCHANGED <<url, page>>

-----------------------------------------------------------------------------
(***************************************************************************)
(* A page is asked for                                                     *)
(***************************************************************************)
\* Mutant: the count starts again for every page.
CountPageAnew == 1
CountPage == pages + 1

\* Mutant: a page too few.
PagesFit(n) == n < MaxPages
PagesLeft(n) == n <= MaxPages

\* list_catalog and list_tags stop at a number of pages, and return what they have.
AskPage ==
    /\ at = "page" /\ op \in Paged
    /\ IF PagesLeft(CountPage)
       THEN Open("anon", url, "none") /\ pages' = CountPage
       ELSE End("ok")
    /\ UNCHANGED <<op, creds, last, out, strayed, cut>>

\* probe and fetch_manifest ask once.
AskOnce ==
    /\ at = "page" /\ op \in Single
    /\ Open("anon", url, "none")
    /\ UNCHANGED <<op, creds, last, pages, out, strayed, cut>>

\* do_repositories and gh_packages count no pages; gh_packages asks for the login first.
\* The password goes wherever the page is (do_get, gh_get), without it nothing is asked.
AskApi ==
    /\ at \in {"login", "page"} /\ op \in Api
    /\ IF creds
       THEN Open(IF at = "login" THEN "login" ELSE "api", url, "api_token") /\ UNCHANGED pages
       ELSE End("error")
    /\ UNCHANGED <<op, creds, last, out, strayed, cut>>

-----------------------------------------------------------------------------
(***************************************************************************)
(* send_get, send_authed and bearer_token                                  *)
(***************************************************************************)
\* Mutant: a redirect to the same host keeps the credentials.
KeptOnHost(o) == IF o.host = get.first.host THEN get.auth ELSE "none"
\* Credentials that were dropped once stay dropped.
Kept(o) == IF o = get.first THEN get.auth ELSE "none"

\* A redirect is followed to an origin that is not refused.  The API's client leaves
\* redirects to its library.
Redirect(o) ==
    /\ at = "get" /\ get.why \in {"anon", "token", "retry"}
    /\ IF get.hops < MaxRedirects /\ Guarded(o)
       THEN /\ get' = [get EXCEPT !.url = o, !.hops = @ + 1, !.auth = Kept(o)]
            /\ UNCHANGED control
       ELSE End("error")
    /\ UNCHANGED <<op, creds, last, out, strayed, cut>>

\* Mutant: a page that fails ends the listing.
FailureEnds == IF op \in Paged THEN "ok" ELSE "error"
Failure == "error"

\* The connection breaks, a redirect goes nowhere, the status is no success and not
\* handled below, the body is too large or no JSON, or the realm issues no token.
Fails ==
    /\ at = "get"
    /\ End(Failure)
    /\ UNCHANGED <<op, creds, last, out, strayed, cut>>

\* 401: credentials go only to a realm that is trusted, and not in the clear.
Challenged(realm) ==
    /\ at = "get" /\ get.why = "anon"
    /\ IF Guarded(realm) /\ (creds => Trusted(realm) /\ ~Cleartext(realm))
       THEN Open("token", realm, IF creds THEN "basic" ELSE "none") /\ UNCHANGED pages
       ELSE End("error")
    /\ UNCHANGED <<op, creds, last, out, strayed, cut>>

TokenGiven ==
    /\ at = "get" /\ get.why = "token"
    /\ Open("retry", url, "bearer")
    /\ UNCHANGED <<op, creds, last, pages, out, strayed, cut>>

\* The upstream has answered the page itself.
Answered == at = "get" /\ get.why \in {"anon", "retry", "api"}

-----------------------------------------------------------------------------
(***************************************************************************)
(* The answer is interpreted                                               *)
(***************************************************************************)
\* 404: there is no manifest; there are no (more) tags.
NotFound ==
    /\ Answered /\ op \in {"manifest", "tags"}
    /\ End(IF op = "manifest" THEN "missing" ELSE "ok")
    /\ cut' = (op = "tags")
    /\ UNCHANGED <<op, creds, last, out, strayed>>

Found ==
    /\ Answered /\ op \in Single
    /\ End("ok")
    /\ UNCHANGED <<op, creds, last, out, strayed, cut>>

LoggedIn ==
    /\ at = "get" /\ get.why = "login"
    /\ at' = "page"
    /\ UNCHANGED <<op, creds, last, url, page, pages, out, get, strayed, cut>>

Following == IF page < last THEN page + 1 ELSE 0

\* The entries of the page are taken, none of them when the body lacks the list, and the
\* link is followed (0: there is none).  The link of a listing may name another host,
\* which is guarded as a redirect is; that of an API may too, and is not.
TakePage(listed, link, o) ==
    /\ Answered /\ op \in Paged \cup Api
    /\ out' = IF listed THEN out \cup {page} ELSE out
    /\ cut' = (cut \/ ~listed)
    /\ strayed' = (strayed \/ link # Following)
    /\ IF link = 0 THEN End("ok")
       ELSE IF op \in Paged /\ ~Guarded(o) THEN End("error")
       ELSE at' = "page" /\ page' = link /\ url' = o /\ UNCHANGED <<pages, get>>
    /\ UNCHANGED <<op, creds, last>>

-----------------------------------------------------------------------------
ConversationInit ==
    /\ op \in Paged \cup Api \cup Single /\ creds \in BOOLEAN /\ last \in 1..Pages
    /\ at = IF op = "github" THEN "login" ELSE "page"
    /\ url = Top /\ page = 1 /\ pages = 0 /\ out = {}
    /\ get = [why |-> "anon", first |-> Top, url |-> Top, auth |-> "none", hops |-> 0]
    /\ strayed = FALSE /\ cut = FALSE

ConversationNext ==
    \/ AskPage \/ AskOnce \/ AskApi
    \/ \E o \in Origin : Redirect(o) \/ Challenged(o)
    \/ Fails \/ TokenGiven \/ NotFound \/ Found \/ LoggedIn
    \/ \E listed \in BOOLEAN, link \in 0..Pages, o \in Origin : TakePage(listed, link, o)

Conversation == ConversationInit /\ [][ConversationNext]_conversation

\* Requests are answered or break.
FairConversation == Conversation /\ WF_conversation(ConversationNext)

-----------------------------------------------------------------------------
(***************************************************************************)
(* Properties                                                              *)
(***************************************************************************)
ConversationTypeOK ==
    /\ op \in Paged \cup Api \cup Single /\ creds \in BOOLEAN /\ last \in 1..Pages
    /\ at \in {"login", "page", "get"} \cup Results
    /\ url \in Origin /\ page \in 1..Pages /\ pages \in 0..MaxPages
    /\ out \subseteq 1..Pages /\ get \in Get
    /\ strayed \in BOOLEAN /\ cut \in BOOLEAN

\* Whatever redirects, realms and links the upstream sends.  To a registry: the password
\* reaches only a realm on a trusted host, in the clear only a loopback one
\* (bearer_token, "stops a hostile upstream from naming an attacker realm"), and the
\* token only the origin of the page it was asked for (send_get, "drops auth on any
\* scheme downgrade"), which a link may have named.  To a provider's API, the exception:
\* its token, which is the password, goes to the API for the login and the first page,
\* and after that to whatever origin the next link names, also in the clear: nothing
\* checks it (providers.rs do_repositories, gh_packages).
CredentialsHome == at = "get" =>
    /\ get.auth = "basic" => Trusted(get.url) /\ ~Cleartext(get.url)
    /\ get.auth = "bearer" => op \notin Api /\ get.url = url
    /\ get.auth = "api_token" => op \in Api /\ (get.url = Top \/ out # {} \/ cut)

\* A listing that is returned is the whole of the upstream's, unless it has more pages
\* than are read, a page of tags was answered by 404, a page had a body without the list,
\* which is taken for an empty page, or a link named another page.
ListingWhole ==
    at = "ok" /\ op \in Paged \cup Api =>
        out = 1..last \/ cut \/ strayed \/ (op \in Paged /\ last > MaxPages)

\* Every conversation ends, however the links go round, but that of a provider's API,
\* which is trusted to end (MAX_PAGES, "so an upstream that always returns a `next`
\* link can't loop forever").
ConversationEnds == <>(at \in Results \/ (op \in Api /\ strayed))
=============================================================================
