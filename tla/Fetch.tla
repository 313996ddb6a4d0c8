--------------------------------- MODULE Fetch ---------------------------------
(***************************************************************************)
(* Outbound requests of the federation (internal/fetch): the policy that   *)
(* says which URLs and addresses may be asked, the search for the inbox of *)
(* an actor, and the lookup of the key of a signature.                     *)
(*                                                                         *)
(* The other servers and the DNS answer as they please, a different thing  *)
(* each time: Documents, Resolvable.  A URL is a record: how it is spelt   *)
(* (fragment, last slash) apart from what it names, canon.                 *)
(***************************************************************************)
EXTENDS Signature, FiniteSets, FiniteSetsExt

CONSTANTS
  Documents,               \* Documents[c]: the references c may name as its inbox, and failures
  Redirects,               \* Redirects[c]: the URLs c may redirect to
  Resolvable,              \* Resolvable[h]: the sets of addresses h may resolve to
  Addresses,
  Private,                 \* the loopback, private and link-local ones
  Unspecified,             \* 0.0.0.0 and ::, which are none of these
  Local,                   \* the loopback address of the host
  V4,                      \* those of IPv4
  maxInboxResolutionSteps

\* A reference in a document: to an inbox, to what is not asked for over HTTP, or to a
\* document, which is all that a redirect leads to.
Reference(u) == u.inbox \/ u.scheme \notin {"http", "https"} \/ u.canon \in DOMAIN Documents

ASSUME FetchAssumption ==
  /\ maxInboxResolutionSteps \in Nat \ {0}
  /\ DOMAIN Redirects = DOMAIN Documents
  /\ \A c \in DOMAIN Documents :
       /\ \A u \in Documents[c] \ {Nothing} : u.canon # Nothing /\ Reference(u)
       /\ \A u \in Redirects[c] : u.canon \in DOMAIN Documents
  /\ Private \subseteq Addresses /\ V4 \subseteq Addresses
  /\ Unspecified \subseteq Addresses \ Private /\ Local \in Private
  /\ \A h \in DOMAIN Resolvable : Resolvable[h] \subseteq SUBSET Addresses

(***************************************************************************)
(* The policy                                                              *)
(***************************************************************************)
\* PolicyFromConfig: AP_FETCH_RELAX_LOCAL includes AP_FETCH_ALLOW_HTTP.
PolicyFromConfig(c) == [http |-> c.http \/ c.relax, relax |-> c.relax]

\* checkIP: no loopback, private or link-local address.
checkIP(p, a) == p.relax \/ a \notin Private

\* PreDialCheck: the scheme and an address written out; names are not resolved here.
PreDialCheck(p, u) ==
  /\ u.scheme = "https" \/ (u.scheme = "http" /\ p.http)
  /\ u.host # Nothing
  /\ u.host \in Addresses => checkIP(p, u.host)

\* validateAllResolvedIPs: one address that is not allowed spoils them all.
validateAllResolvedIPs(p, ips) == p.relax \/ (ips # {} /\ \A a \in ips : checkIP(p, a))

\* sortIPsPreferIPv4: the addresses that are tried first of those that answer.
sortIPsPreferIPv4(ips) ==
  IF ips \cap V4 # {} THEN ips \cap V4 ELSE ips

\* What the one lookup of a dial may give.
Lookup(u) == IF u.host \in Addresses THEN {{u.host}} ELSE Resolvable[u.host]

\* Bug variant: the addresses are looked up to be checked, and the name is dialled.
dialContextByName(p, u, up) ==
  IF \E ips \in Lookup(u) : validateAllResolvedIPs(p, ips)
  THEN UNION {sortIPsPreferIPv4(ips \cap up) : ips \in Lookup(u)}
  ELSE {}

\* dialContext: the addresses a connection may come to, when those in up answer.  The
\* addresses that were checked are those that are tried.
dialContext(p, u, up) ==
  UNION {IF p.relax THEN ips \cap up ELSE sortIPsPreferIPv4(ips \cap up) :
           ips \in {x \in Lookup(u) : validateAllResolvedIPs(p, x)}}

\* Where a connection to an address comes: the system takes an unspecified one for the
\* host itself.
Reached(a) == IF a \in Unspecified THEN Local ELSE a

(***************************************************************************)
(* The search for an inbox                                                 *)
(***************************************************************************)
VARIABLES
  policy,    \* the policy of the process
  search,    \* the search: at, ref, depth, seen; at "found", ref is the inbox
  fetched,   \* how often each document was asked for, redirects apart (history)
  dialled    \* addresses that were connected to (history)

fetchVars == <<policy, search, fetched, dialled>>

\* A search for the inbox of the actor or inbox ref.
Searching(ref) == [at |-> "check", ref |-> ref, depth |-> 0, seen |-> {}]

FetchInit ==
  /\ fetched = [c \in DOMAIN Documents |-> 0]
  /\ dialled = {}

GiveUp == search' = [search EXCEPT !.at = "failed", !.ref = Nothing] /\ UNCHANGED <<fetched, dialled>>

\* Bug variant: a URL that is spelt differently is another one.
CanonicalAsSpelt(u) == u

\* The fragment and the last slash do not count.
Canonical(u) == u.canon

\* inboxURLFromReference up to the GET: refused, found, or to be asked for.
inboxURLFromReference ==
  LET u == search.ref
      bad == \/ u = Nothing \/ u.scheme \notin {"http", "https"}
             \/ Canonical(u) \in search.seen
             \/ ~PreDialCheck(policy, u)
  IN
  /\ search.at = "check"
  /\ \/ bad /\ GiveUp
     \/ ~bad /\ u.inbox /\ search' = [search EXCEPT !.at = "found"] /\ UNCHANGED <<fetched, dialled>>
     \/ ~bad /\ ~u.inbox /\ search.depth >= maxInboxResolutionSteps /\ GiveUp
     \/ /\ ~bad /\ ~u.inbox /\ search.depth < maxInboxResolutionSteps
        /\ search' = [search EXCEPT !.at = "get", !.depth = @ + 1, !.seen = @ \cup {Canonical(u)}]
        /\ fetched' = [fetched EXCEPT ![u.canon] = @ + 1]
        /\ UNCHANGED dialled
  /\ UNCHANGED policy

\* fetchActorInbox: the connection, whose URL is checked again in RoundTrip, then a
\* document or a redirect of net/http to a URL that is dialled and checked likewise.
fetchActorInbox ==
  /\ search.at = "get"
  /\ \E up \in {{}, Addresses} \cup {{a} : a \in Addresses} :
       LET reached == IF PreDialCheck(policy, search.ref) THEN dialContext(policy, search.ref, up) ELSE {} IN
       \/ reached = {} /\ GiveUp
       \/ \E a \in reached :
            /\ dialled' = dialled \cup {a}
            /\ \/ \E r \in Documents[search.ref.canon] :
                    search' = IF r = Nothing THEN [search EXCEPT !.at = "failed", !.ref = Nothing]
                              ELSE [search EXCEPT !.at = "check", !.ref = r]
               \/ \E r \in Redirects[search.ref.canon] : search' = [search EXCEPT !.ref = r]
            /\ UNCHANGED fetched
  /\ UNCHANGED policy

FetchNext == inboxURLFromReference \/ fetchActorInbox

(***************************************************************************)
(* The key of a signature                                                  *)
(***************************************************************************)
\* PublicKeyForKeyID in an actor document: its publicKey is one object or an array of
\* them; the id must be the keyId to the letter.  The first that matches counts.
PublicKeyForKeyID(doc, keyId) ==
  LET match == {i \in DOMAIN doc.keys : doc.keys[i].id = keyId /\ doc.keys[i].pem # Nothing} IN
  IF match = {} THEN Nothing ELSE doc.keys[Min(match)].pem
================================================================================
