---------------------------------- MODULE Wire ----------------------------------
(***************************************************************************)
(* Two servers that both run this code and talk to each other: the search  *)
(* for the inbox of a recipient (Fetch), the signed delivery to it         *)
(* (worker/deliver.go) and its verification there (SharedInbox), and the   *)
(* reading of a collection with signed GETs (Paging).  A behaviour is one  *)
(* of these conversations: plan says which, and what may happen to it.     *)
(*                                                                         *)
(* The servers' clocks differ.  A message may be late, be redirected by    *)
(* the server it goes to, be changed by something in between, or get no    *)
(* answer in the time the client allows; the sender may change its key at  *)
(* any time, its actor document with it, and either server of the sender   *)
(* falls back on the key file if the database does not answer.             *)
(***************************************************************************)
EXTENDS Fetch, Paging

CONSTANTS
  Plans,     \* bound: the conversations
  MaxTime,   \* bound: minutes
  Elsewhere  \* where an inbox redirects to

KeyId   == "main-key"
FileKey == 0   \* the key pair of AP_ACTOR_PRIVATE_KEY_PATH
Signer  == "signer"

ASSUME WireAssumption ==
  /\ Nothing \notin Nat /\ Nothing # "activity"
  /\ \A p \in Plans :
       /\ p.offset \in Int
       /\ p.search = [at |-> p.search.at, ref |-> p.search.ref, depth |-> 0, seen |-> {}]
       /\ p.search.at \in {"none", "check"}
       /\ p.search.ref # Nothing => p.search.ref.canon # Nothing /\ Reference(p.search.ref)
       /\ p.walk = [at |-> p.walk.at, limit |-> p.walk.limit, max |-> Sentinel, since |-> p.walk.since,
                    total |-> p.walk.total]
       /\ p.walk.at \in {"none", "root", "count"} /\ {p.walk.limit, p.walk.since} \subseteq Int

VARIABLES
  plan,      \* the bound of this behaviour
  now,       \* the sender's clock; the receiver's is now + plan.offset
  key,       \* the key pair of the sender's actor row, replaced key - 1 times
  job,       \* the delivery: at and tries
  net,       \* requests that were sent and have not arrived
  found,     \* requests that have arrived, with the key that was found for each
  accepted,  \* requests whose signature was found good (history)
  refused,   \* requests that were answered 401, with what was wrong (history)
  wrong      \* what has happened to the delivery: names of steps (history)

wireVars == <<plan, now, key, job, net, found, accepted, refused, wrong>>
vars     == <<wireVars, fetchVars, pagingVars>>

Init ==
  /\ plan \in Plans
  /\ policy = PolicyFromConfig(plan.config) /\ search = plan.search /\ FetchInit
  /\ walk = plan.walk /\ PagingInit
  /\ now = 0 /\ key = 1
  /\ job = [at |-> "ready", tries |-> 0]
  /\ net = {} /\ found = {} /\ accepted = {} /\ refused = {} /\ wrong = {}

Others == UNCHANGED <<fetchVars, pagingVars>>
May(what) == what \in plan.may

Tick   == now < MaxTime /\ May("time") /\ now' = now + 1 /\ Others
          /\ UNCHANGED <<plan, key, job, net, found, accepted, refused, wrong>>
Rotate == key < 2 /\ May("rotate") /\ key' = key + 1 /\ Others
          /\ UNCHANGED <<plan, now, job, net, found, accepted, refused, wrong>>

(***************************************************************************)
(* The delivery                                                            *)
(***************************************************************************)
\* Bug variant: a delivery is signed once.
DeliverActivitySignedOnce ==
  /\ search.at = "found" /\ job.at = "ready" /\ job.tries < plan.tries
  /\ job' = [at |-> "waiting", tries |-> job.tries + 1]
  /\ net' = net \cup {[try |-> job.tries + 1, sent |-> now,
                       msg |-> SignPost(Unsigned("post", search.ref.canon, search.ref.host, "activity"), 1, 0)]}
  /\ Others /\ UNCHANGED <<plan, now, key, found, accepted, refused, wrong>>

\* What reading the actor's key may give, the private one to sign with and the public one
\* to show: an error of the SELECT is not reported, and the key file's is taken instead.
KeysRead == {key} \cup (IF May("key file") THEN {FileKey} ELSE {})

\* History: the attempt t has met the key k.
Met(t, k) == wrong' = IF k = FileKey THEN wrong \cup {[try |-> t, what |-> "key file"]} ELSE wrong

\* DeliverActivity up to the answer: each attempt reads the key and signs anew.
DeliverActivity ==
  /\ search.at = "found" /\ job.at = "ready" /\ job.tries < plan.tries
  /\ job' = [at |-> "waiting", tries |-> job.tries + 1]
  /\ \E k \in KeysRead :
       /\ net' = net \cup {[try |-> job.tries + 1, sent |-> now,
                            msg |-> SignPost(Unsigned("post", search.ref.canon, search.ref.host, "activity"), k, now)]}
       /\ Met(job.tries + 1, k)
  /\ Others /\ UNCHANGED <<plan, now, key, found, accepted, refused>>

\* net/http follows a 307 or 308 with the same body and the old signature, if policy and
\* dial allow.
Redirect(p) ==
  /\ May("redirect") /\ p.msg.target # Elsewhere.canon
  /\ PreDialCheck(policy, Elsewhere)
  /\ net' = (net \ {p}) \cup {[p EXCEPT !.msg.target = Elsewhere.canon, !.msg.host = Elsewhere.host]}
  /\ wrong' = wrong \cup {[try |-> p.try, what |-> "redirect"]}
  /\ Others /\ UNCHANGED <<plan, now, key, job, found, accepted, refused>>

\* Something in between changes the body.
Garble(p) ==
  /\ May("garble")
  /\ net' = (net \ {p}) \cup {[p EXCEPT !.msg.body = "garbled"]}
  /\ wrong' = wrong \cup {[try |-> p.try, what |-> "garble"]}
  /\ Others /\ UNCHANGED <<plan, now, key, job, found, accepted, refused>>

\* What the worker makes of the answer to an attempt, if it still waits for it.
Answered(p, at) == job' = IF job = [at |-> "waiting", tries |-> p.try] THEN [job EXCEPT !.at = at] ELSE job

\* The client gives up, or follows a 303 and gets an error: the attempt is repeated.
GiveUpWaiting ==
  /\ job.at = "waiting" /\ May("timeout")
  /\ job' = [job EXCEPT !.at = "ready"]
  /\ Others /\ UNCHANGED <<plan, now, key, net, found, accepted, refused, wrong>>

\* A 301, 302 or 303: net/http goes on with a GET without body, whose 200 the worker takes
\* for that of the inbox.
RedirectToGet(p) ==
  /\ May("see other")
  /\ net' = net \ {p}
  /\ wrong' = wrong \cup {[try |-> p.try, what |-> "see other"]}
  /\ Answered(p, "done")
  /\ Others /\ UNCHANGED <<plan, now, key, found, accepted, refused>>

\* 401, which the worker takes for permanent (deliveryPermanent4xx).
Refuse(p, why) ==
  /\ refused' = refused \cup {[try |-> p.try, why |-> why, sent |-> p.sent, at |-> now]}
  /\ Answered(p, "refused")

\* The sender's actor document, that shows the key k.
ActorDocument(k) == [keys |-> IF plan.array THEN <<[id |-> "old-key", pem |-> Nothing], [id |-> KeyId, pem |-> k]>>
                                            ELSE <<[id |-> KeyId, pem |-> k]>>]

\* SharedInbox up to PublicKeyForKeyID, whose GET may fail.
LookUpKey(p) ==
  /\ net' = net \ {p}
  /\ \/ \E k \in KeysRead :
          /\ found' = found \cup {[req |-> p, pub |-> PublicKeyForKeyID(ActorDocument(k), KeyId)]}
          /\ Met(p.try, k)
          /\ UNCHANGED <<job, refused>>
     \/ May("no key") /\ Refuse(p, "no key") /\ UNCHANGED <<found, wrong>>
  /\ Others /\ UNCHANGED <<plan, now, key, accepted>>

\* The activity names the actor whose key it is.
signingActorMatchesKeyID == plan.actor = Signer

\* SharedInbox from VerifyRequest on; that the activity is taken is Intake's.
Verify(f) ==
  LET verified == VerifyRequest(f.req.msg, f.pub, now + plan.offset) IN
  /\ found' = found \ {f}
  /\ IF verified /\ signingActorMatchesKeyID
     THEN /\ accepted' = accepted \cup {[req |-> f.req, at |-> now]}
          /\ Answered(f.req, "done") /\ UNCHANGED refused
     ELSE /\ Refuse(f.req, IF verified THEN "other actor"
                           ELSE IF f.pub # f.req.msg.sig.key THEN "other key"
                           ELSE IF verifyDateHeader(f.req.msg, now + plan.offset) THEN "changed" ELSE "late")
          /\ UNCHANGED accepted
  /\ Others /\ UNCHANGED <<plan, now, key, net, wrong>>

(***************************************************************************)
(* The reading of a collection                                             *)
(***************************************************************************)
\* requireAuthorizedFetch: off, or the GET is signed and verifies with the key the other
\* server shows; PrepareActorGETRequest signs, if that server is told to, for the instance
\* and with the key file.
requireAuthorizedFetch ==
  LET get == Unsigned("get", "collection", "host", Nothing) IN
  plan.authorized => plan.signs /\ VerifyGet(SignGet(get, FileKey, now), FileKey, now + plan.offset)

\* The request is refused, and the reading ends.
Unauthorized ==
  /\ walk.at \in {"root", "count"} /\ ~requireAuthorizedFetch
  /\ walk' = [walk EXCEPT !.at = "unauthorized"]
  /\ UNCHANGED <<wireVars, fetchVars, rows, changes, got, steady>>

Read ==
  /\ \/ requireAuthorizedFetch /\ (GetRoot \/ CountPage)
     \/ ListPage
  /\ UNCHANGED <<wireVars, fetchVars>>

(***************************************************************************)
(* The specification                                                       *)
(***************************************************************************)
Next ==
  \/ FetchNext /\ UNCHANGED <<wireVars, pagingVars>>
  \/ Tick \/ Rotate \/ DeliverActivity \/ GiveUpWaiting
  \/ \E p \in net : Redirect(p) \/ Garble(p) \/ RedirectToGet(p) \/ LookUpKey(p)
  \/ \E f \in found : Verify(f)
  \/ Unauthorized \/ Read
  \/ \E i \in Ids : walk.at \notin {"none", "end", "unauthorized"} /\ Change(i) /\ UNCHANGED <<wireVars, fetchVars>>

Spec == Init /\ [][Next]_vars
---------------------------------------------------------------------------------
(***************************************************************************)
(* Properties                                                              *)
(***************************************************************************)
\* However the documents answer, change and redirect between two requests, none is asked
\* for twice, none is asked for beyond the limit, and the inbox that is found is one a
\* delivery may be sent to.
SearchBounded ==
  /\ \A c \in DOMAIN fetched : fetched[c] <= 1
  /\ Cardinality({c \in DOMAIN fetched : fetched[c] > 0}) <= maxInboxResolutionSteps
  /\ search.at = "found" => search.ref.inbox /\ PreDialCheck(policy, search.ref)

\* "every returned address is checked before connect" (fetch/policy.go:64): whatever
\* names resolve to at each lookup, and wherever a redirect leads, no connection comes to
\* a loopback, private or link-local address, unless it was an unspecified one that was
\* dialled: those are of none of the classes that checkIP refuses.
DialsChecked == policy.relax \/ \A a \in dialled : Reached(a) \in Private => a \in Unspecified

\* What an inbox accepts is what the sender signed, for that inbox, with the key its
\* document showed, in the name of the actor whose key it is, and no more than the skew
\* from its date; a delivery is done only when that has happened, or the inbox redirected
\* it with a 301, 302 or 303.
AcceptedAsSigned ==
  /\ accepted # {} => plan.actor = Signer
  /\ \A a \in accepted :
       /\ a.req.msg.body = "activity" /\ a.req.msg.target = search.ref.canon
       /\ a.at + plan.offset - a.req.sent \in -MaxSkew .. MaxSkew
  /\ job.at = "done" => \/ \E a \in accepted : a.req.try = job.tries
                        \/ [try |-> job.tries, what |-> "see other"] \in wrong

\* A delivery is refused for good, by a 401, only for a reason: the receiver did not get
\* the key, the activity is of another actor, the key was replaced or that very attempt was
\* signed or looked up with the key file's in its place, the body or the address was
\* changed, or the request was not verified within the skew.  No retry is refused for the
\* one before.
RefusedForCause ==
  \A r \in refused :
    CASE r.why = "no key"      -> TRUE
      [] r.why = "other actor" -> plan.actor # Signer
      [] r.why = "other key"   -> key > 1 \/ [try |-> r.try, what |-> "key file"] \in wrong
      [] r.why = "changed"     -> \E w \in wrong : w.try = r.try /\ w.what \in {"redirect", "garble"}
      [] OTHER                 -> r.at + plan.offset - r.sent \notin -MaxSkew .. MaxSkew

\* A reading that came to its end has listed every row that was accepted all the while
\* above since_id, once, and no row twice, whatever came and went in between.
PagesComplete ==
  /\ \A i \in Ids : got[i] <= 1
  /\ walk.at = "end" => \A i \in steady : i > walk.since => got[i] = 1
=================================================================================
