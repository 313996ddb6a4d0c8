------------------------------- MODULE Signature -------------------------------
(***************************************************************************)
(* HTTP signatures (internal/httpsig): what is signed, and in which order  *)
(* a signed request is checked.  A request is a record of its headers, its *)
(* body, the path it is for and the signature: the key that made it, the   *)
(* headers it covers and what they said.  A digest is named for the body   *)
(* it is of, a public key for its private one; times are minutes.          *)
(***************************************************************************)
EXTENDS Integers

CONSTANTS
  MaxSkew,   \* maxClockSkew
  Nothing    \* no value

ASSUME SignatureAssumption == MaxSkew \in Nat

\* What POSTs and GETs sign.
HeaderOrder    == {"target", "host", "date", "digest", "type"}
GETHeaderOrder == {"target", "host", "date", "accept"}

\* An unsigned request: the signature it does not have covers no header, and is refused as
\* one that has no headers list.
Unsigned(method, target, host, body) ==
  [method |-> method, target |-> target, host |-> host, body |-> body, date |-> Nothing,
   digest |-> Nothing, type |-> Nothing, accept |-> Nothing,
   sig |-> [key |-> Nothing, names |-> {}, text |-> Nothing]]

\* BuildSigningString: the line of each header named, of which none may be missing;
\* the request target has the method.
Missing(m, names)            == \E h \in names : m[h] = Nothing
BuildSigningString(m, names) == [h \in names |-> IF h = "target" THEN <<m.method, m.target>> ELSE m[h]]

Signed(m, names, key) ==
  [m EXCEPT !.sig = [key |-> key, names |-> names, text |-> BuildSigningString(m, names)]]

\* SignPost and NewSignedPost, at the time now of the signer.
SignPost(m, key, now) ==
  Signed([m EXCEPT !.digest = m.body, !.date = now, !.type = "activity"], HeaderOrder, key)

\* SignGet.
SignGet(m, key, now) == Signed([m EXCEPT !.date = now, !.accept = "activity"], GETHeaderOrder, key)

VerifyDigest(m) == m.digest # Nothing /\ m.digest = m.body

\* verifyDateHeader, at the time now of the receiver.
verifyDateHeader(m, now) == m.date # Nothing /\ now - m.date \in -MaxSkew .. MaxSkew

\* What VerifyRequest and VerifyGet have in common.
Verifies(m, pub, now) ==
  /\ m.sig.names # {} /\ ~Missing(m, m.sig.names)
  /\ m.sig.key = pub /\ m.sig.text = BuildSigningString(m, m.sig.names)
  /\ verifyDateHeader(m, now)

\* Bug variant: the date is not looked at.
VerifyRequestAnyDate(m, pub, now) ==
  VerifyDigest(m) /\ Verifies(m, pub, m.date)

VerifyRequest(m, pub, now) == VerifyDigest(m) /\ Verifies(m, pub, now)

\* A GET must not cover a digest.
VerifyGet(m, pub, now) == Verifies(m, pub, now) /\ "digest" \notin m.sig.names
================================================================================
