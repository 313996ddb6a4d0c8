------------------------------- MODULE MCClient -------------------------------
(***************************************************************************)
(* Instances of Client for TLC.  Users a and b have the tokens ta and tb;  *)
(* f follows a at the start; g is any remote actor and the author of the   *)
(* status s.  The application ap is registered, aq registers itself.       *)
(***************************************************************************)
EXTENDS Client, TLC

CONSTANTS a, b, f, g, s, ta, tb, tc, td, te, ap, aq, ua, ub, v1, v2

Register(uris) == [op |-> "register", client |-> aq, redirects |-> uris, scopes |-> {}]
Form(client)   == [op |-> "form", client |-> client, redirect |-> ua]

Auth(client, uri, pw, user, ch, sc) ==
  [op |-> "authorize", client |-> client, redirect |-> uri, password |-> pw, user |-> user,
   challenge |-> ch, scopes |-> sc]

Exchange(code, client, uri, v, t, sec) ==
  [op |-> "exchange", code |-> code, client |-> client, redirect |-> uri, verifier |-> v,
   token |-> t, secret |-> sec]

Credentials(uri, sc, sec, t) ==
  [op |-> "credentials", client |-> ap, redirect |-> uri, scopes |-> sc, secret |-> sec, token |-> t]

Upload(t, body, ty, ext, mp, async) ==
  [op |-> "upload", token |-> t, body |-> body, type |-> ty, ext |-> ext, multipart |-> mp, async |-> async]

Post(t, text, m, vis, direct, of) ==
  [op |-> "post", token |-> t, text |-> text, media |-> m, visibility |-> vis, direct |-> direct, of |-> of]

Filters(op, t, of, phrase, contexts, expires) ==
  [op |-> op, token |-> t, of |-> of, phrase |-> phrase, hides |-> {"p1"}, contexts |-> contexts, expires |-> expires]

Member(op, t, account) == [op |-> op, token |-> t, of |-> "li", account |-> account]

On(op, t, of) == [op |-> op, token |-> t, of |-> of]

Requested == [
  \* OAuth
  r0 |-> Register({}), r1 |-> Register({ua}), f1 |-> Form(ap), f2 |-> Form(aq), rv |-> [op |-> "revoke"],
  z1 |-> Auth(ap, ua, "right", a, v1, {}), z2 |-> Auth(ap, ub, "right", a, Nothing, {"write"}),
  z3 |-> Auth(aq, ua, "right", b, Nothing, {}), z4 |-> Auth(ap, ua, "wrong", b, Nothing, {}),
  e1 |-> Exchange("z1", ap, ua, v1, tc, "right"), e2 |-> Exchange("z1", ap, ua, v1, td, "right"),
  e3 |-> Exchange("z1", ap, ua, v2, te, "right"), e4 |-> Exchange("z1", aq, ua, v1, td, "right"),
  e5 |-> Exchange("z3", aq, ua, Nothing, td, "right"), e6 |-> Exchange("z1", ap, ua, v1, tc, "wrong"),
  e7 |-> Exchange("z2", ap, ub, v1, td, "right"), e8 |-> Exchange("z1", ap, ub, v1, td, "right"),
  g1 |-> Credentials(ua, {}, "right", te), g2 |-> Credentials(ua, {"admin"}, "right", te),
  g3 |-> Credentials(ua, {}, "wrong", tc),
  \* Media
  u1 |-> Upload(ta, "good", "octet-stream", "image", TRUE, FALSE),
  u2 |-> Upload(ta, "good", "image", "", FALSE, TRUE), u3 |-> Upload(tc, "good", "image", "", TRUE, FALSE),
  n1 |-> Upload(ta, "malformed", "image", "", TRUE, FALSE), n2 |-> Upload(ta, "empty", "image", "", FALSE, TRUE),
  n3 |-> Upload(ta, "large", "image", "", TRUE, FALSE), n4 |-> Upload(ta, "large", "image", "", FALSE, FALSE),
  n5 |-> Upload(ta, "good", "pdf", "image", TRUE, FALSE),
  d1 |-> On("describe", ta, "u1"), d2 |-> On("describe", tb, "u1"), y2 |-> On("poll", ta, "u2"),
  \* Statuses
  p1 |-> Post(ta, TRUE, {}, "public", {}, Nothing), p2 |-> Post(ta, FALSE, {"u1"}, "unlisted", {}, Nothing),
  p3 |-> Post(ta, FALSE, {"u1", "u2"}, "private", {}, Nothing), p4 |-> Post(tb, TRUE, {"u1"}, "public", {}, Nothing),
  p5 |-> Post(ta, TRUE, {}, "direct", {g, b}, Nothing), p6 |-> Post(tc, TRUE, {"u3"}, "public", {}, Nothing),
  p7 |-> Post(td, TRUE, {}, "public", {}, Nothing), p8 |-> Post(te, TRUE, {}, "public", {}, Nothing),
  pa |-> Post(tc, TRUE, {}, "public", {}, Nothing), p9 |-> Post(tb, TRUE, {}, "public", {}, "p1"),
  q1 |-> Post(ta, FALSE, {}, "public", {}, Nothing), q2 |-> Post(ta, TRUE, {"u1", "u2", "u3"}, "public", {}, Nothing),
  q3 |-> Post(ta, TRUE, {}, "secret", {}, Nothing), q4 |-> Post(ta, TRUE, {}, "direct", {Nothing}, Nothing),
  x1 |-> On("delete", ta, "p1"), x2 |-> On("delete", ta, "p1"), x3 |-> On("delete", tb, "p1"),
  x5 |-> On("delete", ta, "p5"),
  l1 |-> On("favourite", ta, s), l2 |-> On("favourite", ta, s), l3 |-> On("favourite", ta, s),
  m1 |-> On("unfavourite", ta, s), m2 |-> On("unfavourite", ta, s),
  b1 |-> On("reblog", ta, s), c1 |-> On("unreblog", ta, s), b2 |-> On("reblog", tb, "p1"),
  l4 |-> On("favourite", tb, "p1"), m4 |-> On("unfavourite", tb, "p1"),
  k1 |-> On("bookmark", tb, "p1"), k2 |-> On("unbookmark", tb, "p1"), s1 |-> On("show", tb, "p1"),
  \* Timelines
  p0 |-> Post(tb, TRUE, {}, "public", {}, Nothing),
  li |-> On("list", ta, Nothing), ln |-> On("rename list", tb, "li"), lx |-> On("delete list", ta, "li"),
  la |-> Member("add", ta, b), lb |-> Member("add", tb, b), lr |-> Member("remove", ta, b),
  lt |-> On("list timeline", ta, "li"),
  fi |-> Filters("filter", ta, Nothing, TRUE, {}, TRUE), fe |-> Filters("filter", ta, Nothing, FALSE, {}, FALSE),
  fp |-> Filters("put filter", ta, "fi", TRUE, {"home"}, FALSE), fd |-> On("delete filter", ta, "fi"),
  h1 |-> On("home", ta, Nothing), w1 |-> [op |-> "public"], w2 |-> [op |-> "account", account |-> a],
  cv |-> On("conversations", tb, Nothing), cw |-> On("conversations", ta, Nothing),
  fo |-> [op |-> "follow", actor |-> g, of |-> a], fu |-> [op |-> "unfollow", actor |-> f, of |-> a],
  bk |-> On("bookmarks", tb, Nothing), fv |-> On("favourites", ta, Nothing)]

\* Through a definition of its own, which TLC evaluates once.
MCReq == Requested

Reqs(R, n) == [reqs |-> R, faults |-> n]

MCBounds == {
  Reqs({"r0", "f1", "f2", "r1", "rv"}, 1), Reqs({"z1", "e1", "e2", "e3", "pa"}, 1), Reqs({"r1", "z1", "e1", "e4", "p7"}, 1),
  Reqs({"r1", "z3", "e5", "p7"}, 2), Reqs({"z1", "e6", "e8", "z4"}, 1), Reqs({"z2", "e7", "g1"}, 2),
  Reqs({"g1", "p8"}, 1), Reqs({"g2", "g3", "e7"}, 1), Reqs({"z1", "e1", "e2", "u3", "p6"}, 0),
  Reqs({"u1", "p2", "d1", "d2"}, 2), Reqs({"u1", "p4"}, 1), Reqs({"u1", "u2", "p3"}, 1), Reqs({"u2", "y2"}, 2),
  Reqs({"n1", "n2", "n3", "p4", "d2"}, 0), Reqs({"n4", "n5", "x3", "l4"}, 0),
  Reqs({"p1", "x1", "x2", "x3"}, 2), Reqs({"p1", "x1", "p9", "l4"}, 1), Reqs({"p1", "x1", "fo", "fu"}, 1),
  Reqs({"p5", "x5"}, 1),
  Reqs({"p1", "x1", "b2", "s1"}, 1), Reqs({"q1", "q2"}, 0), Reqs({"q3", "q4", "la", "fd"}, 0),
  Reqs({"l1", "l2", "m1", "m2"}, 1), Reqs({"l1", "l2", "l3", "m1"}, 1), Reqs({"b1", "c1", "l1", "m1"}, 1),
  Reqs({"p1", "k1", "k2", "x1"}, 1), Reqs({"p1", "l4", "m4", "x1"}, 1),
  Reqs({"li", "la", "p0", "lt", "lr"}, 1), Reqs({"li", "lb", "p0", "lt"}, 1),
  Reqs({"li", "la", "p0", "lx", "lt"}, 0), Reqs({"li", "la", "lr", "lx", "ln"}, 1),
  Reqs({"fi", "fp", "p1", "h1"}, 1), Reqs({"fi", "fd", "fe", "p1", "h1"}, 1), Reqs({"p1", "x1", "h1", "w1", "w2"}, 0),
  Reqs({"p5", "x5", "cv", "cw"}, 1), Reqs({"p1", "k1", "x1", "bk"}, 1), Reqs({"l1", "l2", "m1", "fv"}, 1)}

Token(t, client, user) ==
  [token |-> t, client |-> client, user |-> user, scopes |-> {"read", "write"}, grant |-> Nothing]

MCIssued     == {Token(ta, ap, a), Token(tb, ap, b)}
MCRegistered == {[client |-> ap, redirects |-> {ua, ub}, scopes |-> {"read", "write"}]}
MCBy         == s :> g
MCFollowers  == a :> {f} @@ b :> {}
==============================================================================
