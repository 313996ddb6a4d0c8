--------------------------------- MODULE MCWire ---------------------------------
(***************************************************************************)
(* Instances of Wire for TLC.  Actors c1 to c5 may name each other, or c1  *)
(* by another spelling, as their inbox; the host "moving" has addresses of *)
(* all kinds.                                                              *)
(***************************************************************************)
EXTENDS Wire, TLC

CONSTANTS pub4, pub6, priv4, any4

MCResolvable ==
  "fixed" :> {{pub4}} @@ "moving" :> {{}, {pub6}, {pub4, pub6}, {priv4}, {pub4, priv4}, {any4}}

Url(scheme, host, canon, inbox, spelt) ==
  [scheme |-> scheme, host |-> host, canon |-> canon, inbox |-> inbox, spelt |-> spelt]

Actor(c)  == Url("https", "fixed", c, FALSE, "plain")
Inbox     == Url("https", "moving", "inbox", TRUE, "plain")
Literal   == Url("http", pub6, "c5", FALSE, "plain")
Loopback  == Url("http", priv4, "c5", FALSE, "plain")
Moving    == Url("https", "moving", "c4", FALSE, "plain")
Respelt   == Url("https", "fixed", "c1", FALSE, "fragment")
Mail      == Url("mailto", Nothing, "mail", FALSE, "plain")

MCElsewhere == Url("https", "fixed", "elsewhere", TRUE, "plain")

Named(c) == {Actor("c1"), Actor("c2"), Actor("c3"), Moving, Respelt, Inbox, Nothing}

MCDocuments == [c \in {"c1", "c2", "c3", "c4", "c5"} |->
  IF c = "c2" THEN Named(c) \cup {Literal, Loopback, Mail} ELSE Named(c)]
MCRedirects == [c \in {"c1", "c2", "c3", "c4", "c5"} |-> IF c = "c3" THEN {Moving, Loopback} ELSE {}]

Config(http, relax) == [http |-> http, relax |-> relax]
Idle        == [at |-> "none", ref |-> Nothing, depth |-> 0, seen |-> {}]
Walk(at, limit, since) == [at |-> at, limit |-> limit, max |-> Sentinel, since |-> since, total |-> 0]
NoWalk      == Walk("none", 0, 0)

Conversation(config, srch, wlk, tries, offset, may) ==
  [config |-> config, search |-> srch, walk |-> wlk, tries |-> tries, offset |-> offset, may |-> may,
   array |-> offset > 0, authorized |-> offset # 0, signs |-> offset < 2,
   actor |-> IF "other actor" \in may THEN "other" ELSE Signer]

Searches   == {Conversation(k, Searching(Actor("c1")), NoWalk, 0, 0, {}) :
                 k \in {Config(FALSE, FALSE), Config(TRUE, FALSE), Config(FALSE, TRUE)}}
Deliveries == {Conversation(Config(FALSE, FALSE), Searching(Inbox), NoWalk, 2, o, {"time", "timeout"} \cup m) :
                 o \in {-2, 0, 1}, m \in {{"rotate"}, {"key file"}, {"redirect"}, {"garble"}, {"see other"},
                                              {"no key"}, {"other actor"}}}
Readings   == {Conversation(Config(FALSE, FALSE), Idle, w, 0, o, {"time"}) :
                 o \in {0, 1, 2}, w \in {Walk("root", 3, 0), Walk("root", 0, 0), Walk("count", 2, 1)}}

MCPlans == Searches \cup Deliveries \cup Readings
==============================================================================
