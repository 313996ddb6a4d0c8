------------------------------ MODULE ClientProofs ------------------------------
(***************************************************************************)
(* Proofs about Client, for every set of requests, tokens, users and       *)
(* bounds.  The inductive invariant is built in layers, one for each part  *)
(* of the state, and each layer is preserved by every step given the ones  *)
(* before it:                                                              *)
(*                                                                         *)
(*   Handlers   where a handler can be, by the operation it executes;      *)
(*   Exchanges  codes, the exchanges that hold them, and tokens;           *)
(*   Bears      a handler that has begun acts for the user of its token;   *)
(*   Files      an upload's temporary file, its blob and its row;          *)
(*   Audience   who follows the users;                                     *)
(*   Rows       what a handler publishes, from its checks to its row;      *)
(*   Told       deleted statuses and the Deletes that were published;      *)
(*   Edges      likes and boosts, their rows and their Undos;              *)
(*   Lists      lists and their members, who are added by the owner;       *)
(*   Asks       the statements of a read;                                  *)
(*   Sifts      filters, and what a read leaves out;                       *)
(*   Answers    the status codes.                                          *)
(*                                                                         *)
(* A step of a handler moves that handler alone, so each layer looks only  *)
(* at the few actions that touch its variables; the lemmas on frames say   *)
(* so once for the other actions.                                          *)
(***************************************************************************)
EXTENDS Client, FiniteSetTheorems, TLAPS

---------------------------------------------------------------------------------
(***************************************************************************)
(* The inductive invariant                                                 *)
(***************************************************************************)
\* The operations that anybody may ask for.
Open    == {"register", "form", "authorize", "exchange", "credentials", "revoke", "public", "account",
            "follow", "unfollow"}
Edging  == {"favourite", "reblog"}
Undoing == {"unfavourite", "unreblog"}

Ends == {"new", "begin", "consume", "check", "commit", "rename", "insert",
         "publish", "remove", "member", "ask", "rows", "filter", "answered"}

Places ==
  \A r \in plan.reqs :
    /\ pc[r] \in {"consume", "check", "commit"} => Req[r].op = "exchange"
    /\ pc[r] = "begin" => Req[r].op \notin Open
    /\ pc[r] \in {"rename", "insert"} => Req[r].op = "upload"
    /\ pc[r] = "publish" => Req[r].op \in {"post", "delete"} \cup Edging \cup Undoing
    /\ pc[r] = "remove" => Req[r].op = "delete"
    /\ pc[r] = "member" => Req[r].op \in {"add", "remove"}
    /\ pc[r] = "ask" => Req[r].op = "list timeline"
    /\ pc[r] \in {"rows", "filter"} => Req[r].op \in Reads

Handlers ==
  /\ plan \in Bounds /\ faults \in Nat
  /\ pc \in [plan.reqs -> Ends]
  /\ DOMAIN held = plan.reqs
  /\ \A r \in plan.reqs : pc[r] \in {"new", "answered"} => held[r] = Nothing
  /\ Places

\* A code in the hands of an exchange, and how far its checks have come.
InHand(r) ==
  /\ held[r] = Req[r].code /\ held[r] \in codes /\ locked[held[r]] = r
  /\ Req[held[r]].redirect = Req[r].redirect
  /\ pc[r] = "commit" => Req[held[r]].client = Req[r].client /\ pkceVerify(Req[r].verifier, held[r])

Locks ==
  /\ locked \in [Codes -> plan.reqs \cup {Nothing}]
  /\ \A c \in Codes : locked[c] # Nothing => pc[locked[c]] \in {"check", "commit"} /\ held[locked[c]] = c
  /\ \A r \in plan.reqs : pc[r] \in {"check", "commit"} => InHand(r)

Granted ==
  /\ codes \subseteq grants /\ grants \subseteq Codes /\ expired \subseteq grants
  /\ \A c \in grants : pc[c] = "answered"

\* A token was issued before, or a request that has been answered has made it.
Made(t) ==
  \/ t \in Issued
  \/ \E e \in plan.reqs : Req[e].op \in Minting /\ pc[e] = "answered" /\ Req[e].token = t.token

Tokens ==
  /\ \A t \in tokens :
       /\ Made(t) /\ t.user \in Users \cup {Nothing}
       /\ t.user = Nothing \/ RightlyHad(t)
       /\ t.grant \in Requests => t.grant \in grants \ codes
  /\ \A t, w \in tokens : t.token = w.token => t = w
  /\ \A t, w \in tokens : t.grant = w.grant /\ t.grant \in grants => t = w
  /\ \A c \in grants \ codes : \E t \in tokens : t.grant = c

Exchanges == Locks /\ Granted /\ Tokens

\* r is under way for a user.
Begins(r) ==
  \/ pc[r] \in {"begin", "rename", "insert", "publish", "remove", "member", "ask"}
  \/ pc[r] \in {"rows", "filter"} /\ Req[r].op \notin {"public", "account"}

Bears == \A r \in plan.reqs : Begins(r) => held[r].user \in Users /\ Bearer(Req[r].token) = {held[r].user}

Files ==
  /\ tmp \cup blobs \cup working \subseteq Uploads /\ tmp \cap blobs = {}
  /\ media \in [Uploads -> MediaRows \cup {Nothing}]
  /\ \A u \in tmp : pc[u] \in {"rename", "answered"}
  /\ \A u \in blobs : pc[u] \in {"insert", "answered"}
  /\ \A u \in Uploads : pc[u] = "insert" => u \in blobs /\ media[u] = Nothing
  /\ \A u \in Uploads : media[u] # Nothing => /\ u \in blobs /\ pc[u] = "answered"
                                              /\ Bearer(Req[u].token) = {media[u].owner}
  /\ \A u \in working : media[u] # Nothing

\* Who follows a user, or has ceased to: whom a publication may have gone to.
Reached(u) == followers[u] \cup Left(u)

Audience == followers \in [Users -> SUBSET Named]

\* What the handler of r made of its request, by operation.
CreateFits(r, x) ==
  /\ x.kind = "Create"
  /\ Req[r].visibility \in {"public", "unlisted", "private", "direct"}
  /\ x.to \cap ({"public", "followers"} \cup Users) = {}
  /\ Req[r].visibility = "direct" \/ x.to \subseteq Reached(x.actor)
  /\ \A u \in x.media : u \in Uploads /\ media[u] # Nothing /\ media[u].owner = x.actor /\ media[u].state = "complete"

DeleteFits(r, x) ==
  /\ x.kind = "Delete" /\ x.of = Req[r].of
  /\ IsNote(x.of) /\ activities[x.of].actor = x.actor
  /\ Req[x.of].visibility = "direct" \/ activities[x.of].to \subseteq x.to \cup Left(x.actor)

EdgeFits(r, x) == x.kind = KindOf(r) /\ x.of = Req[r].of /\ x.of \in Statuses

UndoFits(r, x) ==
  /\ x.kind = "Undo" /\ x.of \in plan.reqs
  /\ activities[x.of] # Nothing /\ activities[x.of].kind \in {"Like", "Announce"}
  /\ activities[x.of].actor = x.actor

Fits(r, x) ==
  /\ x \in ActivityRows /\ x.actor \in Users
  /\ Bearer(Req[r].token) = {x.actor}
  /\ Req[r].op = "post"     => CreateFits(r, x)
  /\ Req[r].op = "delete"   => DeleteFits(r, x)
  /\ Req[r].op \in Edging   => EdgeFits(r, x)
  /\ Req[r].op \in Undoing  => UndoFits(r, x)

Rows ==
  /\ activities \in [plan.reqs \cup Received -> ActivityRows \cup {Nothing}]
  /\ \A x \in Received : activities[x] # Nothing /\ activities[x].kind = "Create" /\ activities[x].actor = By[x]
  /\ \A r \in plan.reqs : \A x \in {activities[r]} \ {Nothing} :
       /\ pc[r] \in {"remove", "answered"}
       /\ Req[r].op \in {"post", "delete"} \cup Edging \cup Undoing
       /\ Fits(r, x)
  /\ \A r \in plan.reqs : pc[r] = "publish" => \A x \in {held[r].act} :
       /\ Fits(r, x) /\ x.actor = held[r].user
       /\ Req[r].op \notin {"post", "delete"} => held[r].code \in {200, 404}
  /\ \A r \in plan.reqs : pc[r] = "remove" => activities[r] # Nothing
  /\ bookmarks \subseteq Users \X Statuses

Sent(r, kind) == r \in plan.reqs /\ activities[r] # Nothing /\ activities[r].kind = kind

Told ==
  /\ deleted \subseteq Statuses
  /\ \A x \in deleted : \E d \in plan.reqs : Sent(d, "Delete") /\ activities[d].of = x
  /\ faults = 0 => \A d \in plan.reqs : Sent(d, "Delete") => activities[d].of \in deleted \/ pc[d] = "remove"

PairOf(x) == <<x.kind, x.actor, x.of>>
SentEdge(r) == Sent(r, "Like") \/ Sent(r, "Announce")
Undone(r) == \E u \in plan.reqs : Sent(u, "Undo") /\ activities[u].of = r
EdgeAtHand(r) == r \in plan.reqs /\ pc[r] = "publish" /\ Req[r].op \in Edging

Edges ==
  /\ edges \in [EdgeKeys -> plan.reqs \cup {Nothing}] /\ raced \subseteq EdgeKeys
  /\ \A k \in EdgeKeys : \A e \in {edges[k]} \ {Nothing} :
       SentEdge(e) /\ PairOf(activities[e]) = k /\ ~Undone(e)
  /\ \A r \in plan.reqs : SentEdge(r) => \A k \in {PairOf(activities[r])} :
       k \in raced \/ Undone(r) \/ edges[k] = r
  /\ \A r \in plan.reqs : EdgeAtHand(r) => \A k \in {PairOf(held[r].act)} :
       \/ k \in raced
       \/ /\ edges[k] = Nothing
          /\ \A q \in plan.reqs : EdgeAtHand(q) /\ PairOf(held[q].act) = k => q = r

\* The account x was put in the list l by the user u; r is a request of the same user.
PutIn(l, x, u) == \E q \in OfOp("add") \cap Begun : Req[q].of = l /\ Req[q].account = x /\ Bearer(Req[q].token) = {u}
PutBy(r, x)    == \E u \in Users : Bearer(Req[r].token) = {u} /\ PutIn(Req[r].of, x, u)

\* The read r finds x on its list, from the beginning or by a request of its reader that
\* was not answered then.
Fresh(r, x) ==
  \E q \in OfOp("add") \cap Begun :
    /\ Req[q].of = Req[r].of /\ Req[q].account = x /\ Bearer(Req[q].token) = Bearer(Req[r].token)
    /\ q \notin read[r].answered

OnIt(r, x)     == x \in read[r].members \/ Fresh(r, x)
PutSince(r, x) == PutBy(r, x) /\ OnIt(r, x)

Shows(r, S) ==
  /\ S \cap read[r].deleted = {}
  /\ \A x \in S : x \in Statuses /\ IsNote(x)
  /\ Req[r].op = "list timeline" => \A x \in S : \A y \in {activities[x].actor} : PutSince(r, y)
  /\ Req[r].op = "conversations" => \A x \in S :
       \/ Bearer(Req[r].token) = {activities[x].actor}
       \/ \E u \in Req[x].direct : Bearer(Req[r].token) = {u}

Lists ==
  /\ lists \in [OfOp("list") -> Users \cup {Nothing}]
  /\ \A l \in OfOp("list") : pc[l] \in {"new", "begin"} => lists[l] = Nothing
  /\ \A r \in plan.reqs : pc[r] \in {"member", "ask"} => \E l \in OfOp("list") :
       l = Req[r].of /\ pc[l] \notin {"new", "begin"} /\ lists[l] \in {held[r].user, Nothing}
  /\ \A m \in members : m[1] \in OfOp("list") /\ \A u \in {lists[m[1]]} : u \in Users /\ PutIn(m[1], m[2], u)

\* The fields of a read.
Fields(y) ==
  y = [answered |-> y.answered, deleted |-> y.deleted, liked |-> y.liked, members |-> y.members,
       filters |-> y.filters, unfiltered |-> y.unfiltered, shown |-> y.shown]

\* How far a read has come, and what it has shown.
AskOk(r) ==
  /\ \A y \in {read[r]} : Fields(y)
  /\ read[r].deleted \subseteq deleted
  /\ \A q \in read[r].answered : q \in plan.reqs /\ pc[q] = "answered"
  /\ \A S \in {read[r].shown} : Shows(r, S)
  /\ pc[r] \in {"ask", "rows", "filter"} \/ read[r].shown # {} =>
       Req[r].op \in {"public", "account"} \/ Bearer(Req[r].token) # {}
  /\ pc[r] \in {"ask", "rows", "filter"} => read[r].shown = {}
  /\ pc[r] = "ask" => \A m \in members : m[1] = Req[r].of => OnIt(r, m[2])
  /\ pc[r] = "rows" => held[r] = [user |-> held[r].user, asked |-> held[r].asked]
  /\ pc[r] = "rows" /\ Req[r].op = "list timeline" => \A x \in held[r].asked : PutSince(r, x)
  /\ pc[r] = "filter" => \A S \in {held[r].asked} : Shows(r, S)

Asks ==
  /\ DOMAIN filters = OfOp("filter") /\ DOMAIN read = Readers
  /\ \A r \in Readers : AskOk(r)

\* What a read leaves out that its filters hid.
SiftOk(r) ==
  /\ \A x \in DOMAIN filters : read[r].filters[x] # Nothing => pc[x] = "answered"
  /\ Req[r].op \in {"home", "list timeline"} /\ ~read[r].unfiltered =>
       \A x \in DOMAIN filters : HidAllTheWhile(r, x) => read[r].shown \cap filters[x].hides = {}

Sifts ==
  /\ \A x \in DOMAIN filters : filters[x] # Nothing => pc[x] = "answered" /\ "over" \in DOMAIN filters[x]
  /\ \A r \in Readers : SiftOk(r)

Answers == answer \in [plan.reqs -> {Nothing} \cup 200 .. 599]

IInv ==
  /\ Handlers /\ Exchanges /\ Bears /\ Files /\ Audience /\ Rows /\ Told /\ Edges
  /\ Lists /\ Asks /\ Sifts /\ Answers

---------------------------------------------------------------------------------
(***************************************************************************)
(* The moves of the handlers                                               *)
(***************************************************************************)
\* The handler of r, and no other, goes to one of the places L.
Moves(r, L) ==
  /\ plan' = plan /\ faults' \in {faults, faults + 1}
  /\ pc' = [pc EXCEPT ![r] = pc'[r]] /\ held' = [held EXCEPT ![r] = held'[r]]
  /\ pc'[r] \in L
  /\ pc'[r] = "answered" => held'[r] = Nothing

\* A handler that is not at its end acts for the same user.
KeepsUser(r) == pc'[r] # "answered" => held'[r].user = held[r].user

\* What the two ways to end a statement leave.
LEMMA Going ==
  ASSUME NEW r \in plan.reqs, NEW l, NEW x, Handlers, Goto(r, l, x)
  PROVE  /\ plan' = plan /\ answer' = answer
         /\ pc' = [pc EXCEPT ![r] = pc'[r]] /\ pc'[r] = l
         /\ held' = [held EXCEPT ![r] = held'[r]] /\ held'[r] = x
  BY DEF Handlers, Goto

LEMMA Replying ==
  ASSUME NEW r \in plan.reqs, NEW code, Handlers, Reply(r, code)
  PROVE  /\ plan' = plan /\ answer' = [answer EXCEPT ![r] = code]
         /\ pc' = [pc EXCEPT ![r] = pc'[r]] /\ pc'[r] = "answered"
         /\ held' = [held EXCEPT ![r] = held'[r]] /\ held'[r] = Nothing
  BY DEF Handlers, Reply

LEMMA Faulting ==
  ASSUME Fault
  PROVE  faults' = faults + 1 /\ plan' = plan
  BY DEF Fault

\* An OAuth handler asks for an open operation, and goes on only to exchange a code.
LEMMA OAuthMoves ==
  ASSUME NEW r \in plan.reqs, Handlers, OAuthStep(r)
  PROVE  /\ Moves(r, {"consume", "check", "commit", "answered"})
         /\ Req[r].op \in Open \ {"public", "account"}
         /\ pc'[r] # "answered" => Req[r].op = "exchange"
         /\ pc[r] # "answered"
<1> USE Going, Replying, Faulting DEF Moves, Open, At, Done
<1>1. CASE postApps(r)
  BY <1>1 DEF postApps
<1>2. CASE getOAuthAuthorize(r)
  BY <1>2 DEF getOAuthAuthorize
<1>3. CASE postOAuthAuthorize(r)
  BY <1>3 DEF postOAuthAuthorize
<1>4. CASE ClientCredentials(r)
  BY <1>4 DEF ClientCredentials
<1>5. CASE postOAuthRevoke(r)
  BY <1>5 DEF postOAuthRevoke
<1>6. CASE TokenLookup(r)
  BY <1>6 DEF TokenLookup
<1>7. CASE ConsumeAuthorizationCode(r)
  BY <1>7 DEF ConsumeAuthorizationCode
<1>8. CASE TokenCheck(r)
  BY <1>8 DEF TokenCheck
<1>9. CASE TokenCommit(r)
  BY <1>9 DEF TokenCommit
<1>10. CASE OAuthFail(r)
  BY <1>10 DEF OAuthFail
<1>11. QED
  BY <1>1, <1>2, <1>3, <1>4, <1>5, <1>6, <1>7, <1>8, <1>9, <1>10 DEF OAuthStep

\* The user of a token is found before anything else is done.
LEMMA BearerMoves ==
  ASSUME NEW r \in plan.reqs, Handlers, bearer(r)
  PROVE  /\ Moves(r, {"begin", "answered"})
         /\ Req[r].op \notin Open
         /\ pc[r] = "new" /\ faults' = faults
         /\ pc'[r] = "begin" => held'[r].user \in Bearer(Req[r].token)
<1>1. /\ Req[r].op \notin Open /\ pc[r] = "new" /\ faults' = faults
      /\ \/ Reply(r, 401)
         \/ \E u \in Bearer(Req[r].token) : Goto(r, "begin", [user |-> u])
  BY DEF bearer, At, Open
<1>2. CASE Reply(r, 401)
  BY <1>1, <1>2, Replying DEF Moves
<1>3. ASSUME NEW u \in Bearer(Req[r].token), Goto(r, "begin", [user |-> u])
      PROVE  /\ Moves(r, {"begin", "answered"})
             /\ held'[r].user \in Bearer(Req[r].token)
  <2> DEFINE x == [user |-> u]
  <2>1. x.user = u
    OBVIOUS
  <2> HIDE DEF x
  <2>2. Goto(r, "begin", x)
    BY <1>3 DEF x
  <2>3. QED
    BY <1>1, <2>1, <2>2, Going DEF Moves
<1>4. QED
  BY <1>1, <1>2, <1>3

\* The handlers of uploads and of their descriptions.
LEMMA MediaMoves ==
  ASSUME NEW r \in plan.reqs, Handlers, MediaStep(r)
  PROVE  /\ Moves(r, {"rename", "insert", "answered"}) /\ KeepsUser(r)
         /\ Req[r].op \in {"upload", "describe", "poll"}
         /\ pc'[r] # "answered" => Req[r].op = "upload"
         /\ pc[r] \in {"begin", "rename", "insert"}
<1> USE Going, Replying, Faulting DEF Moves, KeepsUser, At, Done
<1>1. CASE handleMediaPost(r)
  BY <1>1 DEF handleMediaPost
<1>2. CASE StoreBlob(r)
  BY <1>2 DEF StoreBlob
<1>3. CASE InsertMastodonMedia(r)
  BY <1>3 DEF InsertMastodonMedia
<1>4. CASE putAPIMedia(r)
  BY <1>4 DEF putAPIMedia
<1>5. CASE getAPIMedia(r)
  BY <1>5 DEF getAPIMedia
<1>6. CASE MediaFail(r)
  BY <1>6 DEF MediaFail
<1>7. QED
  BY <1>1, <1>2, <1>3, <1>4, <1>5, <1>6 DEF MediaStep

\* The handlers of statuses; one that publishes comes from the beginning.
LEMMA StatusMoves ==
  ASSUME NEW r \in plan.reqs, Handlers, StatusStep(r)
  PROVE  /\ Moves(r, {"publish", "remove", "answered"}) /\ KeepsUser(r)
         /\ Req[r].op \in {"post", "delete", "bookmark", "unbookmark", "show", "follow", "unfollow"}
                          \cup Edging \cup Undoing
         /\ pc'[r] = "publish" => Req[r].op \in {"post", "delete"} \cup Edging \cup Undoing
         /\ pc'[r] = "remove" => Req[r].op = "delete"
         /\ pc[r] \in {"begin", "publish", "remove"} \/ (pc[r] = "new" /\ pc'[r] = "answered")
<1> USE Going, Replying, Faulting DEF Moves, KeepsUser, At, Done, Edging, Undoing
<1>1. CASE postStatuses(r)
  BY <1>1 DEF postStatuses
<1>2. CASE deleteStatus(r)
  BY <1>2 DEF deleteStatus
<1>3. CASE SoftDeleteActivityForActor(r)
  BY <1>3 DEF SoftDeleteActivityForActor
<1>4. CASE Social(r)
  BY <1>4 DEF Social, PublishEdge
<1>5. CASE UndoSocial(r)
  BY <1>5 DEF UndoSocial
<1>6. CASE Bookmark(r)
  BY <1>6 DEF Bookmark
<1>7. CASE PublishLocalActivityBytes(r)
  <2>1. pc[r] = "publish" /\ Req[r].op \in {"post", "delete"} \cup Edging \cup Undoing
    BY <1>7 DEF PublishLocalActivityBytes, Handlers, Places
  <2>2. CASE Req[r].op = "delete" /\ Goto(r, "remove", held[r]) /\ faults' = faults
    <3>1. PICK v : v = held[r]
      OBVIOUS
    <3>2. pc'[r] = "remove" /\ held'[r] = held[r]
      BY <2>2, <3>1
    <3>3. QED
      BY <2>1, <2>2, <3>1, <3>2
  <2>3. ASSUME NEW code, Reply(r, code), faults' \in {faults, faults + 1}
        PROVE  Moves(r, {"publish", "remove", "answered"}) /\ pc'[r] = "answered"
    BY <2>3
  <2>4. \/ Req[r].op = "delete" /\ Goto(r, "remove", held[r]) /\ faults' = faults
        \/ \E code : Reply(r, code) /\ faults' \in {faults, faults + 1}
    BY <1>7 DEF PublishLocalActivityBytes
  <2>5. QED
    BY <2>1, <2>2, <2>3, <2>4
<1>8. CASE getStatus(r)
  BY <1>8 DEF getStatus
<1>9. CASE StatusFail(r)
  BY <1>9 DEF StatusFail
<1>10. CASE HandleFollow(r)
  BY <1>10 DEF HandleFollow
<1>11. QED
  BY <1>1, <1>2, <1>3, <1>4, <1>5, <1>6, <1>7, <1>8, <1>9, <1>10 DEF StatusStep

\* What the handlers of lists, filters and reads do to their place.
LEMMA Stopping ==
  ASSUME NEW r \in plan.reqs, Handlers, NEW L, "answered" \in L, faults' \in {faults, faults + 1},
         \E code : Reply(r, code)
  PROVE  Moves(r, L) /\ KeepsUser(r) /\ pc'[r] = "answered"
  BY Replying DEF Moves, KeepsUser

SetsMember(r) == AddMastodonListMember(r) \/ RemoveMastodonListMember(r)

\* What the handlers of lists and filters answer.
LEMMA ListReplies ==
  ASSUME NEW r, \/ postLists(r) \/ putListByID(r) \/ deleteListByID(r) \/ SetsMember(r)
                \/ postFilters(r) \/ putFilterByID(r) \/ deleteFilterByID(r)
  PROVE  Reply(r, 200) \/ Reply(r, 204) \/ Reply(r, 400) \/ Reply(r, 404) \/ Reply(r, 500)
<1>1. CASE postLists(r)
  BY <1>1 DEF postLists, Done
<1>2. CASE putListByID(r)
  BY <1>2 DEF putListByID
<1>3. CASE deleteListByID(r)
  BY <1>3 DEF deleteListByID, Done
<1>4. CASE SetsMember(r)
  BY <1>4 DEF SetsMember, AddMastodonListMember, RemoveMastodonListMember, Done
<1>5. CASE postFilters(r)
  BY <1>5 DEF postFilters, Done
<1>6. CASE putFilterByID(r)
  BY <1>6 DEF putFilterByID, Done
<1>7. CASE deleteFilterByID(r)
  BY <1>7 DEF deleteFilterByID, Done
<1>8. QED
  BY <1>1, <1>2, <1>3, <1>4, <1>5, <1>6, <1>7

\* The handlers of lists, filters and reads; the reads that are open begin here.
LEMMA TimelineMoves ==
  ASSUME NEW r \in plan.reqs, Handlers, TimelineStep(r)
  PROVE  /\ Moves(r, {"member", "ask", "rows", "filter", "answered"})
         /\ Req[r].op \notin {"public", "account"} => KeepsUser(r) /\ pc[r] # "new"
         /\ Req[r].op \in Reads \cup {"list", "rename list", "delete list", "add", "remove",
                                      "filter", "put filter", "delete filter"}
         /\ pc'[r] = "member" => Req[r].op \in {"add", "remove"}
         /\ pc'[r] = "ask" => Req[r].op = "list timeline" /\ ReadFirst(r)
         /\ pc'[r] \in {"rows", "filter"} => Req[r].op \in Reads
         /\ pc[r] \in {"new", "begin", "member", "ask", "rows", "filter"}
<1> DEFINE L == {"member", "ask", "rows", "filter", "answered"}
           ListOps == {"list", "rename list", "delete list", "add", "remove", "filter", "put filter", "delete filter"}
<1> USE Faulting DEF At, Done
<1>1. CASE \/ postLists(r) \/ putListByID(r) \/ deleteListByID(r)
           \/ postFilters(r) \/ putFilterByID(r) \/ deleteFilterByID(r)
  <2>1. pc[r] = "begin" /\ Req[r].op \in ListOps
    BY <1>1 DEF postLists, putListByID, deleteListByID, postFilters, putFilterByID, deleteFilterByID
  <2>2. faults' \in {faults, faults + 1}
    BY <1>1 DEF postLists, putListByID, deleteListByID, postFilters, putFilterByID, deleteFilterByID
  <2>3. \E code : Reply(r, code)
    BY <1>1, ListReplies
  <2>4. QED
    BY <2>1, <2>2, <2>3, Stopping
<1>2. CASE GetMastodonList(r)
  <2>1. pc[r] = "begin" /\ Req[r].op \in {"add", "remove"} /\ faults' = faults
    BY <1>2 DEF GetMastodonList
  <2>2. Goto(r, "member", held[r]) \/ \E code : Reply(r, code)
    BY <1>2 DEF GetMastodonList
  <2>3. ASSUME Goto(r, "member", held[r])
        PROVE  Moves(r, L) /\ KeepsUser(r) /\ pc'[r] = "member"
    BY <2>1, <2>3, Going DEF Moves, KeepsUser
  <2>4. QED
    BY <2>1, <2>2, <2>3, Stopping
<1>3. CASE SetsMember(r)
  <2>1. pc[r] = "member" /\ Req[r].op \in {"add", "remove"}
    BY <1>3 DEF SetsMember, AddMastodonListMember, RemoveMastodonListMember
  <2>2. faults' \in {faults, faults + 1}
    BY <1>3 DEF SetsMember, AddMastodonListMember, RemoveMastodonListMember
  <2>3. \E code : Reply(r, code)
    BY <1>3, ListReplies
  <2>4. QED
    BY <2>1, <2>2, <2>3, Stopping
<1>4. CASE ReadFirst(r)
  <2>1. PICK user : BeginRead(r, user) /\ \/ Req[r].op \in {"public", "account"} /\ pc[r] = "new"
                                          \/ Req[r].op \notin {"public", "account"} /\ pc[r] = "begin" /\ user = held[r].user
    BY <1>4 DEF ReadFirst
  <2> DEFINE x == [user |-> user, asked |-> Asked(r, user)]
  <2>2. x.user = user
    OBVIOUS
  <2> HIDE DEF x
  <2>3. /\ Req[r].op \in Reads /\ faults' = faults
        /\ \/ Goto(r, "rows", x)
           \/ Req[r].op = "list timeline" /\ Goto(r, "ask", held[r])
           \/ \E code : Reply(r, code)
    BY <2>1 DEF BeginRead, x
  <2>4. CASE \E code : Reply(r, code)
    BY <2>1, <2>3, <2>4, Stopping
  <2>5. CASE Goto(r, "rows", x)
    <3>3. plan' = plan /\ pc'[r] = "rows" /\ held'[r] = x /\ pc' = [pc EXCEPT ![r] = pc'[r]]
          /\ held' = [held EXCEPT ![r] = held'[r]]
      BY <2>5, Going
    <3>1. Moves(r, L) /\ pc'[r] = "rows" /\ held'[r] = x
      BY <2>3, <3>3 DEF Moves
    <3>2. QED
      BY <2>1, <2>2, <2>3, <3>1 DEF KeepsUser
  <2>6. CASE Req[r].op = "list timeline" /\ Goto(r, "ask", held[r])
    <3>3. plan' = plan /\ pc'[r] = "ask" /\ held'[r] = held[r] /\ pc' = [pc EXCEPT ![r] = pc'[r]]
          /\ held' = [held EXCEPT ![r] = held'[r]]
      <4>1. PICK v : v = held[r]
        OBVIOUS
      <4>2. Goto(r, "ask", v)
        BY <2>6, <4>1
      <4>3. QED
        BY <4>1, <4>2, Going
    <3>1. Moves(r, L) /\ pc'[r] = "ask" /\ held'[r] = held[r]
      BY <2>3, <3>3 DEF Moves
    <3>2. QED
      BY <1>4, <2>1, <2>3, <2>6, <3>1 DEF KeepsUser
  <2>7. QED
    BY <2>3, <2>4, <2>5, <2>6
<1>5. CASE ReadRows(r)
  <2> DEFINE x == [held[r] EXCEPT !.asked = {s \in Statuses \ deleted : IsNote(s) /\ Wanted(r, s)}]
  <2>1. x.user = held[r].user
    OBVIOUS
  <2> HIDE DEF x
  <2>2. Goto(r, "filter", x) /\ pc[r] = "rows" /\ faults' = faults
    BY <1>5 DEF ReadRows, x
  <2>3. Req[r].op \in Reads
    BY <2>2 DEF Handlers, Places
  <2>4. Moves(r, L) /\ KeepsUser(r) /\ pc'[r] = "filter"
    BY <2>1, <2>2, Going DEF Moves, KeepsUser
  <2>5. QED
    BY <2>2, <2>3, <2>4
<1>6. CASE filterActivityRowsForViewer(r)
  <2>1. pc[r] = "filter" /\ Req[r].op \in Reads
    BY <1>6 DEF filterActivityRowsForViewer, Handlers, Places
  <2>2. faults' \in {faults, faults + 1} /\ \E code : Reply(r, code)
    BY <1>6 DEF filterActivityRowsForViewer
  <2>3. QED
    BY <2>1, <2>2, Stopping
<1>7. CASE TimelineFail(r)
  <2>1. pc[r] \in {"begin", "ask", "rows"} /\ Req[r].op \in Reads \cup ListOps
    BY <1>7 DEF TimelineFail
  <2>2. faults' \in {faults, faults + 1} /\ \E code : Reply(r, code)
    <3>1. faults' = faults + 1
      BY <1>7 DEF TimelineFail
    <3>2. Reply(r, 404) \/ Reply(r, 500)
      BY <1>7 DEF TimelineFail
    <3>3. QED
      BY <3>1, <3>2
  <2>3. QED
    BY <2>1, <2>2, Stopping
<1>8. CASE ListMastodonListMemberActorIDs(r)
  <2> DEFINE x == [user |-> held[r].user, asked |-> Asked(r, held[r].user)]
  <2>1. x.user = held[r].user
    OBVIOUS
  <2> HIDE DEF x
  <2>2. Goto(r, "rows", x) /\ pc[r] = "ask" /\ faults' = faults
    BY <1>8 DEF ListMastodonListMemberActorIDs, x
  <2>3. Req[r].op = "list timeline"
    BY <2>2 DEF Handlers, Places
  <2>4. Moves(r, L) /\ KeepsUser(r) /\ pc'[r] = "rows"
    BY <2>1, <2>2, Going DEF Moves, KeepsUser
  <2>5. QED
    BY <2>2, <2>3, <2>4 DEF Reads
<1>9. QED
  BY <1>1, <1>2, <1>3, <1>4, <1>5, <1>6, <1>7, <1>8 DEF TimelineStep, SetsMember

\* Lists, filters and reads change nothing of the statuses.
LEMMA TimelineAlone ==
  ASSUME NEW r, TimelineStep(r)
  PROVE  UNCHANGED statusVars
BY DEF TimelineStep, postLists, putListByID, deleteListByID, GetMastodonList, AddMastodonListMember,
       RemoveMastodonListMember, postFilters, putFilterByID, deleteFilterByID, ReadFirst, BeginRead,
       ListMastodonListMemberActorIDs, ReadRows, filterActivityRowsForViewer, TimelineFail

\* What is left of a move for the handlers that do not make it.
LEMMA OneMoves ==
  ASSUME NEW r \in plan.reqs, NEW L, L \subseteq Ends, Handlers, Moves(r, L)
  PROVE  /\ plan' = plan /\ plan' \in Bounds /\ faults' \in Nat
         /\ pc' \in [plan.reqs -> Ends] /\ DOMAIN held' = plan.reqs
         /\ \A q \in plan.reqs \ {r} : pc'[q] = pc[q] /\ held'[q] = held[q]
<1>1. plan' = plan /\ plan' \in Bounds /\ faults' \in Nat
  BY DEF Handlers, Moves
<1>2. pc'[r] \in Ends
  BY DEF Moves
<1>3. pc' \in [plan.reqs -> Ends]
  BY <1>2 DEF Handlers, Moves
<1>4. DOMAIN held' = plan.reqs /\ \A q \in plan.reqs \ {r} : pc'[q] = pc[q] /\ held'[q] = held[q]
  BY DEF Handlers, Moves
<1>5. QED
  BY <1>1, <1>3, <1>4

\* Handlers holds after a move to a place that suits the operation.
LEMMA MovesKeep ==
  ASSUME NEW r \in plan.reqs, NEW L, L \subseteq Ends \ {"new"}, Handlers, Moves(r, L),
         /\ pc'[r] \in {"consume", "check", "commit"} => Req[r].op = "exchange"
         /\ pc'[r] = "begin" => Req[r].op \notin Open
         /\ pc'[r] \in {"rename", "insert"} => Req[r].op = "upload"
         /\ pc'[r] = "publish" => Req[r].op \in {"post", "delete"} \cup Edging \cup Undoing
         /\ pc'[r] = "remove" => Req[r].op = "delete"
         /\ pc'[r] = "member" => Req[r].op \in {"add", "remove"}
         /\ pc'[r] = "ask" => Req[r].op = "list timeline"
         /\ pc'[r] \in {"rows", "filter"} => Req[r].op \in Reads
  PROVE  Handlers'
<1>1. /\ plan' = plan /\ plan' \in Bounds /\ faults' \in Nat
      /\ pc' \in [plan.reqs -> Ends] /\ DOMAIN held' = plan.reqs
      /\ \A q \in plan.reqs \ {r} : pc'[q] = pc[q] /\ held'[q] = held[q]
  <2>1. L \subseteq Ends
    OBVIOUS
  <2>2. QED
    BY <2>1, OneMoves
<1>2. \A q \in plan.reqs : pc'[q] \in {"new", "answered"} => held'[q] = Nothing
  BY <1>1 DEF Moves, Handlers
<1>3. Places'
  BY <1>1 DEF Places, Handlers
<1>4. QED
  BY <1>1, <1>2, <1>3 DEF Handlers

\* Each step of a handler is a move of it.
LEMMA StepMoves ==
  ASSUME NEW r \in plan.reqs, Handlers, Step(r)
  PROVE  /\ Handlers' /\ Moves(r, Ends \ {"new"})
         /\ pc[r] # "answered"
<1>1. CASE OAuthStep(r)
  <2> DEFINE L == {"consume", "check", "commit", "answered"}
  <2>1. Moves(r, L) /\ pc[r] # "answered" /\ (pc'[r] # "answered" => Req[r].op = "exchange")
    BY <1>1, OAuthMoves
  <2>2. L \subseteq Ends \ {"new"} /\ pc'[r] \in L
    BY <2>1 DEF Ends, Moves
  <2>3. Handlers'
    BY <2>1, <2>2, MovesKeep
  <2>4. QED
    BY <2>1, <2>2, <2>3 DEF Moves
<1>2. CASE bearer(r)
  <2> DEFINE L == {"begin", "answered"}
  <2>1. Moves(r, L) /\ pc[r] = "new" /\ Req[r].op \notin Open
    BY <1>2, BearerMoves
  <2>2. L \subseteq Ends \ {"new"} /\ pc'[r] \in L
    BY <2>1 DEF Ends, Moves
  <2>3. Handlers'
    BY <2>1, <2>2, MovesKeep
  <2>4. QED
    BY <2>1, <2>2, <2>3 DEF Moves
<1>3. CASE MediaStep(r)
  <2> DEFINE L == {"rename", "insert", "answered"}
  <2>1. Moves(r, L) /\ pc[r] # "answered" /\ (pc'[r] # "answered" => Req[r].op = "upload")
    BY <1>3, MediaMoves
  <2>2. L \subseteq Ends \ {"new"} /\ pc'[r] \in L
    BY <2>1 DEF Ends, Moves
  <2>3. Handlers'
    BY <2>1, <2>2, MovesKeep
  <2>4. QED
    BY <2>1, <2>2, <2>3 DEF Moves
<1>4. CASE StatusStep(r)
  <2> DEFINE L == {"publish", "remove", "answered"}
  <2>1. /\ Moves(r, L) /\ pc[r] # "answered"
        /\ pc'[r] = "publish" => Req[r].op \in {"post", "delete"} \cup Edging \cup Undoing
        /\ pc'[r] = "remove" => Req[r].op = "delete"
    BY <1>4, StatusMoves
  <2>2. L \subseteq Ends \ {"new"} /\ pc'[r] \in L
    BY <2>1 DEF Ends, Moves
  <2>3. Handlers'
    BY <2>1, <2>2, MovesKeep
  <2>4. QED
    BY <2>1, <2>2, <2>3 DEF Moves
<1>5. CASE TimelineStep(r)
  <2> DEFINE L == {"member", "ask", "rows", "filter", "answered"}
  <2>1. /\ Moves(r, L) /\ pc[r] # "answered"
        /\ pc'[r] = "member" => Req[r].op \in {"add", "remove"}
        /\ pc'[r] = "ask" => Req[r].op = "list timeline"
        /\ pc'[r] \in {"rows", "filter"} => Req[r].op \in Reads
    BY <1>5, TimelineMoves
  <2>2. L \subseteq Ends \ {"new"} /\ pc'[r] \in L
    BY <2>1 DEF Ends, Moves
  <2>3. Handlers'
    BY <2>1, <2>2, MovesKeep
  <2>4. QED
    BY <2>1, <2>2, <2>3 DEF Moves
<1>6. QED
  BY <1>1, <1>2, <1>3, <1>4, <1>5 DEF Step

\* A crash ends all handlers that have begun.
LEMMA CrashMoves ==
  ASSUME Handlers, Crash
  PROVE  /\ Handlers' /\ plan' = plan /\ faults' = faults + 1
         /\ \A r \in plan.reqs : pc'[r] = (IF pc[r] = "new" THEN "new" ELSE "answered") /\ held'[r] = Nothing
<1>1. /\ plan' = plan /\ faults' = faults + 1
      /\ pc' = [r \in plan.reqs |-> IF pc[r] = "new" THEN "new" ELSE "answered"]
      /\ held' = [r \in plan.reqs |-> Nothing]
  BY DEF Crash, Fault
<1>2. pc' \in [plan.reqs -> Ends]
  BY <1>1 DEF Ends
<1>3. Places'
  BY <1>1 DEF Places
<1>4. QED
  BY <1>1, <1>2, <1>3 DEF Handlers

\* The other steps move no handler.
Stays == UNCHANGED <<plan, pc, held, answer>> /\ faults' \in {faults, faults + 1}

LEMMA StaysKeep ==
  ASSUME Handlers, Stays
  PROVE  Handlers'
<1>1. plan' = plan /\ pc' = pc /\ held' = held /\ faults' \in Nat
  BY DEF Handlers, Stays
<1>2. Places'
  BY <1>1 DEF Handlers, Places
<1>3. QED
  BY <1>1, <1>2 DEF Handlers

LEMMA ExpireStays ==
  ASSUME NEW c \in codes, Expire(c)
  PROVE  Stays
  BY DEF Expire, Stays, apiVars

LEMMA FilterExpiresStays ==
  ASSUME NEW x, FilterExpires(x)
  PROVE  Stays
  BY DEF FilterExpires, Stays, apiVars

LEMMA ProcessStays ==
  ASSUME NEW u, Process(u)
  PROVE  Stays
  BY DEF Process, Stays, Fault

---------------------------------------------------------------------------------
(***************************************************************************)
(* Codes, exchanges and tokens                                             *)
(***************************************************************************)
OAuthOps == {"register", "form", "authorize", "exchange", "credentials", "revoke"}

\* The other handlers leave the tables of OAuth alone, and have no code in hand.
LEMMA NotOAuth ==
  ASSUME NEW r \in plan.reqs, Handlers,
         bearer(r) \/ MediaStep(r) \/ StatusStep(r) \/ (TimelineStep(r) /\ UNCHANGED <<oauthVars, mediaVars>>)
  PROVE  UNCHANGED oauthVars /\ Req[r].op \notin OAuthOps
<1>1. CASE bearer(r)
  BY <1>1, BearerMoves DEF bearer, Open, OAuthOps
<1>2. CASE MediaStep(r)
  <2>1. UNCHANGED oauthVars
    BY <1>2 DEF MediaStep, handleMediaPost, StoreBlob, InsertMastodonMedia, putAPIMedia, getAPIMedia, MediaFail
  <2>2. QED
    BY <1>2, <2>1, MediaMoves DEF OAuthOps
<1>3. CASE StatusStep(r)
  <2>1. UNCHANGED oauthVars
    BY <1>3 DEF StatusStep, postStatuses, deleteStatus, SoftDeleteActivityForActor, Social, UndoSocial,
                Bookmark, PublishLocalActivityBytes, getStatus, StatusFail, HandleFollow
  <2>2. QED
    BY <1>3, <2>1, StatusMoves DEF OAuthOps, Edging, Undoing
<1>4. CASE TimelineStep(r) /\ UNCHANGED <<oauthVars, mediaVars>>
  BY <1>4, TimelineMoves DEF OAuthOps, Reads
<1>5. QED
  BY <1>1, <1>2, <1>3, <1>4

\* Nothing of the exchanges changes when a handler moves that has no code in hand.
LEMMA QuietExchanges ==
  ASSUME NEW r \in plan.reqs, Handlers, Exchanges, Moves(r, Ends \ {"new"}),
         UNCHANGED <<codes, locked, expired, tokens, grants>>,
         pc[r] \notin {"check", "commit", "answered"}, pc'[r] \notin {"check", "commit"}
  PROVE  Exchanges'
<1>1. /\ plan' = plan /\ Codes' = Codes /\ OfOp("exchange")' = OfOp("exchange")
      /\ \A q \in plan.reqs \ {r} : pc'[q] = pc[q] /\ held'[q] = held[q]
  BY OneMoves DEF Codes, OfOp
<1>2. Locks'
  BY <1>1 DEF Exchanges, Locks, InHand
<1>3. Granted'
  BY <1>1 DEF Exchanges, Granted, Codes, OfOp
<1>4. Tokens'
  <2>1. \A t \in tokens : Made(t)' /\ (t.user = Nothing \/ RightlyHad(t)')
    BY <1>1 DEF Exchanges, Tokens, Made, RightlyHad
  <2>2. QED
    BY <2>1 DEF Exchanges, Tokens
<1>5. QED
  BY <1>2, <1>3, <1>4 DEF Exchanges

\* An exchange that is refused or fails gives the code back, if it has one.
LEMMA RollbackExchanges ==
  ASSUME NEW r \in plan.reqs, Handlers, Exchanges, Moves(r, Ends \ {"new"}), Rollback(r),
         UNCHANGED <<codes, expired, tokens, grants>>,
         pc[r] # "answered", pc'[r] = "answered"
  PROVE  Exchanges'
<1>1. /\ plan' = plan /\ Codes' = Codes /\ OfOp("exchange")' = OfOp("exchange")
      /\ \A q \in plan.reqs \ {r} : pc'[q] = pc[q] /\ held'[q] = held[q]
  BY OneMoves DEF Codes, OfOp
<1>2. \A c \in Codes : locked'[c] = IF locked[c] = r THEN Nothing ELSE locked[c]
  BY DEF Rollback
<1>3. Locks'
  <2>1. locked' \in [Codes -> plan.reqs \cup {Nothing}]
    BY DEF Rollback, Exchanges, Locks
  <2>2. \A c \in Codes : locked'[c] # Nothing => pc'[locked'[c]] \in {"check", "commit"} /\ held'[locked'[c]] = c
    BY <1>1, <1>2 DEF Exchanges, Locks
  <2>3. \A q \in plan.reqs : pc'[q] \in {"check", "commit"} => InHand(q)'
    <3> SUFFICES ASSUME NEW q \in plan.reqs, pc'[q] \in {"check", "commit"}
                 PROVE  InHand(q)'
      OBVIOUS
    <3>1. q # r /\ pc'[q] = pc[q] /\ held'[q] = held[q] /\ InHand(q)
      BY <1>1 DEF Exchanges, Locks
    <3>2. held[q] \in Codes
      BY <3>1 DEF InHand, Exchanges, Granted
    <3>3. QED
      BY <1>1, <1>2, <3>1, <3>2 DEF InHand
  <2>4. QED
    BY <1>1, <2>1, <2>2, <2>3 DEF Locks
<1>4. Granted'
  BY <1>1 DEF Exchanges, Granted, Codes, OfOp
<1>5. Tokens'
  <2>1. \A t \in tokens : Made(t)' /\ (t.user = Nothing \/ RightlyHad(t)')
    BY <1>1 DEF Exchanges, Tokens, Made, RightlyHad
  <2>2. QED
    BY <2>1 DEF Exchanges, Tokens
<1>6. QED
  BY <1>3, <1>4, <1>5 DEF Exchanges

\* A code is granted once, by a request that has no code yet.
LEMMA GrantExchanges ==
  ASSUME NEW r \in plan.reqs, Handlers, Exchanges, Moves(r, Ends \ {"new"}),
         Req[r].op = "authorize", pc[r] = "new", pc'[r] = "answered",
         codes' = codes \cup {r}, grants' = grants \cup {r},
         UNCHANGED <<locked, expired, tokens>>
  PROVE  Exchanges'
<1>1. /\ plan' = plan /\ Codes' = Codes /\ OfOp("exchange")' = OfOp("exchange")
      /\ \A q \in plan.reqs \ {r} : pc'[q] = pc[q] /\ held'[q] = held[q]
  BY OneMoves DEF Codes, OfOp
<1>2. r \in Codes /\ r \notin grants
  BY DEF Codes, OfOp, Exchanges, Granted
<1>3. Locks'
  BY <1>1 DEF Exchanges, Locks, InHand
<1>4. Granted'
  BY <1>1, <1>2 DEF Exchanges, Granted, Codes, OfOp
<1>5. Tokens'
  <2>1. \A t \in tokens : Made(t)' /\ (t.user = Nothing \/ RightlyHad(t)')
    BY <1>1 DEF Exchanges, Tokens, Made, RightlyHad
  <2>2. \A t \in tokens : t.grant # r
    <3>1. r \in Requests
      BY ApiAssumption DEF Handlers
    <3>2. QED
      BY <1>2, <3>1 DEF Exchanges, Tokens
  <2>3. QED
    BY <1>2, <2>1, <2>2 DEF Exchanges, Tokens
<1>6. QED
  BY <1>3, <1>4, <1>5 DEF Exchanges

\* A code that nobody holds is taken in hand.
LEMMA ConsumeExchanges ==
  ASSUME NEW r \in plan.reqs, Handlers, Exchanges, ConsumeAuthorizationCode(r)
  PROVE  Exchanges'
<1>1. pc[r] = "consume" /\ Req[r].op = "exchange" /\ UNCHANGED <<codes, expired, tokens, grants>>
  BY DEF ConsumeAuthorizationCode, At
<1>2. OAuthStep(r)
  BY DEF OAuthStep
<1>3. Moves(r, Ends \ {"new"})
  BY <1>2, OAuthMoves DEF Moves, Ends
<1>4. CASE Reply(r, 400) /\ UNCHANGED locked
  <2>1. pc'[r] = "answered"
    BY <1>4, Replying
  <2>. QED
    BY <1>1, <1>3, <1>4, <2>1, QuietExchanges
<1>5. CASE /\ Req[r].code \in codes \ expired /\ Req[Req[r].code].redirect = Req[r].redirect
           /\ locked' = [locked EXCEPT ![Req[r].code] = r] /\ Goto(r, "check", Req[r].code)
  <2> DEFINE c == Req[r].code
  <2>1. c \in codes /\ c \in Codes /\ locked[c] = Nothing
    BY <1>5 DEF ConsumeAuthorizationCode, Exchanges, Granted
  <2>2. /\ plan' = plan /\ Codes' = Codes /\ OfOp("exchange")' = OfOp("exchange")
        /\ \A q \in plan.reqs \ {r} : pc'[q] = pc[q] /\ held'[q] = held[q]
    BY <1>3, OneMoves DEF Codes, OfOp
  <2>3. pc'[r] = "check" /\ held'[r] = c
    BY <1>5, Going
  <2>4. Locks'
    <3>1. locked' \in [Codes -> plan.reqs \cup {Nothing}]
      BY <1>5, <2>1 DEF Exchanges, Locks
    <3>2. \A d \in Codes : locked'[d] = IF d = c THEN r ELSE locked[d]
      BY <1>5, <2>1 DEF Exchanges, Locks
    <3>3. \A d \in Codes : locked'[d] # Nothing => pc'[locked'[d]] \in {"check", "commit"} /\ held'[locked'[d]] = d
      BY <1>1, <2>2, <2>3, <3>2 DEF Exchanges, Locks
    <3>4. \A q \in plan.reqs : pc'[q] \in {"check", "commit"} => InHand(q)'
      <4> SUFFICES ASSUME NEW q \in plan.reqs, pc'[q] \in {"check", "commit"}
                   PROVE  InHand(q)'
        OBVIOUS
      <4>1. CASE q = r
        BY <1>1, <1>5, <2>1, <2>3, <3>2, <4>1 DEF InHand
      <4>2. CASE q # r
        <5>1. pc'[q] = pc[q] /\ held'[q] = held[q] /\ InHand(q)
          BY <2>2, <4>2 DEF Exchanges, Locks
        <5>2. held[q] \in Codes /\ held[q] # c
          <6>1. q # Nothing
            BY ApiAssumption DEF Handlers
          <6>2. QED
            BY <2>1, <5>1, <6>1 DEF InHand, Exchanges, Granted
        <5>3. QED
          BY <1>1, <3>2, <5>1, <5>2 DEF InHand
      <4>3. QED
        BY <4>1, <4>2
    <3>5. QED
      BY <2>2, <3>1, <3>3, <3>4 DEF Locks
  <2>5. Granted'
    BY <1>1, <2>2 DEF Exchanges, Granted, Codes, OfOp
  <2>6. Tokens'
    <3>1. \A t \in tokens : Made(t)' /\ (t.user = Nothing \/ RightlyHad(t)')
      BY <1>1, <2>2 DEF Exchanges, Tokens, Made, RightlyHad
    <3>2. QED
      BY <1>1, <3>1 DEF Exchanges, Tokens
  <2>7. QED
    BY <2>4, <2>5, <2>6 DEF Exchanges
<1>6. QED
  BY <1>4, <1>5 DEF ConsumeAuthorizationCode

\* The checks of the client and of the verifier keep the code in hand.
LEMMA CheckExchanges ==
  ASSUME NEW r \in plan.reqs, Handlers, Exchanges, TokenCheck(r)
  PROVE  Exchanges'
<1>1. pc[r] = "check" /\ Req[r].op = "exchange" /\ UNCHANGED <<codes, expired, tokens, grants>>
  BY DEF TokenCheck, At
<1>2. OAuthStep(r)
  BY DEF OAuthStep
<1>3. Moves(r, Ends \ {"new"})
  BY <1>2, OAuthMoves DEF Moves, Ends
<1>4. CASE Reply(r, 400) /\ Rollback(r)
  BY <1>1, <1>3, <1>4, Replying, RollbackExchanges
<1>5. CASE /\ Req[held[r]].client = Req[r].client /\ pkceVerify(Req[r].verifier, held[r])
           /\ Goto(r, "commit", held[r]) /\ UNCHANGED locked
  <2>1. /\ plan' = plan /\ Codes' = Codes /\ OfOp("exchange")' = OfOp("exchange")
        /\ \A q \in plan.reqs \ {r} : pc'[q] = pc[q] /\ held'[q] = held[q]
    BY <1>3, OneMoves DEF Codes, OfOp
  <2>2. pc'[r] = "commit" /\ held'[r] = held[r] /\ InHand(r)
    BY <1>1, <1>5, Going DEF Exchanges, Locks
  <2>3. \A q \in plan.reqs : pc'[q] \in {"check", "commit"} => InHand(q)'
    BY <1>1, <1>5, <2>1, <2>2 DEF InHand, Exchanges, Locks
  <2>4. Locks'
    BY <1>1, <1>5, <2>1, <2>2, <2>3 DEF Exchanges, Locks
  <2>5. Granted'
    BY <1>1, <2>1 DEF Exchanges, Granted, Codes, OfOp
  <2>6. Tokens'
    <3>1. \A t \in tokens : Made(t)' /\ (t.user = Nothing \/ RightlyHad(t)')
      BY <1>1, <2>1 DEF Exchanges, Tokens, Made, RightlyHad
    <3>2. QED
      BY <1>1, <3>1 DEF Exchanges, Tokens
  <2>7. QED
    BY <2>4, <2>5, <2>6 DEF Exchanges
<1>6. QED
  BY <1>4, <1>5 DEF TokenCheck

\* The token a request is to make is not there while it is under way.
LEMMA FreshToken ==
  ASSUME NEW r \in plan.reqs, Handlers, Exchanges, Req[r].op \in Minting, pc[r] # "answered"
  PROVE  \A t \in tokens : t.token # Req[r].token
<1> SUFFICES ASSUME NEW t \in tokens, t.token = Req[r].token
             PROVE  FALSE
  OBVIOUS
<1>1. plan \in Bounds /\ r \in {x \in plan.reqs : Req[x].op \in Minting}
  BY DEF Handlers
<1>2. CASE t \in Issued
  BY <1>1, <1>2, OAuthAssumption
<1>3. ASSUME NEW e \in plan.reqs, Req[e].op \in Minting, pc[e] = "answered", Req[e].token = t.token
      PROVE  FALSE
  <2>1. e \in {x \in plan.reqs : Req[x].op \in Minting}
    BY <1>3
  <2>2. e = r
    BY <1>1, <1>3, <2>1, OAuthAssumption
  <2>3. QED
    BY <1>3, <2>2
<1>4. QED
  BY <1>2, <1>3 DEF Exchanges, Tokens, Made

\* The commit of an exchange: its code is spent on the only token of the grant.
LEMMA CommitExchanges ==
  ASSUME NEW r \in plan.reqs, Handlers, Exchanges, TokenCommit(r)
  PROVE  Exchanges' /\ \E t : t.token = Req[r].token /\ tokens' = tokens \cup {t}
<1>0. PICK c, t : /\ c = held[r]
                  /\ t = [token |-> Req[r].token, client |-> Req[c].client, user |-> Req[c].user,
                          scopes |-> IF Req[c].scopes = {} THEN Scopes(Req[c].client) ELSE Req[c].scopes,
                          grant |-> c]
  OBVIOUS
<1>1. /\ pc[r] = "commit" /\ Req[r].op = "exchange" /\ UNCHANGED <<expired, grants>>
      /\ tokens' = tokens \cup {t} /\ codes' = codes \ {c} /\ Rollback(r)
      /\ Done(r, 200, 500)
  BY <1>0 DEF TokenCommit, At, NewToken
<1>2. t.token = Req[r].token /\ t.user = Req[c].user /\ t.grant = c
  BY <1>0
<1>3. OAuthStep(r)
  BY DEF OAuthStep
<1>4. Moves(r, Ends \ {"new"})
  BY <1>3, OAuthMoves DEF Moves, Ends
<1>5. /\ plan' = plan /\ Codes' = Codes /\ OfOp("exchange")' = OfOp("exchange")
      /\ \A q \in plan.reqs \ {r} : pc'[q] = pc[q] /\ held'[q] = held[q]
  BY <1>4, OneMoves DEF Codes, OfOp
<1>6. pc'[r] = "answered"
  BY <1>1, Replying DEF Done
<1>7. InHand(r) /\ c \in codes /\ c \in grants /\ c \in Codes /\ c \in Requests /\ locked[c] = r
  BY <1>0, <1>1, ApiAssumption DEF Exchanges, Locks, Granted, InHand, Codes, OfOp, Handlers
<1>8. \A w \in tokens : w.token # t.token
  BY <1>1, <1>2, FreshToken DEF Minting
<1>9. \A w \in tokens : w.grant # c
  BY <1>7 DEF Exchanges, Tokens
<1>10. Locks'
  <2>1. \A d \in Codes : locked'[d] = IF locked[d] = r THEN Nothing ELSE locked[d]
    BY <1>1 DEF Rollback
  <2>2. locked' \in [Codes -> plan.reqs \cup {Nothing}]
    BY <1>1 DEF Rollback, Exchanges, Locks
  <2>3. \A d \in Codes : locked'[d] # Nothing => pc'[locked'[d]] \in {"check", "commit"} /\ held'[locked'[d]] = d
    BY <1>5, <2>1 DEF Exchanges, Locks
  <2>4. \A q \in plan.reqs : pc'[q] \in {"check", "commit"} => InHand(q)'
    <3> SUFFICES ASSUME NEW q \in plan.reqs, pc'[q] \in {"check", "commit"}
                 PROVE  InHand(q)'
      OBVIOUS
    <3>1. q # r /\ pc'[q] = pc[q] /\ held'[q] = held[q] /\ InHand(q)
      BY <1>5, <1>6 DEF Exchanges, Locks
    <3>2. held[q] \in Codes /\ held[q] # c
      BY <1>7, <3>1 DEF InHand, Exchanges, Granted
    <3>3. QED
      BY <1>1, <2>1, <3>1, <3>2 DEF InHand
  <2>5. QED
    BY <1>5, <2>2, <2>3, <2>4 DEF Locks
<1>11. Granted'
  BY <1>1, <1>5, <1>6 DEF Exchanges, Granted, Codes, OfOp
<1>12. Tokens'
  <2>1. \A w \in tokens : Made(w)' /\ (w.user = Nothing \/ RightlyHad(w)')
    BY <1>1, <1>5 DEF Exchanges, Tokens, Made, RightlyHad
  <2>2. Made(t)'
    BY <1>1, <1>2, <1>5, <1>6 DEF Made, Minting
  <2>3. t.user \in Users
    BY <1>2, <1>7, StatusAssumption DEF Codes, OfOp
  <2>4. RightlyHad(t)'
    BY <1>0, <1>1, <1>2, <1>5, <1>7 DEF RightlyHad, InHand, OfOp
  <2>5. QED
    BY <1>1, <1>2, <1>7, <1>8, <1>9, <2>1, <2>2, <2>3, <2>4 DEF Exchanges, Tokens
<1>13. QED
  BY <1>1, <1>2, <1>10, <1>11, <1>12 DEF Exchanges

\* A token for an application has no user and no grant.
LEMMA CredentialsExchanges ==
  ASSUME NEW r \in plan.reqs, Handlers, Exchanges, ClientCredentials(r)
  PROVE  /\ Exchanges'
         /\ tokens' = tokens \/ \E t : t.token = Req[r].token /\ tokens' = tokens \cup {t}
<1> DEFINE scopes == IF Req[r].scopes = {} THEN {"read"} ELSE Req[r].scopes
           t      == [token |-> Req[r].token, client |-> Req[r].client, user |-> Nothing,
                      scopes |-> scopes, grant |-> Nothing]
<1>1. /\ pc[r] = "new" /\ Req[r].op = "credentials" /\ UNCHANGED <<codes, locked, expired, grants>>
      /\ \/ tokens' = tokens
         \/ tokens' = tokens \cup {t}
  BY DEF ClientCredentials, At, NewToken
<1>2. t.token = Req[r].token /\ t.user = Nothing /\ t.grant = Nothing
  OBVIOUS
<1> HIDE DEF t
<1>3. OAuthStep(r)
  BY DEF OAuthStep
<1>4. Moves(r, Ends \ {"new"}) /\ pc'[r] = "answered"
  BY <1>1, <1>3, OAuthMoves DEF Moves, Ends
<1>5. CASE tokens' = tokens
  BY <1>1, <1>4, <1>5, QuietExchanges
<1>6. CASE tokens' = tokens \cup {t}
  <2>1. /\ plan' = plan /\ Codes' = Codes /\ OfOp("exchange")' = OfOp("exchange")
        /\ \A q \in plan.reqs \ {r} : pc'[q] = pc[q] /\ held'[q] = held[q]
    BY <1>4, OneMoves DEF Codes, OfOp
  <2>2. \A w \in tokens : w.token # t.token
    BY <1>1, <1>2, FreshToken DEF Minting
  <2>3. Nothing \notin grants /\ Nothing \notin Requests
    BY ApiAssumption DEF Exchanges, Granted, Codes, OfOp, Handlers
  <2>4. Locks'
    BY <1>1, <1>4, <2>1 DEF Exchanges, Locks, InHand
  <2>5. Granted'
    BY <1>1, <1>4, <2>1 DEF Exchanges, Granted, Codes, OfOp
  <2>6. Tokens'
    <3>1. \A w \in tokens : Made(w)' /\ (w.user = Nothing \/ RightlyHad(w)')
      BY <1>1, <2>1 DEF Exchanges, Tokens, Made, RightlyHad
    <3>2. Made(t)'
      BY <1>1, <1>2, <1>4, <2>1 DEF Made, Minting
    <3>3. QED
      BY <1>1, <1>2, <1>6, <2>2, <2>3, <3>1, <3>2 DEF Exchanges, Tokens
  <2>7. QED
    BY <1>2, <1>6, <2>4, <2>5, <2>6 DEF Exchanges
<1>7. QED
  BY <1>1, <1>5, <1>6

\* A code of an exchange comes to its end in a crash as well.
LEMMA CrashExchanges ==
  ASSUME Handlers, Exchanges, Crash
  PROVE  Exchanges'
<1>1. /\ plan' = plan /\ Codes' = Codes /\ OfOp("exchange")' = OfOp("exchange")
      /\ \A r \in plan.reqs : pc'[r] = (IF pc[r] = "new" THEN "new" ELSE "answered") /\ held'[r] = Nothing
      /\ locked' = [c \in Codes |-> Nothing] /\ UNCHANGED <<codes, expired, tokens, grants>>
  BY CrashMoves DEF Crash, Codes, OfOp
<1>2. Locks'
  BY <1>1 DEF Locks
<1>3. Granted'
  BY <1>1 DEF Exchanges, Granted, Codes, OfOp
<1>4. Tokens'
  <2>1. \A t \in tokens : Made(t)' /\ (t.user = Nothing \/ RightlyHad(t)')
    BY <1>1 DEF Exchanges, Tokens, Made, RightlyHad
  <2>2. QED
    BY <1>1, <2>1 DEF Exchanges, Tokens
<1>5. QED
  BY <1>2, <1>3, <1>4 DEF Exchanges

\* Time, filters and uploads leave codes and tokens as they are.
LEMMA StayExchanges ==
  ASSUME Handlers, Exchanges, Stays, UNCHANGED <<codes, locked, tokens, grants>>,
         expired' \subseteq grants
  PROVE  Exchanges'
<1>1. plan' = plan /\ pc' = pc /\ held' = held /\ Codes' = Codes /\ OfOp("exchange")' = OfOp("exchange")
  BY DEF Stays, Codes, OfOp
<1>2. Locks'
  BY <1>1 DEF Exchanges, Locks, InHand
<1>3. Granted'
  BY <1>1 DEF Exchanges, Granted, Codes, OfOp
<1>4. Tokens'
  <2>1. \A t \in tokens : Made(t)' /\ (t.user = Nothing \/ RightlyHad(t)')
    BY <1>1 DEF Exchanges, Tokens, Made, RightlyHad
  <2>2. QED
    BY <2>1 DEF Exchanges, Tokens
<1>5. QED
  BY <1>2, <1>3, <1>4 DEF Exchanges

\* What the steps of OAuth do to the tokens: at most one is added, and it is a new one.
LEMMA OAuthExchanges ==
  ASSUME NEW r \in plan.reqs, Handlers, Exchanges, OAuthStep(r)
  PROVE  /\ Exchanges'
         /\ \/ tokens' = tokens
            \/ \E t : /\ t.token = Req[r].token /\ tokens' = tokens \cup {t}
                      /\ \A w \in tokens : w.token # t.token
<1>1. /\ Moves(r, Ends \ {"new"}) /\ pc[r] # "answered"
  BY OAuthMoves DEF Moves, Ends
<1>2. CASE postApps(r) \/ getOAuthAuthorize(r) \/ postOAuthRevoke(r)
  <2>1. /\ pc[r] = "new" /\ UNCHANGED <<codes, locked, expired, tokens, grants>>
        /\ Req[r].op # "exchange"
    BY <1>2 DEF postApps, getOAuthAuthorize, postOAuthRevoke, At, oauthVars
  <2>2. pc'[r] \notin {"check", "commit"}
    BY <2>1, OAuthMoves
  <2>3. QED
    BY <1>1, <2>1, <2>2, QuietExchanges
<1>3. CASE postOAuthAuthorize(r)
  <2>1. /\ pc[r] = "new" /\ UNCHANGED <<locked, expired, tokens>>
        /\ Req[r].op = "authorize"
        /\ \/ UNCHANGED <<codes, grants>>
           \/ codes' = codes \cup {r} /\ grants' = grants \cup {r}
    BY <1>3 DEF postOAuthAuthorize, At
  <2>2. pc'[r] = "answered"
    BY <2>1, OAuthMoves
  <2>3. QED
    BY <1>1, <2>1, <2>2, QuietExchanges, GrantExchanges
<1>4. CASE ClientCredentials(r)
  <2>1. Req[r].op \in Minting
    BY <1>4 DEF ClientCredentials, At, Minting
  <2>2. QED
    BY <1>1, <1>4, <2>1, CredentialsExchanges, FreshToken
<1>5. CASE TokenLookup(r)
  <2>1. pc[r] = "new" /\ UNCHANGED <<codes, locked, expired, tokens, grants>>
    BY <1>5 DEF TokenLookup, At, oauthVars
  <2>2. pc'[r] \in {"consume", "answered"}
    BY <1>5, Going, Replying DEF TokenLookup
  <2>3. QED
    BY <1>1, <2>1, <2>2, QuietExchanges
<1>6. CASE ConsumeAuthorizationCode(r)
  BY <1>6, ConsumeExchanges DEF ConsumeAuthorizationCode
<1>7. CASE TokenCheck(r)
  BY <1>7, CheckExchanges DEF TokenCheck
<1>8. CASE TokenCommit(r)
  <2>1. Req[r].op \in Minting
    BY <1>8 DEF TokenCommit, At, Minting
  <2>2. QED
    BY <1>1, <1>8, <2>1, CommitExchanges, FreshToken
<1>9. CASE OAuthFail(r)
  <2>1. Rollback(r) /\ UNCHANGED <<codes, expired, tokens, grants>> /\ Reply(r, 500)
    BY <1>9 DEF OAuthFail
  <2>2. QED
    BY <1>1, <2>1, Replying, RollbackExchanges
<1>10. QED
  BY <1>2, <1>3, <1>4, <1>5, <1>6, <1>7, <1>8, <1>9 DEF OAuthStep

\* The user of a token stays, whatever tokens are added.
BearersStay ==
  \A r \in Requests : Bearer(Req[r].token) # {} => Bearer(Req[r].token)' = Bearer(Req[r].token)

LEMMA BearersAdded ==
  ASSUME \/ tokens' = tokens
         \/ \E t : /\ tokens' = tokens \cup {t}
                   /\ \A w \in tokens : w.token # t.token
  PROVE  BearersStay
<1> SUFFICES ASSUME NEW r \in Requests, Bearer(Req[r].token) # {}
             PROVE  Bearer(Req[r].token)' = Bearer(Req[r].token)
  BY DEF BearersStay
<1>1. CASE tokens' = tokens
  BY <1>1 DEF Bearer
<1>2. ASSUME NEW t, tokens' = tokens \cup {t}, \A w \in tokens : w.token # t.token
      PROVE  Bearer(Req[r].token)' = Bearer(Req[r].token)
  <2>1. PICK w \in tokens : w.token = Req[r].token
    BY DEF Bearer
  <2>2. t.token # Req[r].token
    BY <1>2, <2>1
  <2>3. {x \in tokens' : x.token = Req[r].token} = {x \in tokens : x.token = Req[r].token}
    BY <1>2, <2>2
  <2>4. QED
    BY <2>3 DEF Bearer
<1>3. QED
  BY <1>1, <1>2

\* Every step keeps the exchanges in order, and the users of the tokens.
LEMMA NextExchanges ==
  ASSUME Handlers, Exchanges, [Next]_vars
  PROVE  Handlers' /\ Exchanges' /\ BearersStay
<1>1. ASSUME NEW r \in plan.reqs, Step(r)
      PROVE  Handlers' /\ Exchanges' /\ BearersStay
  <2>1. Handlers' /\ Moves(r, Ends \ {"new"}) /\ pc[r] # "answered"
    BY <1>1, StepMoves
  <2>2. CASE OAuthStep(r)
    BY <2>1, <2>2, OAuthExchanges, BearersAdded
  <2>3. CASE bearer(r) \/ MediaStep(r) \/ StatusStep(r) \/ (TimelineStep(r) /\ UNCHANGED <<oauthVars, mediaVars>>)
    <3>1. UNCHANGED oauthVars /\ Req[r].op \notin OAuthOps
      BY <2>3, NotOAuth
    <3>2. pc[r] \notin {"check", "commit"} /\ pc'[r] \notin {"check", "commit"}
      <4>1. r \in plan'.reqs
        BY <2>1 DEF Moves
      <4>2. QED
        BY <2>1, <3>1, <4>1 DEF Handlers, Places, OAuthOps
    <3>3. Exchanges'
      BY <2>1, <3>1, <3>2, QuietExchanges DEF oauthVars
    <3>4. QED
      BY <2>1, <3>1, <3>3, BearersAdded DEF oauthVars
  <2>4. QED
    BY <1>1, <2>2, <2>3 DEF Step
<1>2. ASSUME NEW c \in codes, Expire(c)
      PROVE  Handlers' /\ Exchanges' /\ BearersStay
  <2>1. Stays /\ UNCHANGED <<codes, locked, tokens, grants>> /\ expired' = expired \cup {c}
    BY <1>2, ExpireStays DEF Expire
  <2>2. expired' \subseteq grants
    BY <2>1 DEF Exchanges, Granted
  <2>3. QED
    BY <2>1, <2>2, StaysKeep, StayExchanges, BearersAdded
<1>3. ASSUME Stays, UNCHANGED oauthVars
      PROVE  Handlers' /\ Exchanges' /\ BearersStay
  <2>1. UNCHANGED <<codes, locked, tokens, grants>> /\ expired' \subseteq grants
    BY <1>3 DEF oauthVars, Exchanges, Granted
  <2>2. QED
    BY <1>3, <2>1, StaysKeep, StayExchanges, BearersAdded
<1>4. CASE Crash
  <2>1. tokens' = tokens
    BY <1>4 DEF Crash
  <2>2. QED
    BY <1>4, <2>1, CrashMoves, CrashExchanges, BearersAdded
<1>5. CASE UNCHANGED vars
  <2>1. Stays /\ UNCHANGED oauthVars
    BY <1>5 DEF vars, apiVars, Stays, oauthVars
  <2>2. QED
    BY <1>3, <2>1
<1>6. ASSUME NEW x, FilterExpires(x), UNCHANGED <<oauthVars, mediaVars>>
      PROVE  Stays /\ UNCHANGED oauthVars
  BY <1>6, FilterExpiresStays
<1>7. ASSUME NEW u, Process(u)
      PROVE  Stays /\ UNCHANGED oauthVars
  BY <1>7, ProcessStays DEF Process
<1>8. QED
  BY <1>1, <1>2, <1>3, <1>4, <1>5, <1>6, <1>7 DEF Next

---------------------------------------------------------------------------------
(***************************************************************************)
(* The user a handler acts for                                             *)
(***************************************************************************)
LEMMA OneBearer ==
  ASSUME NEW token, NEW u \in Bearer(token), Exchanges
  PROVE  Bearer(token) = {u} /\ u \in Users
<1>1. PICK t \in tokens : t.token = token /\ t.user = u /\ u # Nothing
  BY DEF Bearer
<1>2. u \in Users
  BY <1>1 DEF Exchanges, Tokens
<1>3. \A w \in tokens : w.token = token => w = t
  BY <1>1 DEF Exchanges, Tokens
<1>4. QED
  BY <1>1, <1>2, <1>3 DEF Bearer

\* Every step keeps a handler with the user of its token.
LEMMA NextBears ==
  ASSUME Handlers, Exchanges, Bears, [Next]_vars
  PROVE  Bears'
<1>1. Handlers' /\ Exchanges' /\ BearersStay
  BY NextExchanges
<1>2. plan' = plan => \A q \in plan.reqs : Begins(q) => held[q].user \in Users /\ Bearer(Req[q].token)' = {held[q].user}
  BY <1>1, ApiAssumption DEF Bears, BearersStay, Handlers
<1>3. ASSUME NEW r \in plan.reqs, Step(r)
      PROVE  Bears'
  <2>1. /\ Moves(r, Ends \ {"new"}) /\ plan' = plan
        /\ \A q \in plan.reqs \ {r} : pc'[q] = pc[q] /\ held'[q] = held[q]
    BY <1>3, StepMoves, OneMoves
  <2>2. SUFFICES ASSUME Begins(r)'
                 PROVE  held'[r].user \in Users /\ Bearer(Req[r].token)' = {held'[r].user}
    BY <1>2, <2>1 DEF Bears, Begins
  <2>3. CASE OAuthStep(r)
    BY <2>2, <2>3, OAuthMoves DEF Moves, Begins
  <2>4. CASE bearer(r)
    <3>1. held'[r].user \in Bearer(Req[r].token)
      BY <2>2, <2>4, BearerMoves DEF Moves, Begins
    <3>2. Bearer(Req[r].token) = {held'[r].user} /\ held'[r].user \in Users
      BY <3>1, OneBearer
    <3>3. tokens' = tokens
      BY <2>4 DEF bearer, oauthVars
    <3>4. QED
      BY <3>2, <3>3 DEF Bearer
  <2>5. CASE MediaStep(r) \/ StatusStep(r)
    <3>1. KeepsUser(r) /\ (Begins(r) \/ pc'[r] = "answered")
      BY <2>5, MediaMoves, StatusMoves DEF Begins
    <3>2. QED
      BY <1>2, <2>1, <2>2, <3>1 DEF KeepsUser, Begins
  <2>6. CASE TimelineStep(r)
    <3>1. Req[r].op \notin {"public", "account"}
      BY <2>2, <2>6, TimelineMoves DEF Moves, Begins
    <3>2. KeepsUser(r) /\ Begins(r)
      BY <2>6, <3>1, TimelineMoves DEF Begins
    <3>3. QED
      BY <1>2, <2>1, <2>2, <3>2 DEF KeepsUser, Begins
  <2>7. QED
    BY <1>3, <2>3, <2>4, <2>5, <2>6 DEF Step
<1>4. ASSUME Stays
      PROVE  Bears'
  BY <1>2, <1>4 DEF Stays, Bears, Begins
<1>5. CASE Crash
  BY <1>5, CrashMoves DEF Bears, Begins
<1>6. ASSUME NEW c \in codes, Expire(c)
      PROVE  Stays
  BY <1>6, ExpireStays
<1>7. ASSUME NEW x, FilterExpires(x)
      PROVE  Stays
  BY <1>7, FilterExpiresStays
<1>8. ASSUME NEW u, Process(u)
      PROVE  Stays
  BY <1>8, ProcessStays
<1>9. CASE UNCHANGED vars
  BY <1>4, <1>9 DEF vars, apiVars, Stays
<1>10. QED
  BY <1>3, <1>4, <1>5, <1>6, <1>7, <1>8, <1>9 DEF Next

\* The steps that are not a handler's.
LEMMA NextCases ==
  ASSUME [Next]_vars
  PROVE  \/ \E r \in plan.reqs : Step(r)
         \/ Crash
         \/ \E u \in working : Process(u) /\ Stays /\ UNCHANGED <<statusVars, timelineVars>>
         \/ \E x \in DOMAIN filters : /\ FilterExpires(x) /\ Stays
                                      /\ UNCHANGED <<faults, mediaVars, statusVars, lists, members, read>>
         \/ Stays /\ UNCHANGED <<faults, mediaVars, statusVars, timelineVars>>
<1>1. ASSUME NEW c \in codes, Expire(c), UNCHANGED <<mediaVars, statusVars, timelineVars>>
      PROVE  Stays /\ UNCHANGED <<faults, mediaVars, statusVars, timelineVars>>
  BY <1>1, ExpireStays DEF Expire, apiVars
<1>2. ASSUME NEW x \in DOMAIN filters, FilterExpires(x), UNCHANGED <<oauthVars, mediaVars>>
      PROVE  Stays /\ UNCHANGED <<faults, mediaVars, statusVars, lists, members, read>>
  BY <1>2, FilterExpiresStays DEF FilterExpires, apiVars
<1>3. CASE UNCHANGED vars
  BY <1>3 DEF vars, apiVars, Stays
<1>4. QED
  BY <1>1, <1>2, <1>3, ProcessStays DEF Next

\* A handler that has begun has begun for good, and one that has answered has answered.
BegunGrow ==
  /\ plan' = plan /\ Begun \subseteq Begun'
  /\ \A q \in plan.reqs : pc[q] = "answered" => pc'[q] = "answered"

LEMMA NextBegunGrow ==
  ASSUME Handlers, [Next]_vars
  PROVE  BegunGrow /\ faults' \in Nat /\ (faults' = 0 => faults = 0)
<1>1. ASSUME NEW r \in plan.reqs, Step(r)
      PROVE  BegunGrow /\ faults' \in {faults, faults + 1}
  <2>1. Moves(r, Ends \ {"new"}) /\ pc[r] # "answered"
    BY <1>1, StepMoves
  <2>2. faults' \in {faults, faults + 1} /\ pc'[r] # "new"
    BY <2>1 DEF Moves
  <2>3. plan' = plan /\ \A q \in plan.reqs \ {r} : pc'[q] = pc[q]
    BY <2>1, OneMoves
  <2>4. \A q \in plan.reqs : pc[q] # "new" => pc'[q] # "new"
    BY <2>2, <2>3
  <2>5. QED
    BY <2>1, <2>2, <2>3, <2>4 DEF BegunGrow, Begun
<1>2. ASSUME Crash
      PROVE  BegunGrow /\ faults' \in {faults, faults + 1}
  BY <1>2, CrashMoves DEF BegunGrow, Begun
<1>3. ASSUME Stays
      PROVE  BegunGrow /\ faults' \in {faults, faults + 1}
  BY <1>3 DEF Stays, BegunGrow, Begun
<1>4. BegunGrow /\ faults' \in {faults, faults + 1}
  BY <1>1, <1>2, <1>3, NextCases, CrashMoves
<1>5. QED
  BY <1>4 DEF Handlers

---------------------------------------------------------------------------------
(***************************************************************************)
(* Uploads                                                                 *)
(***************************************************************************)
\* Nothing of the uploads changes when the handler of something else moves, or the
\* handler of an upload finds its user.
LEMMA QuietFiles ==
  ASSUME NEW r \in plan.reqs, Handlers, Files, BearersStay, Moves(r, Ends \ {"new"}), UNCHANGED mediaVars,
         Req[r].op # "upload" \/ (pc[r] = "new" /\ pc'[r] \in {"begin", "answered"})
  PROVE  Files'
<1>1. /\ plan' = plan /\ Uploads' = Uploads
      /\ \A q \in plan.reqs \ {r} : pc'[q] = pc[q]
  BY OneMoves DEF Uploads, OfOp
<1>2. UNCHANGED <<tmp, blobs, media, working>>
  BY DEF mediaVars
<1>3. \A u \in Uploads : u \in plan.reqs /\ u \in Requests /\ Req[u].op = "upload"
  BY ApiAssumption DEF Handlers, Uploads, OfOp
<1>4. \A u \in Uploads : media[u] # Nothing => Bearer(Req[u].token)' = {media[u].owner}
  BY <1>3 DEF Files, BearersStay
<1>5. \A u \in Uploads : \/ pc'[u] = pc[u]
                         \/ u = r /\ pc[r] = "new" /\ pc'[r] \in {"begin", "answered"}
  BY <1>1, <1>3
<1>6. QED
  BY <1>1, <1>2, <1>4, <1>5 DEF Files

\* The owner of a row is the user of the token of its upload.
LEMMA OwnersStay ==
  ASSUME Handlers, Files, BearersStay
  PROVE  \A u \in Uploads : /\ u \in plan.reqs /\ u \in Requests
                            /\ media[u] # Nothing => Bearer(Req[u].token)' = {media[u].owner}
BY ApiAssumption DEF Handlers, Uploads, OfOp, Files, BearersStay

\* The handlers of uploads keep files and rows in order.
LEMMA MediaFiles ==
  ASSUME NEW r \in plan.reqs, Handlers, Bears, Files, BearersStay, MediaStep(r)
  PROVE  Files'
<1>1. /\ Moves(r, Ends \ {"new"})
      /\ pc[r] \in {"begin", "rename", "insert"}
      /\ pc[r] \in {"rename", "insert"} => Req[r].op = "upload"
  BY MediaMoves DEF Moves, Ends, Handlers, Places
<1>2. /\ plan' = plan /\ Uploads' = Uploads
      /\ \A q \in plan.reqs \ {r} : pc'[q] = pc[q]
  BY <1>1, OneMoves DEF Uploads, OfOp
<1>3. \A u \in Uploads : /\ u \in plan.reqs
                         /\ media[u] # Nothing => Bearer(Req[u].token)' = {media[u].owner}
  BY OwnersStay
<1>4. Req[r].op = "upload" => r \in Uploads
  BY DEF Uploads, OfOp
<1>5. CASE handleMediaPost(r)
  <2>1. /\ pc[r] = "begin" /\ Req[r].op = "upload" /\ UNCHANGED <<blobs, media, working>>
        /\ \/ tmp' = tmp /\ pc'[r] = "answered"
           \/ tmp' = tmp \cup {r} /\ pc'[r] = "rename"
    BY <1>5, Going, Replying DEF handleMediaPost, At
  <2>2. QED
    BY <1>2, <1>3, <1>4, <2>1 DEF Files
<1>6. CASE StoreBlob(r)
  <2>1. /\ pc[r] = "rename" /\ Req[r].op = "upload" /\ UNCHANGED <<media, working>>
        /\ tmp' = tmp \ {r} /\ blobs' = blobs \cup {r} /\ pc'[r] = "insert"
    BY <1>6, Going DEF StoreBlob, At
  <2>2. QED
    BY <1>2, <1>3, <1>4, <2>1 DEF Files
<1>7. CASE InsertMastodonMedia(r)
  <2> DEFINE row == [owner |-> held[r].user, described |-> FALSE,
                     state |-> IF Req[r].async THEN "pending" ELSE "complete"]
  <2>1. /\ pc[r] = "insert" /\ Req[r].op = "upload" /\ UNCHANGED <<tmp, blobs>>
        /\ media' = [media EXCEPT ![r] = row] /\ working' \in {working, working \cup {r}} /\ pc'[r] = "answered"
    BY <1>7, Replying DEF InsertMastodonMedia, At
  <2>2. held[r].user \in Users /\ Bearer(Req[r].token) = {held[r].user}
    BY <2>1 DEF Bears, Begins
  <2>3. row \in MediaRows /\ row.owner = held[r].user
    BY <2>2 DEF MediaRows
  <2>4. row # Nothing
    BY <2>3, StatusAssumption
  <2>5. Bearer(Req[r].token)' = {held[r].user}
    BY <2>2, ApiAssumption DEF BearersStay, Handlers
  <2> HIDE DEF row
  <2>6. media' \in [Uploads -> MediaRows \cup {Nothing}] /\ \A u \in Uploads : media'[u] = IF u = r THEN row ELSE media[u]
    BY <1>4, <2>1, <2>3 DEF Files
  <2>7. QED
    BY <1>2, <1>3, <1>4, <2>1, <2>3, <2>4, <2>5, <2>6 DEF Files
<1>8. CASE putAPIMedia(r)
  <2> DEFINE u == Req[r].of
             row == [media[u] EXCEPT !.described = TRUE]
  <2>1. /\ pc[r] = "begin" /\ Req[r].op # "upload" /\ UNCHANGED <<tmp, blobs, working>>
        /\ \/ media' = media
           \/ Owns(held[r].user, u) /\ media' = [media EXCEPT ![u] = row]
    BY <1>8 DEF putAPIMedia, At
  <2>2. CASE media' = media
    BY <1>1, <2>1, <2>2, QuietFiles DEF mediaVars
  <2>3. CASE Owns(held[r].user, u) /\ media' = [media EXCEPT ![u] = row]
    <3>1. u \in Uploads /\ media[u] \in MediaRows
      BY <2>3 DEF Owns, Files
    <3>2. row \in MediaRows /\ row.owner = media[u].owner
      BY <3>1 DEF MediaRows
    <3>3. row # Nothing
      BY <3>2, StatusAssumption
    <3> HIDE DEF row
    <3>4. media' \in [Uploads -> MediaRows \cup {Nothing}] /\ \A v \in Uploads : media'[v] = IF v = u THEN row ELSE media[v]
      BY <2>3, <3>1, <3>2 DEF Files
    <3>5. \A v \in Uploads : v # r /\ pc'[v] = pc[v]
      BY <1>2, <1>3, <2>1 DEF Uploads, OfOp
    <3>6. \A v \in Uploads : media'[v] # Nothing => media[v] # Nothing /\ media'[v].owner = media[v].owner
      BY <2>3, <3>2, <3>4 DEF Owns
    <3>7. \A v \in Uploads : media[v] # Nothing => media'[v] # Nothing
      BY <3>3, <3>4
    <3> HIDE DEF u
    <3>8. QED
      BY <1>2, <1>3, <2>1, <3>4, <3>5, <3>6, <3>7 DEF Files
  <2>4. QED
    BY <2>1, <2>2, <2>3
<1>9. CASE getAPIMedia(r)
  BY <1>1, <1>9, QuietFiles DEF getAPIMedia, At
<1>10. CASE MediaFail(r)
  <2>1. /\ pc'[r] = "answered" /\ tmp' \in {tmp, tmp \ {r}} /\ UNCHANGED <<blobs, media, working>>
    BY <1>10, Replying DEF MediaFail
  <2>2. CASE Req[r].op = "upload"
    BY <1>2, <1>3, <1>4, <2>1, <2>2 DEF Files
  <2>3. CASE Req[r].op # "upload"
    <3>1. r \notin Uploads
      BY <2>3 DEF Uploads, OfOp
    <3>2. tmp' = tmp
      BY <2>1, <3>1 DEF Files
    <3>3. QED
      BY <1>1, <2>1, <2>3, <3>2, QuietFiles DEF mediaVars
  <2>4. QED
    BY <2>2, <2>3
<1>11. QED
  BY <1>5, <1>6, <1>7, <1>8, <1>9, <1>10 DEF MediaStep

\* The goroutine of an upload completes its row.
LEMMA ProcessFiles ==
  ASSUME NEW u \in working, Handlers, Files, BearersStay, Process(u)
  PROVE  Files'
<1> DEFINE row == [media[u] EXCEPT !.state = "complete"]
<1>1. /\ plan' = plan /\ pc' = pc /\ UNCHANGED <<tmp, blobs>> /\ working' = working \ {u}
      /\ media' = media \/ media' = [media EXCEPT ![u] = row]
  BY DEF Process, Fault
<1>2. u \in Uploads /\ media[u] \in MediaRows /\ media[u] # Nothing
  BY DEF Files
<1>3. row \in MediaRows /\ row.owner = media[u].owner
  BY <1>2 DEF MediaRows
<1>4. row # Nothing
  BY <1>3, StatusAssumption
<1> HIDE DEF row
<1>5. media' \in [Uploads -> MediaRows \cup {Nothing}] /\ \A v \in Uploads : media'[v] = media[v] \/ (v = u /\ media'[v] = row)
  BY <1>1, <1>2, <1>3 DEF Files
<1>6. \A v \in Uploads : /\ v \in plan.reqs
                         /\ media[v] # Nothing => Bearer(Req[v].token)' = {media[v].owner}
  BY OwnersStay
<1>7. Uploads' = Uploads
  BY <1>1 DEF Uploads, OfOp
<1>8. QED
  BY <1>1, <1>2, <1>3, <1>4, <1>5, <1>6, <1>7 DEF Files

\* Every step keeps the uploads in order.
LEMMA NextFiles ==
  ASSUME Handlers, Exchanges, Bears, Files, [Next]_vars
  PROVE  Files'
<1>1. BearersStay
  BY NextExchanges
<1>2. ASSUME NEW r \in plan.reqs, Step(r)
      PROVE  Files'
  <2>1. Moves(r, Ends \ {"new"})
    BY <1>2, StepMoves
  <2>2. CASE OAuthStep(r) /\ UNCHANGED mediaVars
    BY <1>1, <2>1, <2>2, OAuthMoves, QuietFiles DEF Open
  <2>3. CASE bearer(r)
    BY <1>1, <2>1, <2>3, BearerMoves, QuietFiles DEF bearer, Moves
  <2>4. CASE StatusStep(r)
    <3>1. UNCHANGED mediaVars
      BY <2>4 DEF StatusStep, postStatuses, deleteStatus, SoftDeleteActivityForActor, Social, UndoSocial,
                  Bookmark, PublishLocalActivityBytes, getStatus, StatusFail, HandleFollow
    <3>2. Req[r].op # "upload"
      BY <2>4, StatusMoves DEF Edging, Undoing
    <3>3. QED
      BY <1>1, <2>1, <3>1, <3>2, QuietFiles
  <2>5. CASE TimelineStep(r) /\ UNCHANGED mediaVars
    BY <1>1, <2>1, <2>5, TimelineMoves, QuietFiles DEF Reads
  <2>6. QED
    BY <1>1, <1>2, <2>2, <2>3, <2>4, <2>5, MediaFiles DEF Step
<1>3. CASE Crash
  <2>1. /\ plan' = plan /\ \A r \in plan.reqs : pc'[r] = IF pc[r] = "new" THEN "new" ELSE "answered"
        /\ UNCHANGED <<tmp, blobs, media>> /\ working' = {}
    BY <1>3, CrashMoves DEF Crash
  <2>2. Uploads' = Uploads
    BY <2>1 DEF Uploads, OfOp
  <2>3. \A v \in Uploads : /\ v \in plan.reqs
                           /\ media[v] # Nothing => Bearer(Req[v].token)' = {media[v].owner}
    BY <1>1, OwnersStay
  <2>4. QED
    BY <2>1, <2>2, <2>3 DEF Files
<1>4. ASSUME Stays, UNCHANGED mediaVars
      PROVE  Files'
  <2>1. Uploads' = Uploads /\ pc' = pc
    BY <1>4 DEF Uploads, OfOp, Stays
  <2>2. \A v \in Uploads : media[v] # Nothing => Bearer(Req[v].token)' = {media[v].owner}
    BY <1>1, OwnersStay
  <2>3. QED
    BY <1>4, <2>1, <2>2 DEF Files, mediaVars
<1>5. QED
  BY <1>1, <1>2, <1>3, <1>4, ProcessFiles, NextCases

---------------------------------------------------------------------------------
(***************************************************************************)
(* What is published                                                       *)
(***************************************************************************)
\* A row of an upload keeps its owner, and stays complete once it is.
MediaGrow ==
  \A u \in Uploads : media[u] # Nothing =>
    /\ media'[u] # Nothing /\ media'[u].owner = media[u].owner
    /\ media[u].state = "complete" => media'[u].state = "complete"

\* An activity that was published stays as it is.
ActivitiesGrow ==
  /\ DOMAIN activities' = DOMAIN activities
  /\ \A x \in DOMAIN activities : activities[x] # Nothing => activities'[x] = activities[x]

LEMMA NextMediaGrow ==
  ASSUME Files, [Next]_vars
  PROVE  MediaGrow
<1>1. ASSUME media' = media
      PROVE  MediaGrow
  BY <1>1 DEF MediaGrow
<1>2. ASSUME NEW u \in Uploads, media[u] # Nothing,
             NEW row \in MediaRows, row.owner = media[u].owner,
             media[u].state = "complete" => row.state = "complete",
             media' = [media EXCEPT ![u] = row]
      PROVE  MediaGrow
  <2>1. row # Nothing
    BY StatusAssumption
  <2>2. QED
    BY <1>2, <2>1 DEF MediaGrow, Files
<1>3. ASSUME NEW r \in plan.reqs, MediaStep(r)
      PROVE  MediaGrow
  <2>1. CASE handleMediaPost(r) \/ StoreBlob(r) \/ getAPIMedia(r) \/ MediaFail(r)
    BY <1>1, <2>1 DEF handleMediaPost, StoreBlob, getAPIMedia, MediaFail, mediaVars
  <2>2. CASE InsertMastodonMedia(r)
    <3>1. r \in Uploads /\ media[r] = Nothing
      BY <2>2 DEF InsertMastodonMedia, At, Uploads, OfOp, Files
    <3>2. \A u \in Uploads \ {r} : media'[u] = media[u]
      BY <2>2 DEF InsertMastodonMedia, Files
    <3>3. QED
      BY <3>1, <3>2 DEF MediaGrow
  <2>3. CASE putAPIMedia(r)
    <3> DEFINE u   == Req[r].of
               row == [media[u] EXCEPT !.described = TRUE]
    <3>1. media' = media \/ (Owns(held[r].user, u) /\ media' = [media EXCEPT ![u] = row])
      BY <2>3 DEF putAPIMedia
    <3>2. ASSUME Owns(held[r].user, u)
          PROVE  /\ u \in Uploads /\ media[u] # Nothing /\ row \in MediaRows /\ row.owner = media[u].owner
                 /\ media[u].state = "complete" => row.state = "complete"
      <4>1. u \in Uploads /\ media[u] # Nothing /\ media[u] \in MediaRows
        BY <3>2 DEF Owns, Files
      <4>2. QED
        BY <4>1 DEF MediaRows
    <3> HIDE DEF row, u
    <3>3. QED
      BY <1>1, <1>2, <3>1, <3>2
  <2>4. QED
    BY <1>3, <2>1, <2>2, <2>3 DEF MediaStep
<1>4. ASSUME NEW u \in working, Process(u)
      PROVE  MediaGrow
  <2> DEFINE row == [media[u] EXCEPT !.state = "complete"]
  <2>1. media' = media \/ media' = [media EXCEPT ![u] = row]
    BY <1>4 DEF Process
  <2>2. /\ u \in Uploads /\ media[u] # Nothing /\ row \in MediaRows /\ row.owner = media[u].owner
        /\ media[u].state = "complete" => row.state = "complete"
    BY DEF Files, MediaRows
  <2> HIDE DEF row
  <2>3. QED
    BY <1>1, <1>2, <2>1, <2>2
<1>5. ASSUME NEW r \in plan.reqs, \/ OAuthStep(r) /\ UNCHANGED mediaVars
                                  \/ bearer(r) \/ StatusStep(r)
                                  \/ TimelineStep(r) /\ UNCHANGED mediaVars
      PROVE  media' = media
  BY <1>5 DEF mediaVars, bearer, StatusStep, postStatuses, deleteStatus, SoftDeleteActivityForActor, Social,
              UndoSocial, Bookmark, PublishLocalActivityBytes, getStatus, StatusFail, HandleFollow
<1>6. CASE Crash
  BY <1>1, <1>6 DEF Crash
<1>7. ASSUME NEW r \in plan.reqs, Step(r)
      PROVE  MediaGrow
  BY <1>1, <1>3, <1>5, <1>7 DEF Step
<1>8. QED
  BY <1>1, <1>4, <1>6, <1>7, NextCases DEF mediaVars

(***************************************************************************)
(* Who follows                                                             *)
(***************************************************************************)
\* Who follows a user or has ceased to does so for good.
ReachGrow == \A u \in Users : Left(u) \subseteq Left(u)' /\ Reached(u) \subseteq Reached(u)'

LEMMA NextReachGrow ==
  ASSUME Handlers, Audience, [Next]_vars
  PROVE  Audience' /\ ReachGrow
<1>1. plan' = plan /\ Begun \subseteq Begun' /\ OfOp("unfollow")' = OfOp("unfollow")
  BY NextBegunGrow DEF BegunGrow, OfOp
<1>2. \A u : Left(u) \subseteq Left(u)'
  BY <1>1 DEF Left
<1>3. ASSUME followers' = followers
      PROVE  Audience' /\ ReachGrow
  BY <1>2, <1>3 DEF ReachGrow, Reached, Audience
<1>4. ASSUME NEW r \in plan.reqs, HandleFollow(r)
      PROVE  Audience' /\ ReachGrow
  <2> DEFINE u == Req[r].of
  <2>1. r \in Requests /\ Req[r].op \in {"follow", "unfollow"} /\ pc'[r] = "answered"
    BY <1>4, ApiAssumption, Replying DEF HandleFollow, Handlers
  <2>2. u \in Users
    BY <2>1, StatusAssumption
  <2>3. \A x \in Users \ {u} : followers'[x] = followers[x]
    BY <1>4 DEF HandleFollow, Audience
  <2>4. CASE Req[r].op = "follow"
    <3>1. followers' = [followers EXCEPT ![u] = @ \cup {Req[r].actor}]
      BY <1>4, <2>4 DEF HandleFollow
    <3>2. Req[r].actor \in Named
      <4>1. r \in {x \in Requests : Req[x].op = "follow"}
        BY <2>1, <2>4
      <4>2. QED
        BY <4>1 DEF Named
    <3>3. Audience'
      BY <2>2, <3>1, <3>2 DEF Audience
    <3>4. \A x \in Users : followers[x] \subseteq followers'[x]
      BY <2>2, <2>3, <3>1 DEF Audience
    <3>5. QED
      BY <1>2, <3>3, <3>4 DEF ReachGrow, Reached
  <2>5. CASE Req[r].op = "unfollow"
    <3>1. followers' = [followers EXCEPT ![u] = @ \ {Req[r].actor}]
      BY <1>4, <2>5 DEF HandleFollow
    <3>2. Audience'
      BY <2>2, <3>1 DEF Audience
    <3>3. Req[r].actor \in Left(u)'
      BY <1>1, <2>1, <2>5 DEF Left, OfOp, Begun
    <3>4. \A x \in Users : followers[x] \subseteq followers'[x] \cup Left(x)'
      BY <2>2, <2>3, <3>1, <3>3 DEF Audience
    <3>5. QED
      BY <1>2, <3>2, <3>4 DEF ReachGrow, Reached
  <2>6. QED
    BY <2>1, <2>4, <2>5
<1>5. ASSUME NEW r \in plan.reqs, StatusStep(r), ~HandleFollow(r)
      PROVE  followers' = followers
  BY <1>5 DEF StatusStep, postStatuses, deleteStatus, SoftDeleteActivityForActor, Social, UndoSocial,
              Bookmark, PublishLocalActivityBytes, getStatus, StatusFail, statusVars
<1>6. ASSUME NEW r \in plan.reqs, Step(r), ~StatusStep(r)
      PROVE  followers' = followers
  BY <1>6, TimelineAlone DEF Step, statusVars
<1>7. CASE Crash
  BY <1>3, <1>7 DEF Crash, statusVars
<1>8. QED
  BY <1>3, <1>4, <1>5, <1>6, <1>7, NextCases DEF statusVars

\* What fits a request goes on fitting it.
LEMMA FitsStays ==
  ASSUME Handlers, BearersStay, MediaGrow, ReachGrow, ActivitiesGrow, plan' = plan,
         DOMAIN activities = plan.reqs \cup Received,
         NEW r \in plan.reqs, NEW x, Fits(r, x)
  PROVE  Fits(r, x)'
<1>1. Uploads' = Uploads /\ Statuses' = Statuses /\ r \in Requests
  BY ApiAssumption DEF Uploads, Statuses, OfOp, Handlers
<1>2. Bearer(Req[r].token)' = {x.actor}
  BY <1>1 DEF Fits, BearersStay
<1>3. Req[r].op = "post" => CreateFits(r, x)'
  BY <1>1 DEF Fits, CreateFits, MediaGrow, ReachGrow
<1>4. Req[r].op = "delete" => DeleteFits(r, x)'
  BY DEF Fits, DeleteFits, ActivitiesGrow, ReachGrow, IsNote, Exists
<1>5. Req[r].op \in Edging => EdgeFits(r, x)'
  BY <1>1 DEF Fits, EdgeFits
<1>6. Req[r].op \in Undoing => UndoFits(r, x)'
  <2>1. SUFFICES ASSUME UndoFits(r, x)
                 PROVE  UndoFits(r, x)'
    BY DEF Fits
  <2>2. x.of \in plan.reqs /\ activities[x.of] # Nothing
    BY <2>1 DEF UndoFits
  <2>3. QED
    BY <2>1, <2>2 DEF UndoFits, ActivitiesGrow
<1>7. QED
  BY <1>2, <1>3, <1>4, <1>5, <1>6 DEF Fits

\* A note is a status.
LEMMA NotesAreStatuses ==
  ASSUME Handlers, Rows, NEW x, IsNote(x)
  PROVE  x \in Statuses /\ x \in Requests \cup Received
<1>1. x \in plan.reqs \cup Received /\ activities[x] # Nothing /\ activities[x].kind = "Create"
  BY DEF IsNote, Exists, Rows
<1>2. CASE x \in Received
  BY <1>2 DEF Statuses
<1>3. CASE x \in plan.reqs
  <2>1. Fits(x, activities[x]) /\ Req[x].op \in {"post", "delete"} \cup Edging \cup Undoing
    BY <1>1, <1>3 DEF Rows
  <2>2. Req[x].op = "post"
    BY <1>1, <2>1 DEF Fits, DeleteFits, EdgeFits, UndoFits, KindOf
  <2>3. QED
    BY <1>3, <2>2, ApiAssumption DEF Statuses, OfOp, Handlers
<1>4. QED
  BY <1>1, <1>2, <1>3

\* The activities of every kind are rows.
LEMMA ActivityIsRow ==
  ASSUME Audience, NEW kind \in {"Create", "Delete", "Like", "Announce", "Undo"}, NEW user \in Users,
         NEW of \in Requests \cup Received \cup {Nothing}, NEW m \in SUBSET Requests,
         NEW audience \in SUBSET (Named \cup {"public", "followers"})
  PROVE  /\ Activity(kind, user, of, audience, m) \in ActivityRows
         /\ Activity(kind, user, of, audience, m).kind = kind
         /\ Activity(kind, user, of, audience, m).actor = user
         /\ Activity(kind, user, of, audience, m).of = of
         /\ Activity(kind, user, of, audience, m).media = m
         /\ Activity(kind, user, of, audience, m).to =
              resolveDeliveryInboxes(appendFollowerCCForPublicPosts(user, audience))
<1> DEFINE to == resolveDeliveryInboxes(appendFollowerCCForPublicPosts(user, audience))
<1>1. user \in Named /\ followers[user] \subseteq Named
  BY DEF Named, Audience
<1>2. to \in SUBSET Named
  BY <1>1 DEF resolveDeliveryInboxes, appendFollowerCCForPublicPosts
<1> HIDE DEF to
<1>3. Activity(kind, user, of, audience, m) =
        [kind |-> kind, actor |-> user, of |-> of, audience |-> audience, media |-> m, to |-> to]
  BY DEF Activity, to
<1>4. QED
  BY <1>1, <1>2, <1>3 DEF ActivityRows, to

\* Nothing of the rows changes when a handler moves that does not publish.
LEMMA QuietRows ==
  ASSUME NEW r \in plan.reqs, Handlers, Rows, BearersStay, MediaGrow, ReachGrow, Moves(r, Ends \ {"new"}),
         activities' = activities, bookmarks' \subseteq Users \X Statuses,
         pc[r] # "answered", pc[r] = "remove" => pc'[r] = "answered", pc'[r] \notin {"publish", "remove"}
  PROVE  Rows'
<1>1. /\ plan' = plan /\ Statuses' = Statuses
      /\ \A q \in plan.reqs \ {r} : pc'[q] = pc[q] /\ held'[q] = held[q]
  BY OneMoves DEF Statuses, OfOp
<1>2. ActivitiesGrow /\ DOMAIN activities = plan.reqs \cup Received
  BY DEF ActivitiesGrow, Rows
<1>3. \A q \in plan.reqs : \A x : Fits(q, x) => Fits(q, x)'
  BY <1>1, <1>2, FitsStays
<1>4. \A q \in plan.reqs : \A x \in {activities'[q]} \ {Nothing} :
        /\ pc'[q] \in {"remove", "answered"}
        /\ Req[q].op \in {"post", "delete"} \cup Edging \cup Undoing
        /\ Fits(q, x)'
  BY <1>1, <1>3 DEF Rows
<1>5. \A q \in plan.reqs : pc'[q] = "publish" => \A x \in {held'[q].act} :
        /\ Fits(q, x)' /\ x.actor = held'[q].user
        /\ Req[q].op \notin {"post", "delete"} => held'[q].code \in {200, 404}
  BY <1>1, <1>3 DEF Rows
<1>6. QED
  BY <1>1, <1>4, <1>5 DEF Rows

\* A handler that has checked its request has what it will publish in hand.
LEMMA HoldRows ==
  ASSUME NEW r \in plan.reqs, Handlers, Rows, BearersStay, MediaGrow, ReachGrow, Moves(r, Ends \ {"new"}),
         activities' = activities, bookmarks' = bookmarks,
         pc[r] = "begin", pc'[r] = "publish",
         Fits(r, held'[r].act), held'[r].act.actor = held'[r].user,
         Req[r].op \notin {"post", "delete"} => held'[r].code \in {200, 404}
  PROVE  Rows'
<1>1. /\ plan' = plan /\ Statuses' = Statuses
      /\ \A q \in plan.reqs \ {r} : pc'[q] = pc[q] /\ held'[q] = held[q]
  BY OneMoves DEF Statuses, OfOp
<1>2. ActivitiesGrow /\ DOMAIN activities = plan.reqs \cup Received
  BY DEF ActivitiesGrow, Rows
<1>3. \A q \in plan.reqs : \A x : Fits(q, x) => Fits(q, x)'
  BY <1>1, <1>2, FitsStays
<1>4. \A q \in plan.reqs : \A x \in {activities'[q]} \ {Nothing} :
        /\ pc'[q] \in {"remove", "answered"}
        /\ Req[q].op \in {"post", "delete"} \cup Edging \cup Undoing
        /\ Fits(q, x)'
  BY <1>1, <1>3 DEF Rows
<1>5. \A q \in plan.reqs : pc'[q] = "publish" => \A x \in {held'[q].act} :
        /\ Fits(q, x)' /\ x.actor = held'[q].user
        /\ Req[q].op \notin {"post", "delete"} => held'[q].code \in {200, 404}
  BY <1>1, <1>3 DEF Rows
<1>6. QED
  BY <1>1, <1>4, <1>5 DEF Rows

\* What was in hand is published.
LEMMA PublishRows ==
  ASSUME NEW r \in plan.reqs, Handlers, Rows, BearersStay, MediaGrow, ReachGrow, PublishLocalActivityBytes(r)
  PROVE  /\ Rows' /\ ActivitiesGrow /\ Moves(r, Ends \ {"new"})
         /\ activities[r] = Nothing /\ Fits(r, held[r].act)
         /\ pc'[r] \in {"remove", "answered"}
<1>1. StatusStep(r)
  BY DEF StatusStep
<1>2. Moves(r, Ends \ {"new"})
  BY <1>1, StatusMoves DEF Moves, Ends
<1>3. /\ plan' = plan /\ Statuses' = Statuses
      /\ \A q \in plan.reqs \ {r} : pc'[q] = pc[q] /\ held'[q] = held[q]
  BY <1>2, OneMoves DEF Statuses, OfOp
<1>4. PICK a0 : a0 = held[r].act
  OBVIOUS
<1>5. pc[r] = "publish" /\ activities' = [activities EXCEPT ![r] = a0] /\ bookmarks' = bookmarks
  BY <1>4 DEF PublishLocalActivityBytes, persistOutboxAndEnqueue
<1>6. pc'[r] \in {"remove", "answered"}
  BY Going, Replying DEF PublishLocalActivityBytes, Done
<1>7. activities[r] = Nothing /\ Fits(r, a0) /\ Req[r].op \in {"post", "delete"} \cup Edging \cup Undoing
  <2>1. Req[r].op \in {"post", "delete"} \cup Edging \cup Undoing
    BY <1>5 DEF Handlers, Places
  <2>2. Fits(r, a0)
    BY <1>4, <1>5 DEF Rows
  <2>3. activities[r] = Nothing
    BY <1>5 DEF Rows
  <2>4. QED
    BY <2>1, <2>2, <2>3
<1>8. a0 \in ActivityRows /\ a0 # Nothing
  BY <1>7, StatusAssumption DEF Fits
<1>9. DOMAIN activities = plan.reqs \cup Received /\ r \in DOMAIN activities
  BY DEF Rows
<1>10. ActivitiesGrow
  BY <1>5, <1>7, <1>9 DEF ActivitiesGrow
<1>11. \A q \in plan.reqs : \A x : Fits(q, x) => Fits(q, x)'
  BY <1>3, <1>9, <1>10, FitsStays
<1>12. \A q \in plan.reqs : \A x \in {activities'[q]} \ {Nothing} :
        /\ pc'[q] \in {"remove", "answered"}
        /\ Req[q].op \in {"post", "delete"} \cup Edging \cup Undoing
        /\ Fits(q, x)'
  <2> SUFFICES ASSUME NEW q \in plan.reqs, NEW x \in {activities'[q]} \ {Nothing}
               PROVE  /\ pc'[q] \in {"remove", "answered"}
                      /\ Req[q].op \in {"post", "delete"} \cup Edging \cup Undoing
                      /\ Fits(q, x)'
    OBVIOUS
  <2>1. CASE q = r
    BY <1>5, <1>6, <1>7, <1>9, <1>11, <2>1
  <2>2. CASE q # r
    <3>1. activities'[q] = activities[q] /\ pc'[q] = pc[q]
      BY <1>3, <1>5, <1>9, <2>2
    <3>2. QED
      BY <1>11, <3>1 DEF Rows
  <2>3. QED
    BY <2>1, <2>2
<1>13. \A q \in plan.reqs : pc'[q] = "publish" => \A x \in {held'[q].act} :
        /\ Fits(q, x)' /\ x.actor = held'[q].user
        /\ Req[q].op \notin {"post", "delete"} => held'[q].code \in {200, 404}
  BY <1>3, <1>6, <1>11 DEF Rows
<1>14. activities' \in [plan'.reqs \cup Received -> ActivityRows \cup {Nothing}]
  BY <1>3, <1>5, <1>8 DEF Rows
<1>15. \A x \in Received : activities'[x] # Nothing /\ activities'[x].kind = "Create" /\ activities'[x].actor = By[x]
  BY <1>9, <1>10 DEF Rows, ActivitiesGrow
<1>16. \A q \in plan'.reqs : pc'[q] = "remove" => activities'[q] # Nothing
  BY <1>3, <1>5, <1>8, <1>9 DEF Rows
<1>17. bookmarks' \subseteq Users \X Statuses'
  BY <1>3, <1>5 DEF Rows
<1>18. QED
  BY <1>2, <1>3, <1>4, <1>6, <1>7, <1>10, <1>12, <1>13, <1>14, <1>15, <1>16, <1>17 DEF Rows

\* A status that is about to be published has passed the checks of postStatuses.
LEMMA PostHolds ==
  ASSUME NEW r \in plan.reqs, Handlers, Bears, Audience, Rows, postStatuses(r), pc'[r] # "answered"
  PROVE  /\ pc[r] = "begin" /\ pc'[r] = "publish"
         /\ Fits(r, held'[r].act) /\ held'[r].act.actor = held'[r].user
         /\ Req[r].op \in {"post", "delete"}
<1>1. PICK user : user = held[r].user
  OBVIOUS
<1>2. /\ pc[r] = "begin" /\ Req[r].op = "post"
      /\ Req[r].visibility \in {"public", "unlisted", "private", "direct"}
      /\ ~BadMedia(r)
      /\ Goto(r, "publish", [user |-> user, act |-> Activity("Create", user, Req[r].of, Addressing(r), Req[r].media)])
  BY <1>1, Replying DEF postStatuses, At
<1>3. user \in Users /\ Bearer(Req[r].token) = {user} /\ r \in Requests
  BY <1>1, <1>2, ApiAssumption DEF Bears, Begins, Handlers
<1>4. Req[r].of \in Requests \cup Received \cup {Nothing} /\ Req[r].media \in SUBSET Requests
  BY <1>2, <1>3, StatusAssumption
<1>5. Addressing(r) \in SUBSET (Named \cup {"public", "followers"})
  <2>1. Req[r].direct \subseteq Named
    <3>1. r \in {x \in Requests : Req[x].op = "post"}
      BY <1>2, <1>3
    <3>2. QED
      BY <3>1 DEF Named
  <2>2. Addressing(r) \in {{"public", "followers"}, {"followers"}, Req[r].direct}
    BY DEF Addressing
  <2>3. QED
    BY <2>1, <2>2
<1> DEFINE x == Activity("Create", user, Req[r].of, Addressing(r), Req[r].media)
<1>6. /\ x \in ActivityRows /\ x.kind = "Create" /\ x.actor = user /\ x.media = Req[r].media
      /\ x.to = resolveDeliveryInboxes(appendFollowerCCForPublicPosts(user, Addressing(r)))
  <2> DEFINE audience == Addressing(r)
             of       == Req[r].of
             m        == Req[r].media
  <2>1. audience \in SUBSET (Named \cup {"public", "followers"}) /\ of \in Requests \cup Received \cup {Nothing}
        /\ m \in SUBSET Requests
    BY <1>4, <1>5
  <2> HIDE DEF audience, of, m
  <2>2. /\ Activity("Create", user, of, audience, m) \in ActivityRows
        /\ Activity("Create", user, of, audience, m).kind = "Create"
        /\ Activity("Create", user, of, audience, m).actor = user
        /\ Activity("Create", user, of, audience, m).media = m
        /\ Activity("Create", user, of, audience, m).to =
             resolveDeliveryInboxes(appendFollowerCCForPublicPosts(user, audience))
    BY <1>3, <2>1, ActivityIsRow
  <2>3. QED
    BY <2>2 DEF audience, of, m
<1> HIDE DEF x
<1>7. CreateFits(r, x)
  <2>1. x.to \cap ({"public", "followers"} \cup Users) = {}
    BY <1>6 DEF resolveDeliveryInboxes
  <2>2. Req[r].visibility = "direct" \/ x.to \subseteq followers[user]
    BY <1>2, <1>6 DEF resolveDeliveryInboxes, appendFollowerCCForPublicPosts, Addressing
  <2>3. QED
    BY <1>1, <1>2, <1>6, <2>1, <2>2 DEF CreateFits, Reached, BadMedia, Owns
<1>8. Fits(r, x)
  BY <1>2, <1>3, <1>6, <1>7 DEF Fits, Edging, Undoing
<1>9. pc'[r] = "publish" /\ held'[r] = [user |-> user, act |-> x]
  BY <1>2, Going DEF x
<1>10. held'[r].act = x /\ held'[r].user = user
  BY <1>9
<1>11. QED
  BY <1>2, <1>6, <1>8, <1>9, <1>10

\* A Delete is for a status of the user that is there.
LEMMA DeleteHolds ==
  ASSUME NEW r \in plan.reqs, Handlers, Bears, Audience, Rows, deleteStatus(r), pc'[r] # "answered"
  PROVE  /\ pc[r] = "begin" /\ pc'[r] = "publish"
         /\ Fits(r, held'[r].act) /\ held'[r].act.actor = held'[r].user
         /\ Req[r].op \in {"post", "delete"}
<1>1. PICK user : user = held[r].user
  OBVIOUS
<1>2. /\ pc[r] = "begin" /\ Req[r].op = "delete"
      /\ IsNote(Req[r].of) /\ activities[Req[r].of].actor = user
      /\ Goto(r, "publish", [user |-> user, act |-> Activity("Delete", user, Req[r].of, {"public"}, {})])
  BY <1>1, Replying DEF deleteStatus, At
<1>3. user \in Users /\ Bearer(Req[r].token) = {user}
  BY <1>1, <1>2 DEF Bears, Begins
<1>4. Req[r].of \in Requests \cup Received \cup {Nothing}
  BY <1>2, NotesAreStatuses
<1> DEFINE x == Activity("Delete", user, Req[r].of, {"public"}, {})
<1>5. /\ x \in ActivityRows /\ x.kind = "Delete" /\ x.actor = user /\ x.of = Req[r].of
      /\ x.to = resolveDeliveryInboxes(appendFollowerCCForPublicPosts(user, {"public"}))
  <2>1. {"public"} \in SUBSET (Named \cup {"public", "followers"}) /\ {} \in SUBSET Requests
    OBVIOUS
  <2>2. QED
    BY <1>3, <1>4, <2>1, ActivityIsRow
<1> HIDE DEF x
<1>6. DeleteFits(r, x)
  <2>1. PICK told : told = Req[r].of
    OBVIOUS
  <2>2. told \in plan.reqs /\ activities[told] # Nothing /\ activities[told].kind = "Create"
    BY <1>2, <1>3, <2>1, StatusAssumption DEF Rows, IsNote, Exists
  <2>3. CreateFits(told, activities[told])
    <3>1. Fits(told, activities[told]) /\ Req[told].op \in {"post", "delete"} \cup Edging \cup Undoing
      BY <2>2 DEF Rows
    <3>2. QED
      BY <2>2, <3>1 DEF Fits, DeleteFits, EdgeFits, UndoFits, KindOf
  <2>4. x.to = ({"public"} \cup followers[user]) \ ({"public", "followers"} \cup Users)
    BY <1>5 DEF resolveDeliveryInboxes, appendFollowerCCForPublicPosts
  <2>5. Req[told].visibility = "direct" \/ activities[told].to \subseteq x.to \cup Left(user)
    BY <1>2, <2>1, <2>3, <2>4 DEF CreateFits, Reached
  <2>6. QED
    BY <1>2, <1>5, <2>1, <2>5 DEF DeleteFits
<1>7. Fits(r, x)
  BY <1>2, <1>3, <1>5, <1>6 DEF Fits, Edging, Undoing
<1>8. pc'[r] = "publish" /\ held'[r] = [user |-> user, act |-> x]
  BY <1>2, Going DEF x
<1>9. held'[r].act = x /\ held'[r].user = user
  BY <1>8
<1>10. QED
  BY <1>2, <1>5, <1>7, <1>8, <1>9

\* A like or a boost is for a status.
LEMMA SocialHolds ==
  ASSUME NEW r \in plan.reqs, Handlers, Bears, Audience, Rows, Social(r), pc'[r] # "answered"
  PROVE  /\ pc[r] = "begin" /\ pc'[r] = "publish" /\ Req[r].op \in Edging
         /\ Fits(r, held'[r].act) /\ held'[r].act.actor = held'[r].user
         /\ held'[r].code \in {200, 404}
         /\ PairOf(held'[r].act) = KeyOf(r, held[r].user) /\ KeyOf(r, held[r].user) \in EdgeKeys
<1>1. PICK user : user = held[r].user
  OBVIOUS
<1>2. /\ pc[r] = "begin" /\ Req[r].op \in Edging
      /\ IsNote(Req[r].of)
      /\ Goto(r, "publish", [user |-> user, act |-> Activity(KindOf(r), user, Req[r].of, EdgeAudience(r), {}),
                             code |-> Present(r)])
  BY <1>1, Replying DEF Social, At, PublishEdge, Edging
<1>3. user \in Users /\ Bearer(Req[r].token) = {user}
  BY <1>1, <1>2 DEF Bears, Begins
<1>4. Req[r].of \in Requests \cup Received \cup {Nothing} /\ Req[r].of \in Statuses
  BY <1>2, NotesAreStatuses
<1>5. EdgeAudience(r) \in SUBSET (Named \cup {"public", "followers"})
  <2>1. activities[Req[r].of] \in ActivityRows
    BY <1>2 DEF IsNote, Exists, Rows
  <2>2. activities[Req[r].of].actor \in Named
    BY <2>1 DEF ActivityRows
  <2>3. QED
    BY <2>2 DEF EdgeAudience
<1> DEFINE x == Activity(KindOf(r), user, Req[r].of, EdgeAudience(r), {})
<1>6. x \in ActivityRows /\ x.kind = KindOf(r) /\ x.actor = user /\ x.of = Req[r].of
  <2>1. KindOf(r) \in {"Create", "Delete", "Like", "Announce", "Undo"} /\ {} \in SUBSET Requests
    BY DEF KindOf
  <2>2. QED
    BY <1>3, <1>4, <1>5, <2>1, ActivityIsRow
<1> HIDE DEF x
<1>7. EdgeFits(r, x)
  BY <1>4, <1>6 DEF EdgeFits
<1>8. Fits(r, x)
  BY <1>2, <1>3, <1>6, <1>7 DEF Fits, Edging, Undoing
<1>9. pc'[r] = "publish" /\ held'[r] = [user |-> user, act |-> x, code |-> Present(r)]
  BY <1>2, Going DEF x
<1>10. held'[r].act = x /\ held'[r].user = user /\ held'[r].code \in {200, 404}
  BY <1>9 DEF Present
<1>11. PairOf(x) = KeyOf(r, user) /\ KeyOf(r, user) \in EdgeKeys
  BY <1>3, <1>4, <1>6 DEF PairOf, KeyOf, EdgeKeys, KindOf
<1>12. QED
  BY <1>1, <1>2, <1>6, <1>8, <1>9, <1>10, <1>11

\* An Undo is for the activity of a row, which the user published.
LEMMA UndoHolds ==
  ASSUME NEW r \in plan.reqs, Handlers, Bears, Audience, Rows, Edges, UndoSocial(r), pc'[r] # "answered"
  PROVE  /\ pc[r] = "begin" /\ pc'[r] = "publish" /\ Req[r].op \in Undoing
         /\ Fits(r, held'[r].act) /\ held'[r].act.actor = held'[r].user
         /\ held'[r].code \in {200, 404}
<1>1. PICK user, of : user = held[r].user /\ of = edges[KeyOf(r, user)]
  OBVIOUS
<1>2. /\ pc[r] = "begin" /\ Req[r].op \in Undoing
      /\ IsNote(Req[r].of) /\ of # Nothing
      /\ Goto(r, "publish", [user |-> user, act |-> Activity("Undo", user, of, {}, {}), code |-> Present(r)])
  BY <1>1, Replying DEF UndoSocial, At, Undoing
<1>3. user \in Users /\ Bearer(Req[r].token) = {user}
  BY <1>1, <1>2 DEF Bears, Begins
<1>4. KeyOf(r, user) \in EdgeKeys /\ KeyOf(r, user)[2] = user
  BY <1>2, <1>3, NotesAreStatuses DEF KeyOf, EdgeKeys, KindOf
<1>5. /\ of \in plan.reqs /\ activities[of] # Nothing /\ activities[of].kind \in {"Like", "Announce"}
      /\ activities[of].actor = user
  BY <1>1, <1>2, <1>4 DEF Edges, SentEdge, Sent, PairOf
<1>6. of \in Requests \cup Received \cup {Nothing}
  BY <1>5, ApiAssumption DEF Handlers
<1> DEFINE x == Activity("Undo", user, of, {}, {})
<1>7. x \in ActivityRows /\ x.kind = "Undo" /\ x.actor = user /\ x.of = of
  <2>1. {} \in SUBSET (Named \cup {"public", "followers"}) /\ {} \in SUBSET Requests
    OBVIOUS
  <2>2. QED
    BY <1>3, <1>6, <2>1, ActivityIsRow
<1> HIDE DEF x
<1>8. UndoFits(r, x)
  BY <1>5, <1>7 DEF UndoFits
<1>9. Fits(r, x)
  BY <1>2, <1>3, <1>7, <1>8 DEF Fits, Edging, Undoing
<1>10. pc'[r] = "publish" /\ held'[r] = [user |-> user, act |-> x, code |-> Present(r)]
  BY <1>2, Going DEF x
<1>11. held'[r].act = x /\ held'[r].user = user /\ held'[r].code \in {200, 404}
  BY <1>10 DEF Present
<1>12. QED
  BY <1>2, <1>7, <1>9, <1>10, <1>11

\* The handlers of statuses keep what they have checked until they publish it.
LEMMA StatusRows ==
  ASSUME NEW r \in plan.reqs, Handlers, Bears, Audience, Rows, Edges, BearersStay, MediaGrow, ReachGrow, StatusStep(r)
  PROVE  Rows' /\ ActivitiesGrow
<1>1. Moves(r, Ends \ {"new"}) /\ pc[r] \in {"new", "begin", "publish", "remove"}
  BY StatusMoves DEF Moves, Ends
<1>2. ASSUME activities' = activities, bookmarks' \subseteq Users \X Statuses, pc'[r] = "answered"
      PROVE  Rows' /\ ActivitiesGrow
  BY <1>1, <1>2, QuietRows DEF ActivitiesGrow
<1>3. bookmarks \subseteq Users \X Statuses
  BY DEF Rows
<1>4. ASSUME activities' = activities, bookmarks' = bookmarks,
             pc[r] = "begin", pc'[r] = "publish",
             Fits(r, held'[r].act), held'[r].act.actor = held'[r].user,
             Req[r].op \notin {"post", "delete"} => held'[r].code \in {200, 404}
      PROVE  Rows' /\ ActivitiesGrow
  BY <1>1, <1>4, HoldRows DEF ActivitiesGrow
<1>5. CASE postStatuses(r)
  <2>1. activities' = activities /\ bookmarks' = bookmarks
    BY <1>5 DEF postStatuses, statusVars
  <2>2. QED
    BY <1>2, <1>3, <1>4, <1>5, <2>1, PostHolds
<1>6. CASE deleteStatus(r)
  <2>1. activities' = activities /\ bookmarks' = bookmarks
    BY <1>6 DEF deleteStatus, statusVars
  <2>2. QED
    BY <1>2, <1>3, <1>4, <1>6, <2>1, DeleteHolds
<1>7. CASE Social(r)
  <2>1. activities' = activities /\ bookmarks' = bookmarks
    BY <1>7 DEF Social
  <2>2. QED
    BY <1>2, <1>3, <1>4, <1>7, <2>1, SocialHolds
<1>8. CASE UndoSocial(r)
  <2>1. activities' = activities /\ bookmarks' = bookmarks
    BY <1>8 DEF UndoSocial, statusVars
  <2>2. QED
    BY <1>2, <1>3, <1>4, <1>8, <2>1, UndoHolds
<1>9. CASE SoftDeleteActivityForActor(r)
  <2>1. activities' = activities /\ bookmarks' = bookmarks /\ pc'[r] = "answered"
    BY <1>9, Replying DEF SoftDeleteActivityForActor, Done
  <2>2. QED
    BY <1>2, <1>3, <2>1
<1>10. CASE Bookmark(r)
  <2>1. activities' = activities /\ pc[r] = "begin" /\ pc'[r] = "answered"
    BY <1>10, Replying DEF Bookmark, Done, At
  <2>2. held[r].user \in Users
    BY <2>1 DEF Bears, Begins
  <2>3. \/ bookmarks' = bookmarks
        \/ /\ IsNote(Req[r].of)
           /\ \/ bookmarks' = bookmarks \cup {<<held[r].user, Req[r].of>>}
              \/ bookmarks' = bookmarks \ {<<held[r].user, Req[r].of>>}
    BY <1>10 DEF Bookmark
  <2>4. bookmarks' \subseteq Users \X Statuses
    BY <1>3, <2>2, <2>3, NotesAreStatuses
  <2>5. QED
    BY <1>2, <2>1, <2>4
<1>11. CASE PublishLocalActivityBytes(r)
  BY <1>11, PublishRows DEF PublishLocalActivityBytes
<1>12. CASE getStatus(r) \/ StatusFail(r) \/ HandleFollow(r)
  <2>1. activities' = activities /\ bookmarks' = bookmarks /\ pc'[r] = "answered"
    BY <1>12, Replying DEF getStatus, StatusFail, HandleFollow, statusVars
  <2>2. QED
    BY <1>2, <1>3, <2>1
<1>13. QED
  BY <1>5, <1>6, <1>7, <1>8, <1>9, <1>10, <1>11, <1>12 DEF StatusStep

\* Every step keeps the rows, and takes no activity back.
LEMMA NextRows ==
  ASSUME Handlers, Exchanges, Bears, Files, Audience, Rows, Edges, [Next]_vars
  PROVE  Rows' /\ ActivitiesGrow
<1>1. BearersStay /\ MediaGrow /\ ReachGrow
  BY NextExchanges, NextMediaGrow, NextReachGrow
<1>2. ASSUME NEW r \in plan.reqs, Step(r)
      PROVE  Rows' /\ ActivitiesGrow
  <2>1. Moves(r, Ends \ {"new"}) /\ pc[r] # "answered"
    BY <1>2, StepMoves
  <2>2. ASSUME UNCHANGED statusVars, pc[r] # "remove", pc'[r] \notin {"publish", "remove"}
        PROVE  Rows' /\ ActivitiesGrow
    <3>1. activities' = activities /\ bookmarks' \subseteq Users \X Statuses
      BY <2>2 DEF statusVars, Rows
    <3>2. QED
      BY <1>1, <2>1, <2>2, <3>1, QuietRows DEF ActivitiesGrow
  <2>3. CASE OAuthStep(r) /\ UNCHANGED statusVars
    <3>1. pc[r] # "remove" /\ pc'[r] \notin {"publish", "remove"}
      BY <2>3, OAuthMoves DEF Moves, Handlers, Places, Open
    <3>2. QED
      BY <2>2, <2>3, <3>1
  <2>4. CASE bearer(r) /\ UNCHANGED statusVars
    BY <2>2, <2>4, BearerMoves DEF Moves
  <2>5. CASE MediaStep(r) /\ UNCHANGED statusVars
    BY <2>2, <2>5, MediaMoves DEF Moves
  <2>6. CASE TimelineStep(r)
    <3>1. UNCHANGED statusVars
      BY <2>6, TimelineAlone
    <3>2. QED
      BY <2>2, <2>6, <3>1, TimelineMoves DEF Moves
  <2>7. QED
    BY <1>1, <1>2, <2>3, <2>4, <2>5, <2>6, StatusRows DEF Step
<1>3. ASSUME plan' = plan, activities' = activities, bookmarks' = bookmarks,
             \A r \in plan.reqs : /\ pc[r] \in {"remove", "answered"} => pc'[r] \in {pc[r], "answered"}
                                  /\ pc'[r] \in {"publish", "remove"} => pc'[r] = pc[r] /\ held'[r] = held[r]
      PROVE  Rows' /\ ActivitiesGrow
  <2>1. ActivitiesGrow /\ DOMAIN activities = plan.reqs \cup Received /\ Statuses' = Statuses
    BY <1>3 DEF ActivitiesGrow, Rows, Statuses, OfOp
  <2>2. \A q \in plan.reqs : \A x : Fits(q, x) => Fits(q, x)'
    BY <1>1, <1>3, <2>1, FitsStays
  <2>3. \A q \in plan.reqs : \A x \in {activities'[q]} \ {Nothing} :
          /\ pc'[q] \in {"remove", "answered"}
          /\ Req[q].op \in {"post", "delete"} \cup Edging \cup Undoing
          /\ Fits(q, x)'
    BY <1>3, <2>2 DEF Rows
  <2>4. \A q \in plan.reqs : pc'[q] = "publish" => \A x \in {held'[q].act} :
          /\ Fits(q, x)' /\ x.actor = held'[q].user
          /\ Req[q].op \notin {"post", "delete"} => held'[q].code \in {200, 404}
    BY <1>3, <2>2 DEF Rows
  <2>5. QED
    BY <1>3, <2>1, <2>3, <2>4 DEF Rows
<1>4. CASE Crash
  <2>1. plan' = plan /\ activities' = activities /\ bookmarks' = bookmarks
    BY <1>4, CrashMoves DEF Crash, statusVars
  <2>2. QED
    BY <1>3, <1>4, <2>1, CrashMoves
<1>5. ASSUME Stays, UNCHANGED statusVars
      PROVE  Rows' /\ ActivitiesGrow
  BY <1>3, <1>5 DEF Stays, statusVars
<1>6. QED
  BY <1>2, <1>4, <1>5, NextCases

---------------------------------------------------------------------------------
(***************************************************************************)
(* Deletions                                                               *)
(***************************************************************************)
\* What was published says which operation published it.
LEMMA SentBy ==
  ASSUME Rows, NEW r, NEW kind, Sent(r, kind)
  PROVE  /\ r \in plan.reqs /\ Fits(r, activities[r])
         /\ kind = "Delete" => Req[r].op = "delete" /\ DeleteFits(r, activities[r])
         /\ kind = "Undo"   => Req[r].op \in Undoing /\ UndoFits(r, activities[r])
         /\ kind \in {"Like", "Announce"} => Req[r].op \in Edging /\ EdgeFits(r, activities[r])
<1>1. /\ r \in plan.reqs /\ Fits(r, activities[r]) /\ activities[r].kind = kind
      /\ Req[r].op \in {"post", "delete"} \cup Edging \cup Undoing
  BY DEF Rows, Sent
<1>2. /\ Req[r].op = "post" => kind = "Create"
      /\ Req[r].op = "delete" => kind = "Delete" /\ DeleteFits(r, activities[r])
      /\ Req[r].op \in Undoing => kind = "Undo" /\ UndoFits(r, activities[r])
      /\ Req[r].op \in Edging => kind \in {"Like", "Announce"} /\ EdgeFits(r, activities[r])
  BY <1>1 DEF Fits, CreateFits, DeleteFits, UndoFits, EdgeFits, KindOf
<1>3. QED
  BY <1>1, <1>2

\* Nothing of the deletions changes without a fault when nothing is published or deleted.
LEMMA QuietTold ==
  ASSUME Handlers, Told, plan' = plan, activities' = activities, deleted' = deleted,
         faults' \in {faults, faults + 1},
         \A d \in plan.reqs : pc[d] = "remove" => pc'[d] = "remove" \/ faults' = faults + 1
  PROVE  Told'
<1>1. Statuses' = Statuses /\ faults \in Nat /\ (faults' = 0 => faults = 0 /\ faults' = faults)
  BY DEF Statuses, OfOp, Handlers
<1>2. QED
  BY <1>1 DEF Told, Sent

\* SoftDeleteActivityForActor deletes what was told.
LEMMA DeleteTells ==
  ASSUME NEW r \in plan.reqs, Handlers, Rows, Told, SoftDeleteActivityForActor(r)
  PROVE  Told'
<1>1. /\ pc[r] = "remove" /\ Req[r].op = "delete"
      /\ deleted' = deleted \cup {Req[r].of} /\ activities' = activities
  BY DEF SoftDeleteActivityForActor, At
<1>2. StatusStep(r)
  BY DEF StatusStep
<1>3. Moves(r, Ends \ {"new"})
  BY <1>2, StatusMoves DEF Moves, Ends
<1>4. /\ plan' = plan /\ Statuses' = Statuses /\ (faults' = 0 => faults = 0)
      /\ \A q \in plan.reqs \ {r} : pc'[q] = pc[q]
  BY <1>3, OneMoves DEF Statuses, OfOp, Handlers, Moves
<1>5. activities[r] # Nothing
  BY <1>1 DEF Rows
<1>6. DeleteFits(r, activities[r])
  BY <1>1, <1>5 DEF Rows, Fits
<1>7. Sent(r, "Delete") /\ activities[r].of = Req[r].of /\ IsNote(Req[r].of)
  BY <1>5, <1>6 DEF Sent, DeleteFits
<1>8. Req[r].of \in Statuses
  BY <1>7, NotesAreStatuses
<1>9. \A x \in deleted' : \E d \in plan.reqs : Sent(d, "Delete") /\ activities[d].of = x
  BY <1>1, <1>7 DEF Told
<1>10. ASSUME faults' = 0, NEW d \in plan.reqs, Sent(d, "Delete")
       PROVE  activities[d].of \in deleted' \/ pc'[d] = "remove"
  BY <1>1, <1>4, <1>7, <1>10 DEF Told
<1>11. QED
  BY <1>1, <1>4, <1>8, <1>9, <1>10 DEF Told, Sent

\* A Delete that is published is followed by the deletion.
LEMMA PublishTells ==
  ASSUME NEW r \in plan.reqs, Handlers, Rows, Told, BearersStay, MediaGrow, ReachGrow, PublishLocalActivityBytes(r)
  PROVE  Told'
<1>1. /\ Rows' /\ ActivitiesGrow /\ Moves(r, Ends \ {"new"})
      /\ activities[r] = Nothing
  BY PublishRows
<1>2. /\ plan' = plan /\ Statuses' = Statuses /\ (faults' = 0 => faults = 0 /\ faults' = faults)
      /\ \A q \in plan.reqs \ {r} : pc'[q] = pc[q]
  BY <1>1, OneMoves DEF Statuses, OfOp, Handlers, Moves
<1>3. /\ pc[r] = "publish" /\ deleted' = deleted
      /\ \A q \in plan.reqs \ {r} : activities'[q] = activities[q]
  BY DEF PublishLocalActivityBytes, persistOutboxAndEnqueue, Rows
<1>4. \/ pc'[r] = "remove"
      \/ Req[r].op # "delete"
      \/ faults' = faults + 1
  BY Going, Replying, Faulting DEF PublishLocalActivityBytes
<1>5. DOMAIN activities = plan.reqs \cup Received
  BY DEF Rows
<1>6. \A x \in deleted : \E d \in plan.reqs : Sent(d, "Delete")' /\ activities'[d].of = x
  BY <1>1, <1>2, <1>5 DEF Told, Sent, ActivitiesGrow
<1>7. ASSUME faults' = 0, NEW d \in plan.reqs, Sent(d, "Delete")'
      PROVE  activities'[d].of \in deleted \/ pc'[d] = "remove"
  <2>1. CASE d = r
    <3>1. Req[r].op = "delete"
      <4>1. activities'[r] # Nothing /\ activities'[r].kind = "Delete"
        BY <1>7, <2>1 DEF Sent
      <4>2. Fits(r, held[r].act) /\ activities'[r] = held[r].act
        BY <1>5, PublishRows DEF PublishLocalActivityBytes, persistOutboxAndEnqueue
      <4>3. Req[r].op \in {"post", "delete"} \cup Edging \cup Undoing
        BY <1>3 DEF Handlers, Places
      <4>4. QED
        BY <4>1, <4>2, <4>3 DEF Fits, CreateFits, EdgeFits, UndoFits, KindOf
    <3>2. faults' # faults + 1
      BY <1>7 DEF Handlers
    <3>3. QED
      BY <1>4, <2>1, <3>1, <3>2
  <2>2. CASE d # r
    <3>1. Sent(d, "Delete") /\ activities'[d] = activities[d]
      BY <1>3, <1>7, <2>2 DEF Sent
    <3>2. QED
      BY <1>2, <1>7, <2>2, <3>1 DEF Told
  <2>3. QED
    BY <2>1, <2>2
<1>8. QED
  BY <1>2, <1>3, <1>6, <1>7 DEF Told

\* Every step keeps the deletions told.
LEMMA NextTold ==
  ASSUME Handlers, Exchanges, Files, Audience, Rows, Told, [Next]_vars
  PROVE  Told'
<1>1. BearersStay /\ MediaGrow /\ ReachGrow
  BY NextExchanges, NextMediaGrow, NextReachGrow
<1>2. ASSUME NEW r \in plan.reqs, Step(r)
      PROVE  Told'
  <2>1. /\ Moves(r, Ends \ {"new"}) /\ plan' = plan /\ faults' \in {faults, faults + 1}
        /\ \A q \in plan.reqs \ {r} : pc'[q] = pc[q]
    BY <1>2, StepMoves, OneMoves DEF Moves
  <2>2. ASSUME activities' = activities, deleted' = deleted,
               pc[r] # "remove" \/ faults' = faults + 1
        PROVE  Told'
    BY <2>1, <2>2, QuietTold
  <2>3. CASE OAuthStep(r) /\ UNCHANGED statusVars
    <3>1. pc[r] # "remove"
      BY <2>3, OAuthMoves DEF Handlers, Places, Open
    <3>2. QED
      BY <2>2, <2>3, <3>1 DEF statusVars
  <2>4. CASE bearer(r) /\ UNCHANGED statusVars
    BY <2>2, <2>4, BearerMoves DEF statusVars
  <2>5. CASE MediaStep(r) /\ UNCHANGED statusVars
    BY <2>2, <2>5, MediaMoves DEF statusVars
  <2>6. CASE TimelineStep(r)
    <3>1. UNCHANGED statusVars
      BY <2>6, TimelineAlone
    <3>2. QED
      BY <2>2, <2>6, <3>1, TimelineMoves DEF statusVars
  <2>7. CASE \/ postStatuses(r) \/ deleteStatus(r) \/ Social(r) \/ UndoSocial(r) \/ Bookmark(r)
             \/ getStatus(r) \/ HandleFollow(r)
    <3>1. activities' = activities /\ deleted' = deleted /\ pc[r] \in {"new", "begin"}
      BY <2>7 DEF postStatuses, deleteStatus, Social, UndoSocial, Bookmark, getStatus, HandleFollow, statusVars, At
    <3>2. QED
      BY <2>2, <3>1
  <2>8. CASE StatusFail(r)
    BY <2>2, <2>8, Faulting DEF StatusFail, statusVars
  <2>9. QED
    BY <1>1, <1>2, <2>3, <2>4, <2>5, <2>6, <2>7, <2>8, DeleteTells, PublishTells DEF Step, StatusStep
<1>3. CASE Crash
  BY <1>3, CrashMoves, QuietTold DEF Crash, statusVars
<1>4. ASSUME Stays, UNCHANGED statusVars
      PROVE  Told'
  BY <1>4, QuietTold DEF Stays, statusVars
<1>5. QED
  BY <1>2, <1>3, <1>4, NextCases

---------------------------------------------------------------------------------
(***************************************************************************)
(* Likes and boosts                                                        *)
(***************************************************************************)
\* The pair of what is in hand or was published is a key.
LEMMA PairsAreKeys ==
  ASSUME NEW r \in plan.reqs, Req[r].op \in Edging, NEW x, Fits(r, x)
  PROVE  PairOf(x) \in EdgeKeys /\ PairOf(x) = KeyOf(r, x.actor)
BY DEF Fits, EdgeFits, PairOf, EdgeKeys, KindOf, KeyOf

\* Nothing of the likes changes when nothing is published, and no pair comes in hand.
LEMMA QuietEdges ==
  ASSUME Handlers, Edges, plan' = plan, activities' = activities, edges' = edges,
         raced \subseteq raced', raced' \subseteq EdgeKeys,
         \A q \in plan.reqs : EdgeAtHand(q)' => EdgeAtHand(q) /\ held'[q] = held[q]
  PROVE  Edges'
<1>1. EdgeKeys' = EdgeKeys
  BY DEF EdgeKeys, Statuses, OfOp
<1>2. \A q : Sent(q, "Like")' = Sent(q, "Like") /\ Sent(q, "Announce")' = Sent(q, "Announce")
             /\ SentEdge(q)' = SentEdge(q) /\ Undone(q)' = Undone(q)
  BY DEF SentEdge, Sent, Undone
<1>3. \A q \in plan.reqs : \A k \in {PairOf(activities'[q])} :
        SentEdge(q)' => k \in raced' \/ Undone(q)' \/ edges'[k] = q
  BY <1>2 DEF Edges
<1>4. ASSUME NEW q \in plan.reqs, EdgeAtHand(q)', NEW k \in {PairOf(held'[q].act)}
      PROVE  k \in raced' \/ (edges'[k] = Nothing
                              /\ \A p \in plan.reqs : EdgeAtHand(p)' /\ PairOf(held'[p].act) = k => p = q)
  BY <1>4 DEF Edges
<1>5. \A k \in EdgeKeys : \A e \in {edges'[k]} \ {Nothing} :
        SentEdge(e)' /\ PairOf(activities'[e]) = k /\ ~Undone(e)'
  BY <1>2 DEF Edges
<1>6. QED
  BY <1>1, <1>3, <1>4, <1>5 DEF Edges, PairOf

\* A favourite or a boost comes in hand when there is no row, or its pair has been raced.
LEMMA SocialEdges ==
  ASSUME NEW r \in plan.reqs, Handlers, Bears, Audience, Rows, Edges, Social(r)
  PROVE  Edges'
<1>1. StatusStep(r) /\ activities' = activities /\ edges' = edges
  BY DEF StatusStep, Social
<1>2. Moves(r, Ends \ {"new"})
  BY <1>1, StatusMoves DEF Moves, Ends
<1>3. plan' = plan /\ \A q \in plan.reqs \ {r} : pc'[q] = pc[q] /\ held'[q] = held[q]
  BY <1>2, OneMoves
<1>4. CASE pc'[r] = "answered"
  <2>1. raced' = raced
    BY <1>4, Going DEF Social, PublishEdge
  <2>2. \A q \in plan.reqs : EdgeAtHand(q)' => EdgeAtHand(q) /\ held'[q] = held[q]
    BY <1>3, <1>4 DEF EdgeAtHand
  <2>3. QED
    BY <1>1, <1>3, <2>1, <2>2, QuietEdges DEF Edges
<1>5. CASE pc'[r] # "answered"
  <2>1. PICK key, x : key = KeyOf(r, held[r].user) /\ x = held'[r].act
    OBVIOUS
  <2>2. /\ pc[r] = "begin" /\ pc'[r] = "publish" /\ Req[r].op \in Edging
        /\ PairOf(x) = key /\ key \in EdgeKeys
    BY <1>5, <2>1, SocialHolds
  <2>3. \/ raced' = raced \cup {key}
        \/ edges[key] = Nothing /\ ~Publishing(r) /\ raced' = raced
    BY <1>5, <2>1, Replying DEF Social
  <2>4. raced \subseteq raced' /\ raced' \subseteq EdgeKeys
    BY <2>2, <2>3 DEF Edges
  <2>5. EdgeKeys' = EdgeKeys
    BY <1>3 DEF EdgeKeys, Statuses, OfOp
  <2>6. \A q : SentEdge(q)' = SentEdge(q) /\ Undone(q)' = Undone(q)
    BY <1>1, <1>3 DEF SentEdge, Sent, Undone
  <2>7. \A q \in plan.reqs : \A k \in {PairOf(activities'[q])} :
          SentEdge(q)' => k \in raced' \/ Undone(q)' \/ edges'[k] = q
    BY <1>1, <2>4, <2>6 DEF Edges
  <2>8. ASSUME NEW q \in plan.reqs, q # r, EdgeAtHand(q), PairOf(held[q].act) = key, key \notin raced'
        PROVE  FALSE
    <3>1. Fits(q, held[q].act) /\ held[q].act.actor = held[q].user /\ pc[q] = "publish" /\ Req[q].op \in Edging
      BY <2>8 DEF EdgeAtHand, Rows
    <3>2. KeyOf(q, held[q].user) = key
      BY <2>8, <3>1, PairsAreKeys
    <3>3. Req[q].op = Req[r].op
      BY <2>1, <2>2, <3>1, <3>2 DEF KeyOf, KindOf, Edging
    <3>4. Publishing(r)
      BY <2>1, <2>8, <3>1, <3>2, <3>3 DEF Publishing
    <3>5. QED
      BY <2>3, <2>8, <3>4
  <2>9. ASSUME NEW q \in plan.reqs, EdgeAtHand(q)', NEW k \in {PairOf(held'[q].act)}, k \notin raced'
        PROVE  edges'[k] = Nothing /\ \A p \in plan.reqs : EdgeAtHand(p)' /\ PairOf(held'[p].act) = k => p = q
    <3>1. \A p \in plan.reqs \ {r} : EdgeAtHand(p)' => EdgeAtHand(p) /\ held'[p] = held[p]
      BY <1>3 DEF EdgeAtHand
    <3>2. CASE k = key
      <4>1. \A p \in plan.reqs : EdgeAtHand(p)' /\ PairOf(held'[p].act) = k => p = r
        BY <2>8, <2>9, <3>1, <3>2
      <4>2. edges[key] = Nothing
        BY <2>3, <2>9, <3>2
      <4>3. QED
        BY <1>1, <2>9, <3>2, <4>1, <4>2
    <3>3. CASE k # key
      <4>1. \A p \in plan.reqs : EdgeAtHand(p)' /\ PairOf(held'[p].act) = k => p # r
        BY <2>1, <2>2, <3>3
      <4>2. q # r /\ EdgeAtHand(q) /\ k = PairOf(held[q].act) /\ k \notin raced
        BY <2>4, <2>9, <3>1, <4>1
      <4>3. edges[k] = Nothing /\ \A p \in plan.reqs : EdgeAtHand(p) /\ PairOf(held[p].act) = k => p = q
        BY <4>2 DEF Edges
      <4>4. QED
        BY <1>1, <3>1, <4>1, <4>3
    <3>4. QED
      BY <3>2, <3>3
  <2>10. \A k \in EdgeKeys : \A e \in {edges'[k]} \ {Nothing} :
           SentEdge(e)' /\ PairOf(activities'[e]) = k /\ ~Undone(e)'
    BY <1>1, <2>6 DEF Edges
  <2>11. edges' \in [EdgeKeys -> plan.reqs \cup {Nothing}]
    BY <1>1 DEF Edges
  <2>12. QED
    BY <1>3, <2>4, <2>5, <2>7, <2>9, <2>10, <2>11 DEF Edges, PairOf
<1>6. QED
  BY <1>4, <1>5

\* A like or a boost that is published gets its row.
LEMMA PublishEdgeEdges ==
  ASSUME NEW r \in plan.reqs, Handlers, Rows, Edges, BearersStay, MediaGrow, ReachGrow,
         PublishLocalActivityBytes(r), Req[r].op \in Edging
  PROVE  Edges'
<1>1. /\ Rows' /\ ActivitiesGrow /\ Moves(r, Ends \ {"new"})
      /\ activities[r] = Nothing /\ pc'[r] \in {"remove", "answered"}
  BY PublishRows
<1>2. plan' = plan /\ \A q \in plan.reqs \ {r} : pc'[q] = pc[q] /\ held'[q] = held[q]
  BY <1>1, OneMoves
<1>3. PICK x, key : x = held[r].act /\ key = PairOf(x)
  OBVIOUS
<1>4. Fits(r, x) /\ EdgeFits(r, x) /\ key \in EdgeKeys
  BY <1>3, PublishRows, PairsAreKeys DEF Fits
<1>5. x.kind \in {"Like", "Announce"}
  BY <1>4 DEF EdgeFits, KindOf
<1>6. /\ pc[r] = "publish" /\ activities' = [activities EXCEPT ![r] = x] /\ raced' = raced
      /\ edges' = [edges EXCEPT ![key] = r]
  BY <1>3, <1>5 DEF PublishLocalActivityBytes, persistOutboxAndEnqueue, recordOutboxFollowEffects, PairOf
<1>7. /\ activities'[r] = x /\ DOMAIN activities = plan.reqs \cup Received
      /\ \A q \in plan.reqs \ {r} : activities'[q] = activities[q]
  BY <1>6 DEF Rows
<1>8. edges' \in [EdgeKeys -> plan.reqs \cup {Nothing}]
  BY <1>6 DEF Edges
<1>9. \A k \in EdgeKeys : edges'[k] = IF k = key THEN r ELSE edges[k]
  BY <1>4, <1>6 DEF Edges
<1>10. EdgeKeys' = EdgeKeys
  BY <1>2 DEF EdgeKeys, Statuses, OfOp
<1>11. SentEdge(r)' /\ \A q \in plan.reqs \ {r} : SentEdge(q)' = SentEdge(q)
  <2>1. x # Nothing
    BY <1>4, StatusAssumption DEF Fits
  <2>2. QED
    BY <1>2, <1>5, <1>7, <2>1 DEF SentEdge, Sent
<1>12. \A q : Undone(q)' = Undone(q)
  BY <1>1, <1>2, <1>5, <1>7 DEF Undone, Sent
<1>13. ~Undone(r)
  <2>1. ASSUME NEW u \in plan.reqs, Sent(u, "Undo"), activities[u].of = r
        PROVE  FALSE
    BY <1>1, <2>1, SentBy DEF UndoFits
  <2>2. QED
    BY <2>1 DEF Undone
<1>14. EdgeAtHand(r) /\ ~EdgeAtHand(r)' /\ \A q \in plan.reqs \ {r} : EdgeAtHand(q)' = EdgeAtHand(q)
  BY <1>1, <1>2, <1>6 DEF EdgeAtHand
<1>15. key \in raced \/ (edges[key] = Nothing /\ \A q \in plan.reqs : EdgeAtHand(q) /\ PairOf(held[q].act) = key => q = r)
  BY <1>3, <1>14 DEF Edges
<1>16. r # Nothing
  BY ApiAssumption DEF Handlers
<1>17. ASSUME NEW k \in EdgeKeys, NEW e \in {edges'[k]} \ {Nothing}
       PROVE  SentEdge(e)' /\ PairOf(activities'[e]) = k /\ ~Undone(e)'
  <2>1. CASE k = key
    BY <1>3, <1>7, <1>9, <1>11, <1>12, <1>13, <1>17, <2>1
  <2>2. CASE k # key
    <3>1. e \in {edges[k]} \ {Nothing}
      BY <1>9, <1>17, <2>2
    <3>2. SentEdge(e) /\ PairOf(activities[e]) = k /\ ~Undone(e)
      BY <3>1 DEF Edges
    <3>3. e # r /\ e \in plan.reqs
      BY <1>1, <3>2 DEF SentEdge, Sent
    <3>4. QED
      BY <1>7, <1>11, <1>12, <3>2, <3>3
  <2>3. QED
    BY <2>1, <2>2
<1>18. ASSUME NEW q \in plan.reqs, SentEdge(q)', NEW k \in {PairOf(activities'[q])}
       PROVE  k \in raced' \/ Undone(q)' \/ edges'[k] = q
  <2>1. CASE q = r
    BY <1>3, <1>4, <1>7, <1>9, <1>18, <2>1
  <2>2. CASE q # r
    <3>1. SentEdge(q) /\ activities'[q] = activities[q]
      BY <1>7, <1>11, <1>18, <2>2
    <3>2. k \in raced \/ Undone(q) \/ edges[k] = q
      BY <1>18, <3>1 DEF Edges
    <3>3. k \in EdgeKeys
      <4>1. Fits(q, activities[q]) /\ Req[q].op \in Edging
        BY <3>1, SentBy DEF SentEdge
      <4>2. QED
        BY <1>18, <3>1, <4>1, PairsAreKeys
    <3>4. q # Nothing
      BY ApiAssumption DEF Handlers
    <3>5. QED
      BY <1>6, <1>9, <1>12, <1>15, <3>2, <3>3, <3>4
  <2>3. QED
    BY <2>1, <2>2
<1>19. ASSUME NEW q \in plan.reqs, EdgeAtHand(q)', NEW k \in {PairOf(held'[q].act)}, k \notin raced'
       PROVE  edges'[k] = Nothing /\ \A p \in plan.reqs : EdgeAtHand(p)' /\ PairOf(held'[p].act) = k => p = q
  <2>1. q # r /\ EdgeAtHand(q) /\ k \in {PairOf(held[q].act)} /\ k \notin raced
    BY <1>2, <1>6, <1>14, <1>19
  <2>2. edges[k] = Nothing /\ \A p \in plan.reqs : EdgeAtHand(p) /\ PairOf(held[p].act) = k => p = q
    BY <2>1 DEF Edges
  <2>3. k # key
    BY <1>3, <1>14, <2>1, <2>2
  <2>4. k \in EdgeKeys
    <3>1. Fits(q, held[q].act) /\ Req[q].op \in Edging
      BY <2>1 DEF EdgeAtHand, Rows
    <3>2. QED
      BY <2>1, <3>1, PairsAreKeys
  <2>5. \A p \in plan.reqs : EdgeAtHand(p)' /\ PairOf(held'[p].act) = k => p = q
    BY <1>2, <1>14, <2>2
  <2>6. QED
    BY <1>9, <2>2, <2>3, <2>4, <2>5
<1>20. QED
  BY <1>2, <1>6, <1>8, <1>10, <1>17, <1>18, <1>19 DEF Edges, PairOf

\* An Undo that is published takes the row of its activity away; the activities of other
\* kinds change no row.
LEMMA PublishOtherEdges ==
  ASSUME NEW r \in plan.reqs, Handlers, Rows, Edges, BearersStay, MediaGrow, ReachGrow,
         PublishLocalActivityBytes(r), Req[r].op \notin Edging
  PROVE  Edges'
<1>1. /\ Rows' /\ ActivitiesGrow /\ Moves(r, Ends \ {"new"})
      /\ activities[r] = Nothing /\ pc'[r] \in {"remove", "answered"}
  BY PublishRows
<1>2. plan' = plan /\ \A q \in plan.reqs \ {r} : pc'[q] = pc[q] /\ held'[q] = held[q]
  BY <1>1, OneMoves
<1>3. PICK x : x = held[r].act
  OBVIOUS
<1>4. pc[r] = "publish" /\ activities' = [activities EXCEPT ![r] = x] /\ raced' = raced
  BY <1>3 DEF PublishLocalActivityBytes, persistOutboxAndEnqueue
<1>5. Fits(r, x) /\ Req[r].op \in {"post", "delete"} \cup Undoing
  BY <1>3, <1>4, PublishRows DEF Handlers, Places
<1>6. /\ x.kind \in {"Create", "Delete", "Undo"}
      /\ x.kind = "Undo" => UndoFits(r, x)
  BY <1>5 DEF Fits, CreateFits, DeleteFits, UndoFits
<1>7. /\ activities'[r] = x /\ DOMAIN activities = plan.reqs \cup Received
      /\ \A q \in plan.reqs \ {r} : activities'[q] = activities[q]
  BY <1>4 DEF Rows
<1>8. /\ edges' \in [EdgeKeys -> plan.reqs \cup {Nothing}]
      /\ \A k \in EdgeKeys : \/ edges'[k] = edges[k] /\ ~(x.kind = "Undo" /\ edges[k] = x.of /\ k[2] = x.actor)
                             \/ edges'[k] = Nothing /\ x.kind = "Undo" /\ edges[k] = x.of
  <2>1. CASE x.kind = "Undo"
    <3>1. edges' = [k \in EdgeKeys |-> IF edges[k] = x.of /\ k[2] = x.actor THEN Nothing ELSE edges[k]]
      BY <1>3, <2>1 DEF PublishLocalActivityBytes, persistOutboxAndEnqueue, recordOutboxFollowEffects
    <3>2. QED
      BY <2>1, <3>1 DEF Edges
  <2>2. CASE x.kind # "Undo"
    <3>1. edges' = edges
      BY <1>3, <1>6, <2>2 DEF PublishLocalActivityBytes, persistOutboxAndEnqueue, recordOutboxFollowEffects
    <3>2. QED
      BY <2>2, <3>1 DEF Edges
  <2>3. QED
    BY <2>1, <2>2
<1>9. EdgeKeys' = EdgeKeys
  BY <1>2 DEF EdgeKeys, Statuses, OfOp
<1>10. \A q \in plan.reqs : SentEdge(q)' = SentEdge(q)
  BY <1>1, <1>2, <1>6, <1>7 DEF SentEdge, Sent
<1>11. \A q \in plan.reqs : /\ Undone(q) => Undone(q)'
                            /\ Undone(q)' => Undone(q) \/ (x.kind = "Undo" /\ x.of = q)
                            /\ x.kind = "Undo" /\ x.of = q => Undone(q)'
  <2>1. x # Nothing
    BY <1>5, StatusAssumption DEF Fits
  <2>2. QED
    BY <1>1, <1>2, <1>7, <2>1 DEF Undone, Sent
<1>12. \A q \in plan.reqs : EdgeAtHand(q)' => EdgeAtHand(q) /\ q # r
  BY <1>1, <1>2 DEF EdgeAtHand
<1>13. ASSUME NEW k \in EdgeKeys, NEW e \in {edges'[k]} \ {Nothing}
       PROVE  SentEdge(e)' /\ PairOf(activities'[e]) = k /\ ~Undone(e)'
  <2>1. e \in {edges[k]} \ {Nothing} /\ ~(x.kind = "Undo" /\ e = x.of /\ k[2] = x.actor)
    BY <1>8, <1>13
  <2>2. SentEdge(e) /\ PairOf(activities[e]) = k /\ ~Undone(e)
    BY <2>1 DEF Edges
  <2>3. e # r /\ e \in plan.reqs
    BY <1>1, <2>2 DEF SentEdge, Sent
  <2>4. ~(x.kind = "Undo" /\ x.of = e)
    BY <1>6, <2>1, <2>2 DEF UndoFits, PairOf
  <2>5. QED
    BY <1>7, <1>10, <1>11, <2>2, <2>3, <2>4
<1>14. ASSUME NEW q \in plan.reqs, SentEdge(q)', NEW k \in {PairOf(activities'[q])}
       PROVE  k \in raced' \/ Undone(q)' \/ edges'[k] = q
  <2>1. SentEdge(q)
    BY <1>10, <1>14
  <2>2. q # r
    BY <1>1, <2>1 DEF SentEdge, Sent
  <2>3. k \in {PairOf(activities[q])}
    BY <1>7, <1>14, <2>2
  <2>4. k \in raced \/ Undone(q) \/ edges[k] = q
    BY <2>1, <2>3 DEF Edges
  <2>5. k \in EdgeKeys
    <3>1. Fits(q, activities[q]) /\ Req[q].op \in Edging
      BY <2>1, SentBy DEF SentEdge
    <3>2. QED
      BY <2>3, <3>1, PairsAreKeys
  <2>6. QED
    BY <1>4, <1>8, <1>11, <2>4, <2>5
<1>15. ASSUME NEW q \in plan.reqs, EdgeAtHand(q)', NEW k \in {PairOf(held'[q].act)}, k \notin raced'
       PROVE  edges'[k] = Nothing /\ \A p \in plan.reqs : EdgeAtHand(p)' /\ PairOf(held'[p].act) = k => p = q
  <2>1. q # r /\ EdgeAtHand(q) /\ k \in {PairOf(held[q].act)} /\ k \notin raced
    BY <1>2, <1>4, <1>12, <1>15
  <2>2. edges[k] = Nothing /\ \A p \in plan.reqs : EdgeAtHand(p) /\ PairOf(held[p].act) = k => p = q
    BY <2>1 DEF Edges
  <2>3. k \in EdgeKeys
    <3>1. Fits(q, held[q].act) /\ Req[q].op \in Edging
      BY <2>1 DEF EdgeAtHand, Rows
    <3>2. QED
      BY <2>1, <3>1, PairsAreKeys
  <2>4. \A p \in plan.reqs : EdgeAtHand(p)' /\ PairOf(held'[p].act) = k => p = q
    BY <1>2, <1>12, <2>2
  <2>5. QED
    BY <1>8, <2>2, <2>3, <2>4
<1>16. QED
  BY <1>2, <1>4, <1>8, <1>9, <1>13, <1>14, <1>15 DEF Edges, PairOf

\* Every step keeps likes and boosts in agreement with what was published.
LEMMA NextEdges ==
  ASSUME Handlers, Exchanges, Bears, Files, Audience, Rows, Edges, [Next]_vars
  PROVE  Edges'
<1>1. BearersStay /\ MediaGrow /\ ReachGrow
  BY NextExchanges, NextMediaGrow, NextReachGrow
<1>2. ASSUME NEW r \in plan.reqs, Step(r)
      PROVE  Edges'
  <2>1. /\ Moves(r, Ends \ {"new"}) /\ plan' = plan
        /\ \A q \in plan.reqs \ {r} : pc'[q] = pc[q] /\ held'[q] = held[q]
    BY <1>2, StepMoves, OneMoves
  <2>2. ASSUME activities' = activities, edges' = edges, raced' = raced,
               pc'[r] # "publish" \/ Req[r].op \notin Edging
        PROVE  Edges'
    <3>1. \A q \in plan.reqs : EdgeAtHand(q)' => EdgeAtHand(q) /\ held'[q] = held[q]
      BY <2>1, <2>2 DEF EdgeAtHand
    <3>2. raced \subseteq raced' /\ raced' \subseteq EdgeKeys
      BY <2>2 DEF Edges
    <3>3. QED
      BY <2>1, <2>2, <3>1, <3>2, QuietEdges
  <2>3. CASE (OAuthStep(r) \/ bearer(r) \/ MediaStep(r)) /\ UNCHANGED statusVars
    <3>1. pc'[r] # "publish"
      BY <2>3, OAuthMoves, BearerMoves, MediaMoves DEF Moves
    <3>2. QED
      BY <2>2, <2>3, <3>1 DEF statusVars
  <2>4. CASE TimelineStep(r)
    <3>1. pc'[r] # "publish"
      BY <2>4, TimelineMoves DEF Moves
    <3>2. QED
      BY <2>2, <2>4, <3>1, TimelineAlone DEF statusVars
  <2>5. CASE postStatuses(r) \/ deleteStatus(r) \/ UndoSocial(r)
    <3>1. activities' = activities /\ edges' = edges /\ raced' = raced
      BY <2>5 DEF postStatuses, deleteStatus, UndoSocial, statusVars
    <3>2. Req[r].op \notin Edging
      BY <2>5 DEF postStatuses, deleteStatus, UndoSocial, At, Edging
    <3>3. QED
      BY <2>2, <3>1, <3>2
  <2>6. CASE SoftDeleteActivityForActor(r) \/ Bookmark(r) \/ getStatus(r) \/ StatusFail(r) \/ HandleFollow(r)
    <3>1. activities' = activities /\ edges' = edges /\ raced' = raced
      BY <2>6 DEF SoftDeleteActivityForActor, Bookmark, getStatus, StatusFail, HandleFollow, statusVars
    <3>2. pc'[r] # "publish"
      BY <2>6, Replying DEF SoftDeleteActivityForActor, Bookmark, getStatus, StatusFail, HandleFollow, Done
    <3>3. QED
      BY <2>2, <3>1, <3>2
  <2>7. QED
    BY <1>1, <1>2, <2>3, <2>4, <2>5, <2>6, SocialEdges, PublishEdgeEdges, PublishOtherEdges DEF Step, StatusStep
<1>3. CASE Crash
  <2>1. \A q \in plan.reqs : ~EdgeAtHand(q)'
    BY <1>3, CrashMoves DEF EdgeAtHand
  <2>2. UNCHANGED <<plan, activities, edges, raced>>
    BY <1>3, CrashMoves DEF Crash, statusVars
  <2>3. QED
    BY <2>1, <2>2, QuietEdges DEF Edges
<1>4. ASSUME Stays, UNCHANGED statusVars
      PROVE  Edges'
  <2>1. UNCHANGED <<plan, pc, held, activities, edges, raced>>
    BY <1>4 DEF Stays, statusVars
  <2>2. \A q \in plan.reqs : EdgeAtHand(q)' => EdgeAtHand(q) /\ held'[q] = held[q]
    BY <2>1 DEF EdgeAtHand
  <2>3. QED
    BY <2>1, <2>2, QuietEdges DEF Edges
<1>5. QED
  BY <1>2, <1>3, <1>4, NextCases

---------------------------------------------------------------------------------
(***************************************************************************)
(* Lists                                                                   *)
(***************************************************************************)
LEMMA PutInStays ==
  ASSUME Handlers, BegunGrow, BearersStay, NEW l, NEW x, NEW u, PutIn(l, x, u)
  PROVE  PutIn(l, x, u)'
<1>1. PICK q \in OfOp("add") \cap Begun : Req[q].of = l /\ Req[q].account = x /\ Bearer(Req[q].token) = {u}
  BY DEF PutIn
<1>2. q \in (OfOp("add") \cap Begun)' /\ q \in Requests
  BY <1>1, ApiAssumption DEF BegunGrow, OfOp, Handlers
<1>3. Bearer(Req[q].token)' = {u}
  BY <1>1, <1>2 DEF BearersStay
<1>4. QED
  BY <1>1, <1>2, <1>3 DEF PutIn

LEMMA PutByStays ==
  ASSUME Handlers, BegunGrow, BearersStay, NEW r \in plan.reqs, NEW x, PutBy(r, x)
  PROVE  PutBy(r, x)'
<1>1. PICK u \in Users : Bearer(Req[r].token) = {u} /\ PutIn(Req[r].of, x, u)
  BY DEF PutBy
<1>2. r \in Requests
  BY ApiAssumption DEF Handlers
<1>3. Bearer(Req[r].token)' = {u} /\ PutIn(Req[r].of, x, u)'
  BY <1>1, <1>2, PutInStays DEF BearersStay
<1>4. QED
  BY <1>3 DEF PutBy

\* Whom a read finds on its list it goes on finding.
LEMMA OnItStays ==
  ASSUME Handlers, BegunGrow, BearersStay, NEW r \in plan.reqs, Bearer(Req[r].token) # {}, NEW x, OnIt(r, x),
         read'[r].members = read[r].members, read'[r].answered = read[r].answered
  PROVE  OnIt(r, x)'
<1>1. CASE x \in read[r].members
  BY <1>1 DEF OnIt
<1>2. ASSUME NEW q \in OfOp("add") \cap Begun, q \notin read[r].answered,
             Req[q].of = Req[r].of, Req[q].account = x, Bearer(Req[q].token) = Bearer(Req[r].token)
      PROVE  Fresh(r, x)'
  <2>1. q \in (OfOp("add") \cap Begun)' /\ q \in Requests /\ r \in Requests
    BY ApiAssumption DEF BegunGrow, OfOp, Handlers
  <2>2. Bearer(Req[q].token)' = Bearer(Req[r].token)'
    BY <1>2, <2>1 DEF BearersStay
  <2>3. QED
    BY <1>2, <2>1, <2>2 DEF Fresh
<1>3. QED
  BY <1>1, <1>2 DEF OnIt, Fresh

LEMMA PutSinceStays ==
  ASSUME Handlers, BegunGrow, BearersStay, NEW r \in plan.reqs, NEW x, PutSince(r, x),
         read'[r].members = read[r].members, read'[r].answered = read[r].answered
  PROVE  PutSince(r, x)'
<1>1. PutBy(r, x) /\ OnIt(r, x) /\ Bearer(Req[r].token) # {}
  BY DEF PutSince, PutBy
<1>2. QED
  BY <1>1, PutByStays, OnItStays DEF PutSince

\* Nothing of the lists changes when no handler comes to add or remove a member.
LEMMA QuietLists ==
  ASSUME Handlers, Lists, BegunGrow, BearersStay, UNCHANGED <<lists, members>>,
         \A q \in plan.reqs : /\ pc'[q] \in {"new", "begin"} => pc[q] \in {"new", "begin"}
                              /\ pc'[q] \in {"member", "ask"} => pc'[q] = pc[q] /\ held'[q] = held[q]
  PROVE  Lists'
<1>1. plan' = plan /\ OfOp("list")' = OfOp("list") /\ OfOp("list") \subseteq plan.reqs
  BY DEF BegunGrow, OfOp
<1>2. \A m \in members' : m[1] \in OfOp("list") /\ \A u \in {lists'[m[1]]} : u \in Users /\ PutIn(m[1], m[2], u)'
  BY PutInStays DEF Lists
<1>3. QED
  BY <1>1, <1>2 DEF Lists

\* The owner of a list makes it, takes it away, and names who comes in.
LEMMA ListSteps ==
  ASSUME NEW r \in plan.reqs, Handlers, Bears, Lists, BegunGrow, BearersStay,
         postLists(r) \/ deleteListByID(r) \/ GetMastodonList(r) \/ SetsMember(r) \/ ReadFirst(r)
  PROVE  Lists'
<1>1. TimelineStep(r)
  BY DEF TimelineStep, SetsMember
<1>2. Moves(r, Ends \ {"new"})
  BY <1>1, TimelineMoves DEF Moves, Ends
<1>3. /\ plan' = plan /\ OfOp("list")' = OfOp("list") /\ OfOp("list") \subseteq plan.reqs
      /\ \A q \in plan.reqs \ {r} : pc'[q] = pc[q] /\ held'[q] = held[q]
  BY <1>2, OneMoves DEF OfOp
<1>4. \A m \in members : m[1] \in OfOp("list") /\ \A u \in {lists[m[1]]} : u \in Users /\ PutIn(m[1], m[2], u)'
  BY PutInStays DEF Lists
<1>5. r \in Requests /\ Nothing \notin Users
  BY ApiAssumption, StatusAssumption DEF Handlers
<1>6. ASSUME lists' \in [OfOp("list") -> Users \cup {Nothing}],
             pc'[r] # "new", pc'[r] = "begin" => pc[r] = "begin",
             \A l \in OfOp("list") : pc'[l] \in {"new", "begin"} => lists'[l] = Nothing,
             \A q \in plan.reqs : pc'[q] \in {"member", "ask"} => \E l \in OfOp("list") :
               l = Req[q].of /\ pc'[l] \notin {"new", "begin"} /\ lists'[l] \in {held'[q].user, Nothing},
             \A m \in members' : m[1] \in OfOp("list") /\ \A u \in {lists'[m[1]]} : u \in Users /\ PutIn(m[1], m[2], u)'
      PROVE  Lists'
  BY <1>3, <1>6 DEF Lists
<1>7. CASE postLists(r)
  <2>1. /\ pc[r] = "begin" /\ pc'[r] = "answered" /\ r \in OfOp("list")
        /\ lists' = [lists EXCEPT ![r] = held[r].user] /\ members' = members
    BY <1>7, <1>5, Replying DEF postLists, At, Done, OfOp
  <2>2. held[r].user \in Users
    BY <2>1 DEF Bears, Begins
  <2>3. lists' \in [OfOp("list") -> Users \cup {Nothing}]
    BY <2>1, <2>2 DEF Lists
  <2>4. \A l \in OfOp("list") : pc'[l] \in {"new", "begin"} => lists'[l] = Nothing
    BY <1>3, <2>1 DEF Lists
  <2>5. \A q \in plan.reqs : pc'[q] \in {"member", "ask"} => \E l \in OfOp("list") :
          l = Req[q].of /\ pc'[l] \notin {"new", "begin"} /\ lists'[l] \in {held'[q].user, Nothing}
    <3> SUFFICES ASSUME NEW q \in plan.reqs, pc'[q] \in {"member", "ask"}
                 PROVE  \E l \in OfOp("list") :
                          l = Req[q].of /\ pc'[l] \notin {"new", "begin"} /\ lists'[l] \in {held'[q].user, Nothing}
      OBVIOUS
    <3>1. q # r /\ pc[q] \in {"member", "ask"} /\ held'[q] = held[q]
      BY <1>3, <2>1
    <3>2. PICK l \in OfOp("list") : l = Req[q].of /\ pc[l] \notin {"new", "begin"} /\ lists[l] \in {held[q].user, Nothing}
      BY <3>1 DEF Lists
    <3>3. l # r /\ pc'[l] = pc[l] /\ lists'[l] = lists[l]
      BY <1>3, <2>1, <3>2 DEF Lists
    <3>4. QED
      BY <3>1, <3>2, <3>3
  <2>6. \A m \in members' : m[1] \in OfOp("list") /\ \A u \in {lists'[m[1]]} : u \in Users /\ PutIn(m[1], m[2], u)'
    <3>1. \A m \in members : m[1] \in OfOp("list") /\ lists[m[1]] # Nothing
      BY <1>5 DEF Lists
    <3>2. lists[r] = Nothing
      BY <2>1 DEF Lists
    <3>3. \A m \in members : lists'[m[1]] = lists[m[1]]
      BY <2>1, <3>1, <3>2 DEF Lists
    <3>4. QED
      BY <1>4, <2>1, <3>3
  <2>7. QED
    BY <1>6, <2>1, <2>3, <2>4, <2>5, <2>6
<1>8. CASE deleteListByID(r)
  <2>1. /\ pc[r] = "begin" /\ pc'[r] = "answered" /\ Req[r].op # "list"
        /\ \/ /\ OwnsList(held[r].user, Req[r].of)
              /\ lists' = [lists EXCEPT ![Req[r].of] = Nothing]
              /\ members' = {m \in members : m[1] # Req[r].of}
           \/ lists' = lists /\ members' = members
    BY <1>8, Replying DEF deleteListByID, At, Done
  <2>2. /\ lists' \in [OfOp("list") -> Users \cup {Nothing}]
        /\ \A l \in OfOp("list") : lists'[l] \in {lists[l], Nothing}
        /\ members' \subseteq members /\ \A m \in members' : lists'[m[1]] = lists[m[1]]
    BY <1>4, <2>1 DEF Lists
  <2>3. r \notin OfOp("list")
    BY <2>1 DEF OfOp
  <2>4. \A l \in OfOp("list") : pc'[l] = pc[l]
    BY <1>3, <2>3
  <2>5. \A l \in OfOp("list") : pc'[l] \in {"new", "begin"} => lists'[l] = Nothing
    BY <2>2, <2>4 DEF Lists
  <2>6. \A q \in plan.reqs : pc'[q] \in {"member", "ask"} => \E l \in OfOp("list") :
          l = Req[q].of /\ pc'[l] \notin {"new", "begin"} /\ lists'[l] \in {held'[q].user, Nothing}
    <3> SUFFICES ASSUME NEW q \in plan.reqs, pc'[q] \in {"member", "ask"}
                 PROVE  \E l \in OfOp("list") :
                          l = Req[q].of /\ pc'[l] \notin {"new", "begin"} /\ lists'[l] \in {held'[q].user, Nothing}
      OBVIOUS
    <3>1. q # r /\ pc[q] \in {"member", "ask"} /\ held'[q] = held[q]
      BY <1>3, <2>1
    <3>2. PICK l \in OfOp("list") : l = Req[q].of /\ pc[l] \notin {"new", "begin"} /\ lists[l] \in {held[q].user, Nothing}
      BY <3>1 DEF Lists
    <3>3. QED
      BY <2>2, <2>4, <3>1, <3>2
  <2>7. \A m \in members' : m[1] \in OfOp("list") /\ \A u \in {lists'[m[1]]} : u \in Users /\ PutIn(m[1], m[2], u)'
    BY <1>4, <2>2
  <2>8. QED
    BY <1>6, <2>1, <2>2, <2>5, <2>6, <2>7
<1>9. CASE GetMastodonList(r) \/ ReadFirst(r)
  <2>1. /\ Req[r].op # "list" /\ lists' = lists /\ members' = members
        /\ \/ pc[r] = "begin" /\ OwnsList(held[r].user, Req[r].of) /\ \E l \in {"member", "ask"} : Goto(r, l, held[r])
           \/ (\E x : Goto(r, "rows", x)) \/ \E code : Reply(r, code)
    <3>1. CASE GetMastodonList(r)
      BY <3>1 DEF GetMastodonList, At, statusVars, timelineVars
    <3>2. CASE ReadFirst(r)
      BY <3>2 DEF ReadFirst, BeginRead, Reads
    <3>3. QED
      BY <1>9, <3>1, <3>2
  <2>2. \/ pc[r] = "begin" /\ OwnsList(held[r].user, Req[r].of) /\ pc'[r] \in {"member", "ask"} /\ held'[r] = held[r]
        \/ pc'[r] \in {"rows", "answered"}
    BY <2>1, Going, Replying
  <2>3. pc[r] = "begin" => held[r].user \in Users
    BY DEF Bears, Begins
  <2>4. r \notin OfOp("list")
    BY <2>1 DEF OfOp
  <2>5. \A l \in OfOp("list") : pc'[l] = pc[l]
    BY <1>3, <2>4
  <2>6. \A l \in OfOp("list") : pc'[l] \in {"new", "begin"} => lists'[l] = Nothing
    BY <2>1, <2>5 DEF Lists
  <2>7. \A q \in plan.reqs : pc'[q] \in {"member", "ask"} => \E l \in OfOp("list") :
          l = Req[q].of /\ pc'[l] \notin {"new", "begin"} /\ lists'[l] \in {held'[q].user, Nothing}
    <3> SUFFICES ASSUME NEW q \in plan.reqs, pc'[q] \in {"member", "ask"}
                 PROVE  \E l \in OfOp("list") :
                          l = Req[q].of /\ pc'[l] \notin {"new", "begin"} /\ lists'[l] \in {held'[q].user, Nothing}
      OBVIOUS
    <3>1. CASE q = r
      <4>1. pc[r] = "begin" /\ Req[r].of \in OfOp("list") /\ lists[Req[r].of] = held[r].user /\ held'[r] = held[r]
        BY <2>2, <3>1 DEF OwnsList, Lists
      <4>2. pc[Req[r].of] \notin {"new", "begin"}
        BY <1>5, <2>3, <4>1 DEF Lists
      <4>3. QED
        BY <2>1, <2>5, <3>1, <4>1, <4>2
    <3>2. CASE q # r
      <4>1. pc[q] \in {"member", "ask"} /\ held'[q] = held[q]
        BY <1>3, <3>2
      <4>2. PICK l \in OfOp("list") : l = Req[q].of /\ pc[l] \notin {"new", "begin"} /\ lists[l] \in {held[q].user, Nothing}
        BY <4>1 DEF Lists
      <4>3. QED
        BY <2>1, <2>5, <4>1, <4>2
    <3>3. QED
      BY <3>1, <3>2
  <2>8. lists' \in [OfOp("list") -> Users \cup {Nothing}]
    BY <2>1 DEF Lists
  <2>9. QED
    BY <1>4, <1>6, <2>1, <2>2, <2>6, <2>7, <2>8
<1>10. CASE SetsMember(r)
  <2> DEFINE m0 == <<Req[r].of, Req[r].account>>
  <2>1. /\ pc[r] = "member" /\ lists' = lists /\ pc'[r] = "answered"
        /\ \A m \in members' : m \in members \/ (m = m0 /\ Req[r].op = "add" /\ lists[Req[r].of] # Nothing)
    <3>1. /\ pc[r] = "member" /\ lists' = lists /\ \E code : Reply(r, code)
          /\ \/ members' = members
             \/ members' = members \ {m0}
             \/ members' = members \cup {m0} /\ Req[r].op = "add" /\ lists[Req[r].of] # Nothing
      <4>1. CASE AddMastodonListMember(r)
        BY <4>1 DEF AddMastodonListMember, At
      <4>2. CASE RemoveMastodonListMember(r)
        BY <4>2 DEF RemoveMastodonListMember, At, Done
      <4>3. QED
        BY <1>10, <4>1, <4>2 DEF SetsMember
    <3> HIDE DEF m0
    <3>2. pc'[r] = "answered"
      BY <3>1, Replying
    <3>3. \A m \in members' : m \in members \/ (m = m0 /\ Req[r].op = "add" /\ lists[Req[r].of] # Nothing)
      BY <3>1
    <3>4. QED
      BY <3>1, <3>2, <3>3
  <2>2. Req[r].op \in {"add", "remove"}
    BY <2>1 DEF Handlers, Places
  <2>3. \A l \in OfOp("list") : pc'[l] = pc[l]
    BY <1>3, <2>2 DEF OfOp
  <2>4. \A l \in OfOp("list") : pc'[l] \in {"new", "begin"} => lists'[l] = Nothing
    BY <2>1, <2>3 DEF Lists
  <2>5. \A q \in plan.reqs : pc'[q] \in {"member", "ask"} => \E l \in OfOp("list") :
          l = Req[q].of /\ pc'[l] \notin {"new", "begin"} /\ lists'[l] \in {held'[q].user, Nothing}
    <3> SUFFICES ASSUME NEW q \in plan.reqs, pc'[q] \in {"member", "ask"}
                 PROVE  \E l \in OfOp("list") :
                          l = Req[q].of /\ pc'[l] \notin {"new", "begin"} /\ lists'[l] \in {held'[q].user, Nothing}
      OBVIOUS
    <3>1. pc[q] \in {"member", "ask"} /\ held'[q] = held[q]
      BY <1>3, <2>1
    <3>2. PICK l \in OfOp("list") : l = Req[q].of /\ pc[l] \notin {"new", "begin"} /\ lists[l] \in {held[q].user, Nothing}
      BY <3>1 DEF Lists
    <3>3. QED
      BY <2>1, <2>3, <3>1, <3>2
  <2>6. ASSUME Req[r].op = "add", lists[Req[r].of] # Nothing
        PROVE  /\ Req[r].of \in OfOp("list")
               /\ \A u \in {lists[Req[r].of]} : u \in Users /\ PutIn(Req[r].of, Req[r].account, u)'
    <3>1. held[r].user \in Users /\ Bearer(Req[r].token) = {held[r].user}
      BY <2>1 DEF Bears, Begins
    <3>2. Req[r].of \in OfOp("list") /\ lists[Req[r].of] = held[r].user
      BY <2>1, <2>6 DEF Lists
    <3>3. PICK u \in Users : u = held[r].user
      BY <3>1
    <3>4. Bearer(Req[r].token)' = {u}
      BY <1>5, <3>1, <3>3 DEF BearersStay
    <3>5. r \in (OfOp("add") \cap Begun)'
      BY <1>3, <2>1, <2>6 DEF OfOp, Begun
    <3>6. PutIn(Req[r].of, Req[r].account, u)'
      BY <3>4, <3>5 DEF PutIn
    <3>7. QED
      BY <3>2, <3>3, <3>6
  <2>7. \A m \in members' : m[1] \in OfOp("list") /\ \A u \in {lists'[m[1]]} : u \in Users /\ PutIn(m[1], m[2], u)'
    <3> SUFFICES ASSUME NEW m \in members'
                 PROVE  m[1] \in OfOp("list") /\ \A u \in {lists[m[1]]} : u \in Users /\ PutIn(m[1], m[2], u)'
      BY <2>1
    <3>1. CASE m \in members
      BY <1>4, <3>1
    <3>2. CASE m \notin members
      <4>1. m = m0 /\ Req[r].op = "add" /\ lists[Req[r].of] # Nothing
        BY <2>1, <2>2, <3>2
      <4>2. m[1] = Req[r].of /\ m[2] = Req[r].account
        BY <4>1
      <4>3. QED
        BY <2>6, <4>1, <4>2
    <3>3. QED
      BY <3>1, <3>2
  <2>8. lists' \in [OfOp("list") -> Users \cup {Nothing}]
    BY <2>1 DEF Lists
  <2>9. QED
    BY <1>6, <2>1, <2>4, <2>5, <2>7, <2>8
<1>11. QED
  BY <1>7, <1>8, <1>9, <1>10

\* Every step keeps the members of a list those its owner put there.
LEMMA NextLists ==
  ASSUME Handlers, Exchanges, Bears, Lists, [Next]_vars
  PROVE  Lists'
<1>1. BegunGrow /\ BearersStay
  BY NextBegunGrow, NextExchanges
<1>2. ASSUME NEW r \in plan.reqs, Step(r), UNCHANGED <<lists, members>>,
             pc'[r] = "begin" => pc[r] = "new", pc'[r] \notin {"member", "ask"}
      PROVE  Lists'
  <2>1. pc'[r] # "new" /\ \A q \in plan.reqs \ {r} : pc'[q] = pc[q] /\ held'[q] = held[q]
    BY <1>2, StepMoves, OneMoves DEF Moves
  <2>2. \A q \in plan.reqs : /\ pc'[q] \in {"new", "begin"} => pc[q] \in {"new", "begin"}
                             /\ pc'[q] \in {"member", "ask"} => pc'[q] = pc[q] /\ held'[q] = held[q]
    BY <1>2, <2>1
  <2>3. QED
    BY <1>1, <1>2, <2>2, QuietLists
<1>3. ASSUME NEW r \in plan.reqs, Step(r)
      PROVE  Lists'
  <2>1. CASE (OAuthStep(r) \/ bearer(r) \/ MediaStep(r) \/ StatusStep(r)) /\ UNCHANGED timelineVars
    <3>1. pc'[r] \notin {"member", "ask"} /\ (pc'[r] = "begin" => pc[r] = "new")
      BY <2>1, OAuthMoves, BearerMoves, MediaMoves, StatusMoves DEF Moves
    <3>2. QED
      BY <1>2, <1>3, <2>1, <3>1 DEF timelineVars
  <2>2. CASE postLists(r) \/ deleteListByID(r) \/ GetMastodonList(r) \/ SetsMember(r) \/ ReadFirst(r)
    BY <1>1, <2>2, ListSteps
  <2>3. CASE \/ putListByID(r) \/ postFilters(r) \/ putFilterByID(r) \/ deleteFilterByID(r)
             \/ ListMastodonListMemberActorIDs(r) \/ ReadRows(r) \/ filterActivityRowsForViewer(r) \/ TimelineFail(r)
    <3>1. TimelineStep(r)
      BY <2>3 DEF TimelineStep
    <3>2. UNCHANGED <<lists, members>>
      BY <2>3 DEF putListByID, postFilters, putFilterByID, deleteFilterByID,
                  ListMastodonListMemberActorIDs, ReadRows, filterActivityRowsForViewer, TimelineFail, timelineVars
    <3>3. pc'[r] # "begin"
      BY <3>1, TimelineMoves DEF Moves
    <3>4. pc'[r] \notin {"member", "ask"}
      <4>1. CASE putListByID(r) \/ postFilters(r) \/ putFilterByID(r) \/ deleteFilterByID(r)
        <5>1. \E code : Reply(r, code)
          BY <4>1, ListReplies
        <5>2. QED
          BY <5>1, Replying
      <4>2. CASE ListMastodonListMemberActorIDs(r) \/ ReadRows(r)
        <5>1. \E l \in {"rows", "filter"} : \E x : Goto(r, l, x)
          BY <4>2 DEF ListMastodonListMemberActorIDs, ReadRows
        <5>2. QED
          BY <5>1, Going, Replying
      <4>3. CASE filterActivityRowsForViewer(r) \/ TimelineFail(r)
        <5>1. \E code : Reply(r, code)
          <6>1. CASE filterActivityRowsForViewer(r)
            BY <6>1 DEF filterActivityRowsForViewer
          <6>2. CASE TimelineFail(r)
            BY <6>2, Zenon DEF TimelineFail
          <6>3. QED
            BY <4>3, <6>1, <6>2
        <5>2. QED
          BY <5>1, Replying
      <4>4. QED
        BY <2>3, <4>1, <4>2, <4>3
    <3>5. QED
      BY <1>2, <1>3, <3>2, <3>3, <3>4
  <2>4. QED
    BY <1>3, <2>1, <2>2, <2>3 DEF Step, TimelineStep, SetsMember
<1>4. CASE Crash
  <2>1. UNCHANGED <<lists, members>>
    BY <1>4 DEF Crash, timelineVars
  <2>2. \A q \in plan.reqs : /\ pc'[q] \in {"new", "begin"} => pc[q] \in {"new", "begin"}
                             /\ pc'[q] \in {"member", "ask"} => pc'[q] = pc[q] /\ held'[q] = held[q]
    BY <1>4, CrashMoves
  <2>3. QED
    BY <1>1, <2>1, <2>2, QuietLists
<1>5. ASSUME Stays, UNCHANGED <<lists, members>>
      PROVE  Lists'
  BY <1>1, <1>5, QuietLists DEF Stays
<1>6. QED
  BY <1>3, <1>4, <1>5, NextCases DEF timelineVars

---------------------------------------------------------------------------------
(***************************************************************************)
(* Reads                                                                   *)
(***************************************************************************)
\* What is deleted stays so.
LEMMA NextDeletedGrow ==
  ASSUME [Next]_vars
  PROVE  deleted \subseteq deleted'
<1>1. ASSUME NEW r \in plan.reqs, StatusStep(r)
      PROVE  deleted \subseteq deleted'
  BY <1>1 DEF StatusStep, postStatuses, deleteStatus, SoftDeleteActivityForActor, Social, UndoSocial,
              Bookmark, PublishLocalActivityBytes, getStatus, StatusFail, HandleFollow, statusVars
<1>2. ASSUME NEW r \in plan.reqs, Step(r), ~StatusStep(r)
      PROVE  deleted \subseteq deleted'
  BY <1>2, TimelineAlone DEF Step, statusVars
<1>3. CASE Crash
  BY <1>3 DEF Crash, statusVars
<1>4. QED
  BY <1>1, <1>2, <1>3, NextCases DEF statusVars

\* What a reader may see he may still see, as far as others go on.
LEMMA ShowsStays ==
  ASSUME Handlers, BegunGrow, BearersStay, ActivitiesGrow, NEW r \in Readers, NEW S, Shows(r, S),
         read'[r].deleted = read[r].deleted,
         read'[r].members = read[r].members, read'[r].answered = read[r].answered
  PROVE  Shows(r, S)'
<1>1. r \in plan.reqs /\ r \in Requests /\ Statuses' = Statuses
  BY ApiAssumption DEF Readers, Handlers, BegunGrow, Statuses, OfOp
<1>2. \A x \in S : x \in Statuses' /\ IsNote(x)' /\ activities'[x] = activities[x]
  BY <1>1 DEF Shows, IsNote, Exists, ActivitiesGrow
<1>3. ASSUME Req[r].op = "list timeline", NEW x \in S, NEW y \in {activities'[x].actor}
      PROVE  PutSince(r, y)'
  <2>1. PutSince(r, y)
    BY <1>2, <1>3 DEF Shows
  <2>2. QED
    BY <1>1, <2>1, PutSinceStays
<1>4. ASSUME Req[r].op = "conversations", NEW x \in S
      PROVE  \/ Bearer(Req[r].token)' = {activities'[x].actor}
             \/ \E u \in Req[x].direct : Bearer(Req[r].token)' = {u}
  <2>1. CASE Bearer(Req[r].token) = {activities[x].actor}
    BY <1>1, <1>2, <2>1 DEF BearersStay
  <2>2. ASSUME NEW u \in Req[x].direct, Bearer(Req[r].token) = {u}
        PROVE  Bearer(Req[r].token)' = {u}
    BY <1>1, <2>2 DEF BearersStay
  <2>3. QED
    BY <1>4, <2>1, <2>2 DEF Shows
<1>5. S \cap read'[r].deleted = {}
  BY DEF Shows
<1>6. QED
  BY <1>2, <1>3, <1>4, <1>5 DEF Shows

\* Who comes on a list while its timeline is read is put there by its reader, in a request
\* that was not answered when the read began.
LEMMA NewMembers ==
  ASSUME Handlers, Bears, Lists, Asks, BegunGrow, BearersStay, NEW r \in Readers, pc[r] = "ask",
         read'[r] = read[r], NEW q \in plan.reqs, SetsMember(q), NEW m \in members' \ members, m[1] = Req[r].of
  PROVE  Fresh(r, m[2])'
<1>1. /\ AddMastodonListMember(q) /\ m = <<Req[q].of, Req[q].account>> /\ lists[Req[q].of] # Nothing
      /\ pc[q] = "member" /\ Req[q].op = "add"
  BY DEF SetsMember, AddMastodonListMember, RemoveMastodonListMember, At
<1>2. Req[q].of = Req[r].of /\ Req[q].account = m[2] /\ r \in plan.reqs
  BY <1>1 DEF Readers
<1>3. lists[Req[r].of] = held[q].user /\ lists[Req[r].of] = held[r].user
  BY <1>1, <1>2 DEF Lists
<1>4. Bearer(Req[q].token) = {held[q].user} /\ Bearer(Req[r].token) = {held[r].user}
  BY <1>1, <1>2 DEF Bears, Begins
<1>5. Bearer(Req[q].token)' = Bearer(Req[r].token)'
  BY <1>2, <1>3, <1>4, ApiAssumption DEF BearersStay, Handlers
<1>6. q \in (OfOp("add") \cap Begun)'
  BY <1>1 DEF BegunGrow, OfOp, Begun
<1>7. AskOk(r)
  BY DEF Asks
<1>8. q \notin read[r].answered
  BY <1>1, <1>7 DEF AskOk
<1>9. QED
  BY <1>2, <1>5, <1>6, <1>8 DEF Fresh

\* A read that does not move stays as it should be.
LEMMA AskStays ==
  ASSUME Handlers, BegunGrow, BearersStay, ActivitiesGrow, deleted \subseteq deleted',
         NEW r \in Readers, AskOk(r), read'[r] = read[r],
         pc'[r] \in {"ask", "rows", "filter"} => pc'[r] = pc[r] /\ held'[r] = held[r],
         pc'[r] = "ask" => \A m \in members' : m[1] = Req[r].of => m \in members \/ Fresh(r, m[2])'
  PROVE  AskOk(r)'
<1>1. r \in plan.reqs /\ r \in Requests
  BY ApiAssumption DEF Readers, Handlers
<1>2. \A S : Shows(r, S) => Shows(r, S)'
  BY ShowsStays
<1>3. \A x : PutSince(r, x) => PutSince(r, x)'
  BY <1>1, PutSinceStays
<1>4. /\ \A y \in {read'[r]} : Fields(y)
      /\ read'[r].deleted \subseteq deleted'
      /\ \A q \in read'[r].answered : q \in plan'.reqs /\ pc'[q] = "answered"
      /\ \A S \in {read'[r].shown} : Shows(r, S)'
  BY <1>1, <1>2 DEF AskOk, BegunGrow
<1>5. /\ pc'[r] \in {"ask", "rows", "filter"} \/ read'[r].shown # {} =>
           Req[r].op \in {"public", "account"} \/ Bearer(Req[r].token)' # {}
      /\ pc'[r] \in {"ask", "rows", "filter"} => read'[r].shown = {}
  BY <1>1 DEF AskOk, BearersStay
<1>6. ASSUME pc'[r] = "ask", NEW m \in members', m[1] = Req[r].of
      PROVE  OnIt(r, m[2])'
  <2>1. CASE Fresh(r, m[2])'
    BY <2>1 DEF OnIt
  <2>2. CASE m \in members
    <3>1. pc[r] = "ask" /\ OnIt(r, m[2])
      BY <1>6, <2>2 DEF AskOk
    <3>2. Bearer(Req[r].token) # {}
      BY <1>1, <3>1 DEF AskOk, Handlers, Places
    <3>3. QED
      BY <1>1, <3>1, <3>2, OnItStays
  <2>3. QED
    BY <1>6, <2>1, <2>2
<1>7. pc'[r] = "rows" =>
        /\ held'[r] = [user |-> held'[r].user, asked |-> held'[r].asked]
        /\ Req[r].op = "list timeline" => \A x \in held'[r].asked : PutSince(r, x)'
  BY <1>3 DEF AskOk
<1>8. pc'[r] = "filter" => \A S \in {held'[r].asked} : Shows(r, S)'
  BY <1>2 DEF AskOk
<1>9. QED
  BY <1>4, <1>5, <1>6, <1>7, <1>8 DEF AskOk

\* A read begins with what there is.
LEMMA BeginReads ==
  ASSUME NEW r \in plan.reqs, NEW user, Handlers, Bears, Lists, Asks, BegunGrow, BearersStay, ActivitiesGrow,
         deleted \subseteq deleted',
         BeginRead(r, user), Req[r].op \notin {"public", "account"} => pc[r] = "begin" /\ user = held[r].user
  PROVE  AskOk(r)' /\ DOMAIN read' = Readers /\ \A q \in Readers \ {r} : read'[q] = read[q]
<1>1. r \in Readers /\ DOMAIN read = Readers /\ AskOk(r) /\ r \in Requests
  BY ApiAssumption DEF BeginRead, Readers, Asks, Handlers
<1>2. CASE read' = read /\ \E code : Reply(r, code)
  <2>1. pc'[r] = "answered"
    BY <1>2, Replying
  <2>2. AskOk(r)'
    BY <1>1, <1>2, <2>1, AskStays
  <2>3. QED
    BY <1>1, <1>2, <2>2
<1>3. ASSUME NEW l \in {"ask", "rows"}, NEW x, Goto(r, l, x), read' = [read EXCEPT ![r] = Before(r, user)],
             l = "ask" => Req[r].op = "list timeline",
             l = "rows" => Req[r].op # "list timeline" /\ x = [user |-> x.user, asked |-> x.asked]
      PROVE  AskOk(r)' /\ DOMAIN read' = Readers /\ \A q \in Readers \ {r} : read'[q] = read[q]
  <2> DEFINE y == Before(r, user)
  <2>1. /\ y.answered = {q \in plan.reqs : pc[q] = "answered"} /\ y.deleted = deleted /\ y.members = Asked(r, user)
        /\ y.shown = {}
    BY DEF Before
  <2>2. Fields(y)
    BY DEF Before, Fields
  <2> HIDE DEF y
  <2>3. read'[r] = y /\ DOMAIN read' = Readers /\ \A q \in Readers \ {r} : read'[q] = read[q]
    BY <1>1, <1>3 DEF y
  <2>4. pc'[r] = l /\ held'[r] = x
    BY <1>3, Going
  <2>5. Req[r].op \notin {"public", "account"} => Bearer(Req[r].token)' # {}
    BY <1>1 DEF Bears, Begins, BearersStay
  <2>6. \A q \in read'[r].answered : q \in plan'.reqs /\ pc'[q] = "answered"
    BY <2>1, <2>3 DEF BegunGrow
  <2>7. \A S \in {read'[r].shown} : Shows(r, S)'
    BY <2>1, <2>3 DEF Shows
  <2>8. l = "ask" => \A m \in members' : m[1] = Req[r].of => OnIt(r, m[2])'
    <3>1. members' = members
      BY DEF BeginRead
    <3>2. l = "ask" => Asked(r, user) = {m[2] : m \in {e \in members : e[1] = Req[r].of}}
      BY <1>3 DEF Asked
    <3>3. QED
      BY <2>1, <2>3, <3>1, <3>2 DEF OnIt
  <2>9. /\ read'[r].shown = {} /\ read'[r].deleted \subseteq deleted'
        /\ \A z \in {read'[r]} : Fields(z)
    BY <2>1, <2>2, <2>3
  <2>10. AskOk(r)'
    BY <1>3, <2>4, <2>5, <2>6, <2>7, <2>8, <2>9 DEF AskOk
  <2>11. QED
    BY <2>3, <2>10
<1>4. CASE Req[r].op # "list timeline" /\ Goto(r, "rows", [user |-> user, asked |-> Asked(r, user)])
           /\ read' = [read EXCEPT ![r] = Before(r, user)]
  <2> DEFINE x == [user |-> user, asked |-> Asked(r, user)]
  <2>1. x = [user |-> x.user, asked |-> x.asked]
    OBVIOUS
  <2>2. PICK v : v = x
    OBVIOUS
  <2>3. v = [user |-> v.user, asked |-> v.asked] /\ Goto(r, "rows", v)
    BY <1>4, <2>1, <2>2
  <2>4. QED
    BY <1>3, <1>4, <2>3
<1>5. CASE Req[r].op = "list timeline" /\ Goto(r, "ask", held[r]) /\ read' = [read EXCEPT ![r] = Before(r, user)]
  <2>1. PICK v : v = held[r]
    OBVIOUS
  <2>2. QED
    BY <1>3, <1>5, <2>1
<1>6. QED
  BY <1>2, <1>4, <1>5 DEF BeginRead

\* The members that a reader of a list finds are those its owner, who reads, put there.
LEMMA MemberReads ==
  ASSUME NEW r \in plan.reqs, Handlers, Bears, Lists, Asks, BegunGrow, BearersStay, ActivitiesGrow,
         deleted' = deleted, ListMastodonListMemberActorIDs(r)
  PROVE  AskOk(r)'
<1>1. /\ r \in Readers /\ AskOk(r) /\ pc[r] = "ask" /\ read' = read /\ Req[r].op = "list timeline"
      /\ r \in Requests
  BY ApiAssumption DEF ListMastodonListMemberActorIDs, Handlers, Places, Readers, Asks, timelineVars, Reads
<1> DEFINE x == [user |-> held[r].user, asked |-> Asked(r, held[r].user)]
<1>2. x.asked = Asked(r, held[r].user) /\ x = [user |-> x.user, asked |-> x.asked]
  OBVIOUS
<1>3. PICK v : v = x
  OBVIOUS
<1>4. /\ v.asked = Asked(r, held[r].user) /\ v = [user |-> v.user, asked |-> v.asked]
      /\ Goto(r, "rows", v)
  BY <1>2, <1>3 DEF ListMastodonListMemberActorIDs
<1>5. pc'[r] = "rows" /\ held'[r] = v
  BY <1>4, Going
<1>6. ASSUME NEW z \in v.asked
      PROVE  PutSince(r, z)'
  <2>1. PICK m \in members : m[1] = Req[r].of /\ z = m[2]
    <3>1. Asked(r, held[r].user) = {m[2] : m \in {e \in members : e[1] = Req[r].of}}
      BY <1>1 DEF Asked
    <3>2. z \in {m[2] : m \in {e \in members : e[1] = Req[r].of}}
      BY <1>4, <1>6, <3>1
    <3>3. QED
      BY <3>2
  <2>2. held[r].user \in Users /\ Bearer(Req[r].token) = {held[r].user}
    BY <1>1 DEF Bears, Begins
  <2>3. lists[Req[r].of] \in {held[r].user, Nothing} /\ lists[Req[r].of] \in Users
    BY <1>1, <2>1 DEF Lists
  <2>4. PutIn(Req[r].of, z, held[r].user)
    BY <2>1, <2>3, StatusAssumption DEF Lists
  <2>5. OnIt(r, z)
    BY <1>1, <2>1 DEF AskOk
  <2>6. PutSince(r, z)
    BY <2>2, <2>4, <2>5 DEF PutSince, PutBy
  <2>7. QED
    BY <1>1, <2>6, PutSinceStays
<1>7. \A S \in {read'[r].shown} : Shows(r, S)'
  BY <1>1 DEF AskOk, Shows
<1>8. /\ Bearer(Req[r].token)' # {}
      /\ \A q \in read'[r].answered : q \in plan'.reqs /\ pc'[q] = "answered"
  BY <1>1 DEF AskOk, BearersStay, BegunGrow
<1>9. /\ read'[r].shown = {} /\ read'[r].deleted \subseteq deleted'
      /\ \A y \in {read'[r]} : Fields(y)
  BY <1>1 DEF AskOk
<1>10. QED
  BY <1>4, <1>5, <1>6, <1>7, <1>8, <1>9 DEF AskOk

\* The rows that are read are those the reader may see.
LEMMA RowReads ==
  ASSUME NEW r \in plan.reqs, Handlers, Bears, Rows, Asks, BegunGrow, BearersStay, ActivitiesGrow,
         deleted' = deleted, ReadRows(r)
  PROVE  AskOk(r)'
<1>1. r \in Readers /\ AskOk(r) /\ pc[r] = "rows" /\ read' = read /\ r \in Requests
  BY ApiAssumption DEF ReadRows, Handlers, Places, Readers, Asks, timelineVars
<1>2. /\ read[r].deleted \subseteq deleted
      /\ held[r] = [user |-> held[r].user, asked |-> held[r].asked]
  BY <1>1 DEF AskOk
<1>3. PICK R : R = {x \in Statuses \ deleted : IsNote(x) /\ Wanted(r, x)}
  OBVIOUS
<1>4. PICK v : v = [held[r] EXCEPT !.asked = R]
  OBVIOUS
<1>5. v.asked = R
  BY <1>2, <1>4
<1>6. pc'[r] = "filter" /\ held'[r] = v
  BY <1>3, <1>4, Going DEF ReadRows
<1>7. Shows(r, R)
  <2>1. R \cap read[r].deleted = {}
    BY <1>2, <1>3
  <2>2. ASSUME Req[r].op = "list timeline", NEW x \in R, NEW y \in {activities[x].actor}
        PROVE  PutSince(r, y)
    <3>1. y \in held[r].asked
      BY <1>3, <2>2 DEF Wanted
    <3>2. QED
      BY <1>1, <2>2, <3>1 DEF AskOk
  <2>3. ASSUME Req[r].op = "conversations", NEW x \in R
        PROVE  \/ Bearer(Req[r].token) = {activities[x].actor}
               \/ \E u \in Req[x].direct : Bearer(Req[r].token) = {u}
    <3>1. Bearer(Req[r].token) = {held[r].user}
      BY <1>1, <2>3 DEF Bears, Begins
    <3>2. activities[x].actor = held[r].user \/ held[r].user \in Req[x].direct
      BY <1>3, <2>3 DEF Wanted
    <3>3. QED
      BY <3>1, <3>2
  <2>4. \A x \in R : x \in Statuses /\ IsNote(x)
    BY <1>3
  <2>5. QED
    BY <2>1, <2>2, <2>3, <2>4 DEF Shows
<1>8. Shows(r, R)'
  BY <1>1, <1>7, ShowsStays
<1>9. \A S \in {held'[r].asked} : Shows(r, S)'
  BY <1>5, <1>6, <1>8
<1>10. \A S \in {read'[r].shown} : Shows(r, S)'
  BY <1>1 DEF AskOk, Shows
<1>11. /\ Req[r].op \in {"public", "account"} \/ Bearer(Req[r].token)' # {}
       /\ \A q \in read'[r].answered : q \in plan'.reqs /\ pc'[q] = "answered"
  BY <1>1 DEF AskOk, BearersStay, BegunGrow
<1>12. /\ read'[r].shown = {} /\ read'[r].deleted \subseteq deleted'
       /\ \A y \in {read'[r]} : Fields(y)
  BY <1>1 DEF AskOk
<1>13. QED
  BY <1>6, <1>9, <1>10, <1>11, <1>12 DEF AskOk

\* What is shown is what was read, without what is hidden.
LEMMA Filtering ==
  ASSUME NEW r \in plan.reqs, Handlers, Asks, filterActivityRowsForViewer(r)
  PROVE  /\ r \in Readers /\ AskOk(r) /\ pc[r] = "filter" /\ pc'[r] = "answered"
         /\ \A y \in {read'[r]} : Fields(y)
         /\ DOMAIN read' = Readers /\ \A q \in Readers \ {r} : read'[q] = read[q]
         /\ read'[r].answered = read[r].answered /\ read'[r].deleted = read[r].deleted
         /\ read'[r].members = read[r].members /\ read'[r].filters = read[r].filters
         /\ \E h : /\ read'[r].shown = held[r].asked \ h
                   /\ ~read'[r].unfiltered /\ Req[r].op \in {"home", "list timeline"} => h = Hidden(held[r].user, "home")
<1>1. r \in Readers /\ AskOk(r) /\ pc[r] = "filter" /\ pc'[r] = "answered" /\ DOMAIN read = Readers
  <2>1. pc[r] = "filter" /\ Reply(r, 200)
    BY DEF filterActivityRowsForViewer
  <2>2. r \in Readers
    BY <2>1 DEF Handlers, Places, Readers
  <2>3. pc'[r] = "answered"
    BY <2>1, Replying
  <2>4. QED
    BY <2>1, <2>2, <2>3 DEF Asks
<1>2. PICK hidden : hidden = IF Req[r].op \in {"home", "list timeline"} THEN Hidden(held[r].user, "home") ELSE {}
  OBVIOUS
<1>3. PICK h : read' = [read EXCEPT ![r].shown = held[r].asked \ h, ![r].unfiltered = (h # hidden)]
  BY <1>2 DEF filterActivityRowsForViewer
<1>4. PICK A : A = held[r].asked \ h
  OBVIOUS
<1>5. PICK b \in BOOLEAN : b = (h # hidden)
  OBVIOUS
<1>6. read' = [read EXCEPT ![r].shown = A, ![r].unfiltered = b]
  BY <1>3, <1>4, <1>5
<1>7. read[r] = [answered |-> read[r].answered, deleted |-> read[r].deleted, liked |-> read[r].liked,
                 members |-> read[r].members, filters |-> read[r].filters,
                 unfiltered |-> read[r].unfiltered, shown |-> read[r].shown]
  BY <1>1 DEF AskOk, Fields
<1> DEFINE y == [answered |-> read[r].answered, deleted |-> read[r].deleted, liked |-> read[r].liked,
                 members |-> read[r].members, filters |-> read[r].filters, unfiltered |-> b, shown |-> A]
<1>8. read'[r] = y
  BY <1>1, <1>6, <1>7
<1>9. /\ Fields(y) /\ y.answered = read[r].answered /\ y.deleted = read[r].deleted
      /\ y.members = read[r].members /\ y.filters = read[r].filters /\ y.shown = A /\ y.unfiltered = b
  BY DEF Fields
<1> HIDE DEF y
<1>10. DOMAIN read' = Readers /\ \A q \in Readers \ {r} : read'[q] = read[q]
  BY <1>1, <1>6
<1>11. /\ read'[r].shown = held[r].asked \ h
       /\ ~read'[r].unfiltered /\ Req[r].op \in {"home", "list timeline"} => h = Hidden(held[r].user, "home")
  BY <1>2, <1>4, <1>5, <1>8, <1>9
<1>12. QED
  BY <1>1, <1>8, <1>9, <1>10, <1>11

LEMMA FilterReads ==
  ASSUME NEW r \in plan.reqs, Handlers, Asks, BegunGrow, BearersStay, ActivitiesGrow,
         deleted \subseteq deleted', filterActivityRowsForViewer(r)
  PROVE  AskOk(r)' /\ DOMAIN read' = Readers /\ \A q \in Readers \ {r} : read'[q] = read[q]
<1>1. /\ r \in Readers /\ AskOk(r) /\ pc[r] = "filter" /\ pc'[r] = "answered"
      /\ \A y \in {read'[r]} : Fields(y)
      /\ DOMAIN read' = Readers /\ \A q \in Readers \ {r} : read'[q] = read[q]
      /\ read'[r].answered = read[r].answered /\ read'[r].deleted = read[r].deleted
      /\ read'[r].members = read[r].members
  BY Filtering
<1>2. PICK A, h : A = held[r].asked /\ read'[r].shown = A \ h
  BY Filtering
<1>3. Shows(r, A)
  BY <1>1, <1>2 DEF AskOk
<1>4. Shows(r, A \ h)
  BY <1>3 DEF Shows
<1>5. Shows(r, A \ h)'
  BY <1>1, <1>4, ShowsStays
<1>6. \A S \in {read'[r].shown} : Shows(r, S)'
  BY <1>2, <1>5
<1>7. /\ Req[r].op \in {"public", "account"} \/ Bearer(Req[r].token)' # {}
      /\ \A q \in read'[r].answered : q \in plan'.reqs /\ pc'[q] = "answered"
      /\ read'[r].deleted \subseteq deleted'
  BY <1>1, <1>3, ApiAssumption DEF AskOk, BearersStay, BegunGrow, Handlers
<1>8. AskOk(r)'
  BY <1>1, <1>6, <1>7 DEF AskOk
<1>9. QED
  BY <1>1, <1>8

\* Every step keeps the reads honest.
LEMMA NextAsks ==
  ASSUME Handlers, Exchanges, Bears, Files, Audience, Rows, Edges, Lists, Asks, [Next]_vars
  PROVE  Asks'
<1>1. BegunGrow /\ BearersStay /\ ActivitiesGrow /\ deleted \subseteq deleted'
  BY NextBegunGrow, NextExchanges, NextRows, NextDeletedGrow
<1>2. plan' = plan /\ Readers' = Readers /\ OfOp("filter")' = OfOp("filter")
  BY <1>1 DEF BegunGrow, Readers, OfOp
<1>3. ASSUME DOMAIN filters' = DOMAIN filters, DOMAIN read' = Readers, \A r \in Readers : AskOk(r)'
      PROVE  Asks'
  BY <1>2, <1>3 DEF Asks
<1>4. ASSUME NEW r \in Readers, read'[r] = read[r],
             pc'[r] \in {"ask", "rows", "filter"} => pc'[r] = pc[r] /\ held'[r] = held[r],
             members' \subseteq members \/ \E q \in plan.reqs : SetsMember(q)
      PROVE  AskOk(r)'
  <2>1. pc'[r] = "ask" => \A m \in members' : m[1] = Req[r].of => m \in members \/ Fresh(r, m[2])'
    BY <1>1, <1>4, NewMembers
  <2>2. QED
    BY <1>1, <1>4, <2>1, AskStays DEF Asks
<1>5. ASSUME NEW r \in plan.reqs, Step(r)
      PROVE  Asks'
  <2>1. \A q \in plan.reqs \ {r} : pc'[q] = pc[q] /\ held'[q] = held[q]
    BY <1>5, StepMoves, OneMoves
  <2>2. ASSUME DOMAIN filters' = DOMAIN filters, UNCHANGED read, pc'[r] \notin {"ask", "rows", "filter"},
               members' \subseteq members \/ SetsMember(r)
        PROVE  Asks'
    <3>1. \A q \in Readers : AskOk(q)'
      BY <1>4, <2>1, <2>2 DEF Readers
    <3>2. QED
      BY <1>3, <2>2, <3>1 DEF Asks
  <2>3. ASSUME DOMAIN filters' = DOMAIN filters, DOMAIN read' = Readers,
               \A q \in Readers \ {r} : read'[q] = read[q], r \in Readers => AskOk(r)', members' = members
        PROVE  Asks'
    <3>1. \A q \in Readers \ {r} : AskOk(q)'
      BY <1>4, <2>1, <2>3 DEF Readers
    <3>2. QED
      BY <1>3, <2>3, <3>1
  <2>4. CASE (OAuthStep(r) \/ bearer(r) \/ MediaStep(r) \/ StatusStep(r)) /\ UNCHANGED timelineVars
    <3>1. pc'[r] \notin {"ask", "rows", "filter"}
      BY <2>4, OAuthMoves, BearerMoves, MediaMoves, StatusMoves DEF Moves
    <3>2. QED
      BY <2>2, <2>4, <3>1 DEF timelineVars
  <2>5. CASE postLists(r) \/ putListByID(r) \/ deleteListByID(r) \/ SetsMember(r) \/ TimelineFail(r)
    <3>1. UNCHANGED <<filters, read>> /\ (members' \subseteq members \/ SetsMember(r))
      BY <2>5 DEF postLists, putListByID, deleteListByID, SetsMember, AddMastodonListMember,
                  RemoveMastodonListMember, TimelineFail, timelineVars
    <3>2. \E code : Reply(r, code)
      <4>1. CASE TimelineFail(r)
        <5>1. Reply(r, 404) \/ Reply(r, 500)
          BY <4>1 DEF TimelineFail
        <5>2. QED
          BY <5>1
      <4>2. CASE postLists(r) \/ putListByID(r) \/ deleteListByID(r) \/ SetsMember(r)
        BY <4>2, ListReplies
      <4>3. QED
        BY <2>5, <4>1, <4>2
    <3>3. QED
      BY <2>2, <3>1, <3>2, Replying
  <2>6. CASE GetMastodonList(r)
    <3>1. (Goto(r, "member", held[r]) \/ \E code : Reply(r, code)) /\ UNCHANGED <<filters, read, members>>
      BY <2>6 DEF GetMastodonList, timelineVars
    <3>2. pc'[r] \notin {"ask", "rows", "filter"}
      BY <3>1, Going, Replying
    <3>3. QED
      BY <2>2, <3>1, <3>2
  <2>7. CASE postFilters(r) \/ putFilterByID(r) \/ deleteFilterByID(r)
    <3>1. (\E code : Reply(r, code)) /\ read' = read /\ members' = members /\ DOMAIN filters' = DOMAIN filters
      BY <2>7 DEF postFilters, putFilterByID, deleteFilterByID, Done
    <3>2. QED
      BY <2>2, <3>1, Replying
  <2>8. CASE ReadFirst(r)
    <3>1. PICK user : /\ BeginRead(r, user)
                      /\ Req[r].op \notin {"public", "account"} => pc[r] = "begin" /\ user = held[r].user
      BY <2>8 DEF ReadFirst
    <3>2. UNCHANGED <<filters, members>>
      BY <3>1 DEF BeginRead
    <3>3. AskOk(r)' /\ DOMAIN read' = Readers /\ \A q \in Readers \ {r} : read'[q] = read[q]
      BY <1>1, <3>1, BeginReads
    <3>4. QED
      BY <2>3, <3>2, <3>3
  <2>9. CASE ReadRows(r)
    <3>1. UNCHANGED <<filters, read, members, deleted>>
      BY <2>9 DEF ReadRows, timelineVars, statusVars
    <3>2. AskOk(r)'
      BY <1>1, <2>9, <3>1, RowReads
    <3>3. QED
      BY <2>3, <3>1, <3>2 DEF Asks
  <2>10. CASE filterActivityRowsForViewer(r)
    <3>1. UNCHANGED <<filters, members>>
      BY <2>10 DEF filterActivityRowsForViewer
    <3>2. AskOk(r)' /\ DOMAIN read' = Readers /\ \A q \in Readers \ {r} : read'[q] = read[q]
      BY <1>1, <2>10, FilterReads
    <3>3. QED
      BY <2>3, <3>1, <3>2
  <2>11. CASE ListMastodonListMemberActorIDs(r)
    <3>1. UNCHANGED <<filters, read, members, deleted>>
      BY <2>11 DEF ListMastodonListMemberActorIDs, timelineVars, statusVars
    <3>2. AskOk(r)'
      BY <1>1, <2>11, <3>1, MemberReads
    <3>3. QED
      BY <2>3, <3>1, <3>2 DEF Asks
  <2>12. QED
    BY <1>5, <2>4, <2>5, <2>6, <2>7, <2>8, <2>9, <2>10, <2>11 DEF Step, TimelineStep, SetsMember
<1>6. ASSUME DOMAIN filters' = DOMAIN filters, UNCHANGED <<read, members>>,
             \A r \in plan.reqs : pc'[r] \in {"ask", "rows", "filter"} => pc'[r] = pc[r] /\ held'[r] = held[r]
      PROVE  Asks'
  <2>1. \A q \in Readers : AskOk(q)'
    BY <1>4, <1>6 DEF Readers
  <2>2. QED
    BY <1>3, <1>6, <2>1 DEF Asks
<1>7. CASE Crash
  BY <1>6, <1>7, CrashMoves DEF Crash, timelineVars
<1>8. ASSUME NEW x \in DOMAIN filters, FilterExpires(x), Stays, UNCHANGED <<read, members>>
      PROVE  Asks'
  <2>1. DOMAIN filters' = DOMAIN filters
    BY <1>8 DEF FilterExpires
  <2>2. QED
    BY <1>6, <1>8, <2>1 DEF Stays
<1>9. ASSUME Stays, UNCHANGED timelineVars
      PROVE  Asks'
  BY <1>6, <1>9 DEF Stays, timelineVars
<1>10. QED
  BY <1>5, <1>7, <1>8, <1>9, NextCases

---------------------------------------------------------------------------------
(***************************************************************************)
(* Filters                                                                 *)
(***************************************************************************)
\* Who changes the filter x: the request that makes it, one that puts or deletes it, or time.
Changes(x) ==
  \/ filters'[x] = filters[x]
  \/ pc[x] = "begin" /\ pc'[x] = "answered"
  \/ \E q \in plan.reqs : pc[q] = "begin" /\ Req[q].op \in {"put filter", "delete filter"} /\ Req[q].of = x
  \/ filters'[x].over

\* A row that is there says whether it is over.
Timed(x) == filters'[x] # Nothing => "over" \in DOMAIN filters'[x]

LEMMA FilterChanges ==
  ASSUME Handlers, Exchanges, Asks, Sifts, [Next]_vars, NEW x \in DOMAIN filters
  PROVE  Changes(x) /\ Timed(x) /\ (filters'[x] # Nothing => filters[x] # Nothing \/ pc'[x] = "answered")
<1>1. ASSUME filters' = filters
      PROVE  Changes(x) /\ Timed(x) /\ (filters'[x] # Nothing => filters[x] # Nothing)
  BY <1>1 DEF Changes, Timed, Sifts
<1>2. ASSUME NEW r \in plan.reqs, postFilters(r)
      PROVE  Changes(x) /\ Timed(x) /\ (filters'[x] # Nothing => filters[x] # Nothing \/ pc'[x] = "answered")
  <2>1. pc[r] = "begin" /\ pc'[r] = "answered"
    BY <1>2, ListReplies, Replying DEF postFilters, At
  <2>2. CASE filters' = filters
    BY <1>1, <2>2
  <2>3. CASE filters' = [filters EXCEPT ![r] = Filter(r)]
    <3>1. x # r => filters'[x] = filters[x]
      BY <2>3
    <3>2. x = r => filters'[x] = Filter(r)
      BY <2>3
    <3>3. "over" \in DOMAIN Filter(r)
      BY DEF Filter
    <3>4. QED
      BY <2>1, <3>1, <3>2, <3>3 DEF Changes, Timed, Sifts
  <2>4. QED
    BY <1>2, <2>2, <2>3 DEF postFilters
<1>3. ASSUME NEW r \in plan.reqs, putFilterByID(r) \/ deleteFilterByID(r)
      PROVE  Changes(x) /\ Timed(x) /\ (filters'[x] # Nothing => filters[x] # Nothing)
  <2>1. /\ pc[r] = "begin" /\ Req[r].op \in {"put filter", "delete filter"}
        /\ \/ filters' = filters
           \/ /\ OwnsFilter(held[r].user, Req[r].of)
              /\ \E y \in {Filter(r), Nothing} : filters' = [filters EXCEPT ![Req[r].of] = y]
    BY <1>3 DEF putFilterByID, deleteFilterByID, At
  <2>2. CASE filters' = filters
    BY <1>1, <2>2
  <2>3. ASSUME OwnsFilter(held[r].user, Req[r].of), NEW y \in {Filter(r), Nothing},
               filters' = [filters EXCEPT ![Req[r].of] = y]
        PROVE  Changes(x) /\ Timed(x) /\ (filters'[x] # Nothing => filters[x] # Nothing)
    <3>1. x # Req[r].of => filters'[x] = filters[x]
      BY <2>3
    <3>2. x = Req[r].of => filters'[x] = y /\ filters[x] # Nothing
      BY <2>3 DEF OwnsFilter
    <3>3. y # Nothing => "over" \in DOMAIN y
      BY <2>3 DEF Filter
    <3>4. QED
      BY <2>1, <3>1, <3>2, <3>3 DEF Changes, Timed, Sifts
  <2>4. QED
    BY <2>1, <2>2, <2>3
<1>4. ASSUME NEW w \in DOMAIN filters, FilterExpires(w)
      PROVE  Changes(x) /\ Timed(x) /\ (filters'[x] # Nothing => filters[x] # Nothing)
  <2>1. filters[w] # Nothing /\ filters' = [filters EXCEPT ![w].over = TRUE]
    BY <1>4 DEF FilterExpires
  <2>2. "over" \in DOMAIN filters[w]
    BY <2>1 DEF Sifts
  <2>3. x # w => filters'[x] = filters[x]
    BY <2>1
  <2>4. filters'[w] = [filters[w] EXCEPT !.over = TRUE]
    BY <2>1
  <2>5. filters'[w].over /\ "over" \in DOMAIN filters'[w]
    BY <2>2, <2>4
  <2>6. QED
    BY <2>1, <2>3, <2>5 DEF Changes, Timed, Sifts
<1>5. ASSUME NEW r \in plan.reqs, TimelineStep(r), ~postFilters(r), ~putFilterByID(r), ~deleteFilterByID(r)
      PROVE  filters' = filters
  BY <1>5 DEF TimelineStep, postLists, putListByID, deleteListByID, GetMastodonList, AddMastodonListMember,
              RemoveMastodonListMember, ReadFirst, BeginRead, ListMastodonListMemberActorIDs, ReadRows,
              filterActivityRowsForViewer, TimelineFail, timelineVars
<1>6. ASSUME NEW r \in plan.reqs, Step(r), ~TimelineStep(r)
      PROVE  filters' = filters
  BY <1>6 DEF Step, timelineVars
<1>7. CASE Crash
  BY <1>1, <1>7 DEF Crash, timelineVars
<1>8. QED
  BY <1>1, <1>2, <1>3, <1>4, <1>5, <1>6, <1>7, NextCases DEF timelineVars

\* What a filter hid all the while it hid before.
LEMMA HidStays ==
  ASSUME Handlers, Exchanges, Asks, Sifts, BegunGrow, BearersStay, [Next]_vars,
         NEW r \in Readers, read[r].shown # {}, read'[r] = read[r], Req[r].op \notin {"public", "account"},
         NEW x \in DOMAIN filters, HidAllTheWhile(r, x)'
  PROVE  HidAllTheWhile(r, x) /\ filters'[x] = filters[x]
<1>1. AskOk(r) /\ SiftOk(r) /\ r \in plan.reqs /\ r \in Requests
  BY ApiAssumption DEF Asks, Sifts, Readers, Handlers
<1>2. filters'[x] = filters[x]
  <2>1. read[r].filters[x] # Nothing /\ filters'[x] = read[r].filters[x] /\ ~filters'[x].over
    BY DEF HidAllTheWhile
  <2>2. ASSUME NEW q \in plan.reqs, pc[q] = "begin", Req[q].op \in {"put filter", "delete filter"}, Req[q].of = x
        PROVE  FALSE
    <3>1. q \notin read[r].answered
      BY <1>1, <2>2 DEF AskOk
    <3>2. q \in Begun'
      BY <2>2 DEF BegunGrow, Begun
    <3>3. QED
      BY <2>2, <3>1, <3>2 DEF HidAllTheWhile
  <2>3. pc[x] = "answered"
    BY <1>1, <2>1 DEF SiftOk
  <2>4. Changes(x)
    BY FilterChanges
  <2>5. QED
    BY <2>1, <2>2, <2>3, <2>4 DEF Changes
<1>3. Bearer(Req[r].token) = Bearer(Req[r].token)'
  BY <1>1 DEF AskOk, BearersStay
<1>4. QED
  BY <1>2, <1>3 DEF HidAllTheWhile, BegunGrow

\* A read that does not move leaves out what it should.
LEMMA SiftStays ==
  ASSUME Handlers, Exchanges, Asks, Sifts, BegunGrow, BearersStay, [Next]_vars, DOMAIN filters' = DOMAIN filters,
         NEW r \in Readers, read'[r] = read[r]
  PROVE  SiftOk(r)'
<1>2. SiftOk(r) /\ OfOp("filter") \subseteq plan.reqs /\ DOMAIN filters = OfOp("filter")
  BY DEF Sifts, Asks, OfOp
<1>3. \A x \in DOMAIN filters' : read'[r].filters[x] # Nothing => pc'[x] = "answered"
  BY <1>2 DEF SiftOk, BegunGrow
<1>4. ASSUME Req[r].op \in {"home", "list timeline"}, ~read'[r].unfiltered,
             NEW x \in DOMAIN filters', HidAllTheWhile(r, x)', read[r].shown # {}
      PROVE  read'[r].shown \cap filters'[x].hides = {}
  <2>1. HidAllTheWhile(r, x) /\ filters'[x] = filters[x]
    BY <1>4, HidStays
  <2>2. QED
    BY <1>2, <1>4, <2>1 DEF SiftOk
<1>5. QED
  BY <1>3, <1>4 DEF SiftOk

\* The filters that are read when the rows are sifted are those of the reader.
LEMMA FilterSifts ==
  ASSUME NEW r \in plan.reqs, Handlers, Bears, Asks, Sifts, BegunGrow, BearersStay,
         filterActivityRowsForViewer(r)
  PROVE  SiftOk(r)'
<1>1. /\ r \in Readers /\ AskOk(r) /\ pc[r] = "filter" /\ read'[r].filters = read[r].filters /\ filters' = filters
      /\ r \in Requests /\ OfOp("filter") \subseteq plan.reqs /\ DOMAIN filters = OfOp("filter")
  BY Filtering, ApiAssumption DEF filterActivityRowsForViewer, Handlers, Asks, OfOp
<1>2. SiftOk(r)
  BY <1>1 DEF Sifts
<1>3. \A x \in DOMAIN filters' : read'[r].filters[x] # Nothing => pc'[x] = "answered"
  BY <1>1, <1>2 DEF SiftOk, BegunGrow
<1>4. ASSUME Req[r].op \in {"home", "list timeline"}, ~read'[r].unfiltered,
             NEW x \in DOMAIN filters', HidAllTheWhile(r, x)'
      PROVE  read'[r].shown \cap filters'[x].hides = {}
  <2>1. read'[r].shown = held[r].asked \ Hidden(held[r].user, "home")
    BY <1>4, Filtering
  <2>2. Bearer(Req[r].token)' = {held[r].user}
    BY <1>1, <1>4 DEF Bears, Begins, BearersStay
  <2>3. /\ filters[x] # Nothing /\ filters[x].owner = held[r].user
        /\ "home" \in filters[x].contexts /\ ~filters[x].over
    BY <1>1, <1>4, <2>2 DEF HidAllTheWhile
  <2>4. x \in {w \in DOMAIN filters : OwnsFilter(held[r].user, w) /\ ~filters[w].over /\ "home" \in filters[w].contexts}
    BY <1>1, <1>4, <2>3 DEF OwnsFilter
  <2>5. filters[x].hides \subseteq Hidden(held[r].user, "home")
    BY <2>4 DEF Hidden
  <2>6. QED
    BY <1>1, <2>1, <2>5
<1>5. QED
  BY <1>3, <1>4 DEF SiftOk

\* Every step keeps the filters, and what the reads leave out.
LEMMA NextSifts ==
  ASSUME Handlers, Exchanges, Bears, Asks, Sifts, [Next]_vars, Asks'
  PROVE  Sifts'
<1>1. BegunGrow /\ BearersStay
  BY NextBegunGrow, NextExchanges
<1>2. /\ plan' = plan /\ Readers' = Readers /\ DOMAIN filters = OfOp("filter") /\ DOMAIN filters' = DOMAIN filters
      /\ OfOp("filter") \subseteq plan.reqs /\ DOMAIN read = Readers
  BY <1>1 DEF BegunGrow, Readers, OfOp, Asks
<1>3. \A x \in DOMAIN filters' : filters'[x] # Nothing => pc'[x] = "answered" /\ "over" \in DOMAIN filters'[x]
  <2>1. \A x \in DOMAIN filters : pc[x] = "answered" => pc'[x] = "answered"
    BY <1>1, <1>2 DEF BegunGrow
  <2>2. QED
    BY <1>2, <2>1, FilterChanges DEF Sifts, Timed
<1>4. ASSUME NEW r \in Readers, read'[r] = read[r]
      PROVE  SiftOk(r)'
  BY <1>1, <1>2, <1>4, SiftStays
<1>5. ASSUME NEW r \in plan.reqs, ReadFirst(r), NEW q \in Readers
      PROVE  SiftOk(q)'
  <2>1. CASE read'[q] = read[q]
    BY <1>4, <2>1
  <2>2. CASE read'[q] # read[q]
    <3>1. PICK user : read' = [read EXCEPT ![r] = Before(r, user)] /\ filters' = filters
      BY <1>5, <2>2 DEF ReadFirst, BeginRead
    <3>2. q = r /\ read'[q] = Before(r, user)
      BY <1>2, <2>2, <3>1
    <3>3. Before(r, user).filters = filters /\ Before(r, user).shown = {}
      BY DEF Before
    <3>4. read'[q].filters = filters /\ read'[q].shown = {}
      BY <3>2, <3>3
    <3>5. QED
      BY <1>3, <3>1, <3>4 DEF SiftOk
  <2>3. QED
    BY <2>1, <2>2
<1>6. ASSUME NEW r \in plan.reqs, filterActivityRowsForViewer(r), NEW q \in Readers
      PROVE  SiftOk(q)'
  <2>1. q = r => SiftOk(q)'
    BY <1>1, <1>6, FilterSifts
  <2>2. q # r => SiftOk(q)'
    <3>1. q # r => read'[q] = read[q]
      BY <1>1, <1>6, Filtering
    <3>2. QED
      BY <1>4, <3>1
  <2>3. QED
    BY <2>1, <2>2
<1>7. ASSUME NEW r \in plan.reqs, TimelineStep(r), ~ReadFirst(r), ~filterActivityRowsForViewer(r)
      PROVE  read' = read
  BY <1>7 DEF TimelineStep, postLists, putListByID, deleteListByID, GetMastodonList, AddMastodonListMember,
              RemoveMastodonListMember, postFilters, putFilterByID, deleteFilterByID,
              ListMastodonListMemberActorIDs, ReadRows, TimelineFail, timelineVars
<1>8. ASSUME NEW r \in plan.reqs, Step(r), ~TimelineStep(r)
      PROVE  read' = read
  BY <1>8 DEF Step, timelineVars
<1>9. ASSUME Crash
      PROVE  read' = read
  BY <1>9 DEF Crash, timelineVars
<1>10. ASSUME NEW q \in Readers
       PROVE  SiftOk(q)'
  BY <1>4, <1>5, <1>6, <1>7, <1>8, <1>9, NextCases DEF timelineVars, Crash
<1>11. QED
  BY <1>2, <1>3, <1>10 DEF Sifts

---------------------------------------------------------------------------------
(***************************************************************************)
(* Answers, and the invariant as a whole                                   *)
(***************************************************************************)
\* A handler that ends answers with a status of HTTP, and one that goes on does not.
LEMMA Replied ==
  ASSUME Handlers, Answers, NEW r \in plan.reqs, NEW code \in 200 .. 599, Reply(r, code)
  PROVE  Answers'
<1>1. PICK A : A = {Nothing} \cup 200 .. 599
  OBVIOUS
<1>2. code \in A
  BY <1>1
<1>3. answer \in [plan.reqs -> A]
  BY <1>1 DEF Answers
<1>4. answer' = [answer EXCEPT ![r] = code] /\ plan' = plan
  BY DEF Reply
<1>5. answer' \in [plan.reqs -> A]
  BY <1>2, <1>3, <1>4
<1>6. QED
  BY <1>1, <1>4, <1>5 DEF Answers

LEMMA GoneOn ==
  ASSUME Answers, NEW r, NEW l, NEW x, Goto(r, l, x)
  PROVE  Answers'
BY DEF Answers, Goto

\* A handler answers once it ends, with a status of HTTP.
LEMMA NextAnswers ==
  ASSUME Handlers, Rows, Answers, [Next]_vars
  PROVE  Answers'
<1>1. ASSUME NEW r \in plan.reqs, Reply(r, 200) \/ Reply(r, 204) \/ Reply(r, 400) \/ Reply(r, 404) \/ Reply(r, 500)
      PROVE  Answers'
  <2>1. {200, 204, 400, 404, 500} \subseteq 200 .. 599
    OBVIOUS
  <2>2. PICK code \in {200, 204, 400, 404, 500} : Reply(r, code)
    BY <1>1
  <2>3. QED
    BY <2>1, <2>2, Replied
<1>2. ASSUME NEW r \in plan.reqs, \/ \E code \in 200 .. 599 : Reply(r, code)
                                  \/ \E l : \E x : Goto(r, l, x)
      PROVE  Answers'
  BY <1>2, Replied, GoneOn
<1>3. ASSUME NEW r \in plan.reqs, OAuthStep(r)
      PROVE  Answers'
  <2>1. CASE TokenLookup(r) \/ ConsumeAuthorizationCode(r) \/ TokenCheck(r)
    <3>1. (\E l : \E x : Goto(r, l, x)) \/ \E code \in {400, 401} : Reply(r, code)
      BY <2>1 DEF TokenLookup, ConsumeAuthorizationCode, TokenCheck
    <3>2. QED
      BY <1>2, <3>1
  <2>2. CASE TokenCommit(r) \/ ClientCredentials(r) \/ postOAuthRevoke(r) \/ OAuthFail(r)
    <3>1. \E code \in {200, 400, 401, 500} : Reply(r, code)
      BY <2>2 DEF TokenCommit, ClientCredentials, postOAuthRevoke, OAuthFail, Done
    <3>2. QED
      BY <1>2, <3>1
  <2>3. CASE postApps(r) \/ getOAuthAuthorize(r) \/ postOAuthAuthorize(r)
    <3>1. \E code \in {200, 302, 400, 401, 500} : Reply(r, code)
      BY <2>3 DEF postApps, getOAuthAuthorize, postOAuthAuthorize, Done
    <3>2. QED
      BY <1>2, <3>1
  <2>4. QED
    BY <1>3, <2>1, <2>2, <2>3 DEF OAuthStep
<1>4. ASSUME NEW r \in plan.reqs, bearer(r)
      PROVE  Answers'
  <2>1. (\E l : \E x : Goto(r, l, x)) \/ Reply(r, 401)
    BY <1>4 DEF bearer
  <2>2. QED
    BY <1>2, <2>1
<1>5. ASSUME NEW r \in plan.reqs, MediaStep(r)
      PROVE  Answers'
  <2>1. CASE handleMediaPost(r)
    <3>1. Refusal(r) \in {0, 400, 413, 422}
      BY DEF Refusal
    <3>2. (\E l : \E x : Goto(r, l, x)) \/ \E code \in {400, 413, 422} : Reply(r, code)
      BY <2>1, <3>1 DEF handleMediaPost
    <3>3. QED
      BY <1>2, <3>2
  <2>2. CASE StoreBlob(r)
    BY <1>2, <2>2 DEF StoreBlob
  <2>3. CASE InsertMastodonMedia(r) \/ putAPIMedia(r) \/ getAPIMedia(r) \/ MediaFail(r)
    <3>1. \E code \in {200, 202, 206, 404, 500, 503} : Reply(r, code)
      BY <2>3 DEF InsertMastodonMedia, putAPIMedia, getAPIMedia, MediaFail, Done
    <3>2. QED
      BY <1>2, <3>1
  <2>4. QED
    BY <1>5, <2>1, <2>2, <2>3 DEF MediaStep
<1>6. ASSUME NEW r \in plan.reqs, StatusStep(r)
      PROVE  Answers'
  <2>1. Present(r) \in {200, 404}
    BY DEF Present
  <2>2. CASE postStatuses(r) \/ deleteStatus(r)
    <3>1. (\E l : \E x : Goto(r, l, x)) \/ \E code \in {400, 403, 404, 422} : Reply(r, code)
      BY <2>2 DEF postStatuses, deleteStatus
    <3>2. QED
      BY <1>2, <3>1
  <2>3. CASE Social(r) \/ UndoSocial(r)
    <3>1. (\E l : \E x : Goto(r, l, x)) \/ \E code \in {200, 404} : Reply(r, code)
      BY <2>1, <2>3 DEF Social, UndoSocial, PublishEdge
    <3>2. QED
      BY <1>2, <3>1
  <2>4. CASE PublishLocalActivityBytes(r)
    <3>1. Req[r].op \notin {"delete", "post"} => held[r].code \in {200, 404}
      BY <2>4 DEF PublishLocalActivityBytes, Rows
    <3>2. (\E l : \E x : Goto(r, l, x)) \/ \E code \in {200, 400, 404, 500} : Reply(r, code)
      BY <2>4, <3>1 DEF PublishLocalActivityBytes, Done
    <3>3. QED
      BY <1>2, <3>2
  <2>5. CASE SoftDeleteActivityForActor(r) \/ Bookmark(r) \/ getStatus(r) \/ StatusFail(r) \/ HandleFollow(r)
    <3>1. \E code \in {200, 202, 400, 404, 500} : Reply(r, code)
      BY <2>1, <2>5 DEF SoftDeleteActivityForActor, Bookmark, getStatus, StatusFail, HandleFollow, Done
    <3>2. QED
      BY <1>2, <3>1
  <2>6. QED
    BY <1>6, <2>2, <2>3, <2>4, <2>5 DEF StatusStep
<1>7. ASSUME NEW r \in plan.reqs, TimelineStep(r)
      PROVE  Answers'
  <2>1. CASE \/ postLists(r) \/ putListByID(r) \/ deleteListByID(r) \/ SetsMember(r)
             \/ postFilters(r) \/ putFilterByID(r) \/ deleteFilterByID(r)
             \/ filterActivityRowsForViewer(r) \/ TimelineFail(r)
    <3>1. CASE filterActivityRowsForViewer(r) \/ TimelineFail(r)
      <4>1. Reply(r, 200) \/ Reply(r, 404) \/ Reply(r, 500)
        BY <3>1 DEF filterActivityRowsForViewer, TimelineFail
      <4>2. QED
        BY <1>1, <4>1
    <3>2. CASE \/ postLists(r) \/ putListByID(r) \/ deleteListByID(r) \/ SetsMember(r)
               \/ postFilters(r) \/ putFilterByID(r) \/ deleteFilterByID(r)
      BY <1>1, <3>2, ListReplies
    <3>3. QED
      BY <2>1, <3>1, <3>2
  <2>2. CASE GetMastodonList(r) \/ ReadFirst(r) \/ ListMastodonListMemberActorIDs(r) \/ ReadRows(r)
    <3>1. (\E l : \E x : Goto(r, l, x)) \/ Reply(r, 404)
      BY <2>2 DEF GetMastodonList, ReadFirst, BeginRead, ListMastodonListMemberActorIDs, ReadRows
    <3>2. QED
      BY <1>2, <3>1
  <2>3. QED
    BY <1>7, <2>1, <2>2 DEF TimelineStep, SetsMember
<1>8. CASE Crash
  BY <1>8 DEF Crash, Answers
<1>9. ASSUME Stays
      PROVE  Answers'
  BY <1>9 DEF Stays, Answers
<1>10. QED
  BY <1>3, <1>4, <1>5, <1>6, <1>7, <1>8, <1>9, NextCases DEF Step

\* Before the first request there is nothing but what was registered, issued and received.
LEMMA InitIInv ==
  ASSUME Init
  PROVE  IInv
<1> USE DEF Init, ApiInit
<1>1. plan \in Bounds /\ faults = 0 /\ plan.reqs \subseteq Requests
  BY ApiAssumption
<1>2. Handlers
  BY DEF Handlers, Places, Ends
<1>3. Exchanges
  <2>1. codes = {} /\ grants = {} /\ expired = {} /\ tokens = Issued /\ locked = [c \in Codes |-> Nothing]
    BY DEF OAuthInit
  <2>2. Locks /\ Granted
    BY <2>1 DEF Locks, Granted
  <2>3. Tokens
    BY <2>1, OAuthAssumption, StatusAssumption DEF Tokens, Made, RightlyHad
  <2>4. QED
    BY <2>2, <2>3 DEF Exchanges
<1>4. Bears
  BY DEF Bears, Begins
<1>5. Files
  BY <1>1, ApiAssumption DEF Files, MediaInit, Uploads, OfOp
<1>6. Rows
  <2>1. /\ \A x \in plan.reqs \cup Received : activities[x] =
             IF x \in Received
             THEN [kind |-> "Create", actor |-> By[x], of |-> Nothing, audience |-> {}, to |-> {}, media |-> {}]
             ELSE Nothing
        /\ activities \in [plan.reqs \cup Received -> {activities[x] : x \in plan.reqs \cup Received}]
        /\ bookmarks = {}
    BY DEF StatusInit
  <2>2. \A x \in Received : /\ activities[x] \in ActivityRows /\ activities[x] # Nothing
                            /\ activities[x].kind = "Create" /\ activities[x].actor = By[x]
    <3> SUFFICES ASSUME NEW x \in Received
                 PROVE  /\ activities[x] \in ActivityRows /\ activities[x] # Nothing
                        /\ activities[x].kind = "Create" /\ activities[x].actor = By[x]
      OBVIOUS
    <3> DEFINE y == [kind |-> "Create", actor |-> By[x], of |-> Nothing, audience |-> {}, to |-> {}, media |-> {}]
    <3>1. activities[x] = y
      BY <2>1
    <3>2. By[x] \in Named
      BY DEF Named
    <3>3. y \in ActivityRows
      BY <3>2 DEF ActivityRows
    <3>4. y.kind = "Create" /\ y.actor = By[x]
      OBVIOUS
    <3>5. QED
      BY <3>1, <3>3, <3>4, StatusAssumption
  <2>3. \A x \in plan.reqs : activities[x] = Nothing
    BY <1>1, <2>1, StatusAssumption
  <2>4. activities \in [plan.reqs \cup Received -> ActivityRows \cup {Nothing}]
    BY <2>1, <2>2, <2>3
  <2>5. QED
    BY <2>1, <2>2, <2>3, <2>4 DEF Rows
<1>7. \A r \in plan.reqs : activities[r] = Nothing
  BY <1>1, StatusAssumption DEF StatusInit
<1>8. Told
  BY <1>7 DEF Told, Sent, StatusInit
<1>9. Edges
  BY <1>7 DEF Edges, EdgeAtHand, SentEdge, Sent, StatusInit
<1>10. Lists
  BY DEF Lists, TimelineInit
<1>11. Asks
  <2>1. ASSUME NEW r \in Readers
        PROVE  AskOk(r)
    <3>1. PICK F : F = filters
      OBVIOUS
    <3>2. PICK y : y = [answered |-> {}, deleted |-> {}, liked |-> {}, members |-> {}, filters |-> F,
                        unfiltered |-> FALSE, shown |-> {}]
      OBVIOUS
    <3>3. Fields(y) /\ y.answered = {} /\ y.deleted = {} /\ y.shown = {}
      BY <3>2 DEF Fields
    <3>4. read[r] = y
      BY <3>1, <3>2 DEF TimelineInit
    <3>5. pc[r] = "new"
      BY DEF ApiInit, Readers
    <3>6. Shows(r, {})
      BY DEF Shows
    <3>7. QED
      BY <3>3, <3>4, <3>5, <3>6 DEF AskOk
  <2>2. DOMAIN filters = OfOp("filter") /\ DOMAIN read = Readers
    BY DEF TimelineInit
  <2>3. QED
    BY <2>1, <2>2 DEF Asks
<1>12. Sifts
  BY DEF Sifts, SiftOk, TimelineInit, Readers
<1>13. Answers
  BY DEF Answers
<1>14. Audience
  BY StatusAssumption DEF Audience, StatusInit, Named
<1>15. QED
  BY <1>2, <1>3, <1>4, <1>5, <1>6, <1>8, <1>9, <1>10, <1>11, <1>12, <1>13, <1>14 DEF IInv

LEMMA NextIInv ==
  ASSUME IInv, [Next]_vars
  PROVE  IInv'
<1>1. Handlers'
  BY NextCases, StepMoves, CrashMoves, StaysKeep DEF IInv
<1>2. Exchanges' /\ Bears' /\ Files' /\ Audience' /\ Rows' /\ Told' /\ Edges'
  BY NextExchanges, NextBears, NextFiles, NextReachGrow, NextRows, NextTold, NextEdges DEF IInv
<1>3. Lists' /\ Asks' /\ Sifts' /\ Answers'
  BY NextLists, NextAsks, NextSifts, NextAnswers DEF IInv
<1>4. QED
  BY <1>1, <1>2, <1>3 DEF IInv

\* The invariant of the client API: see the module's comment for its layers.
THEOREM Invariance == Spec => []IInv
  BY InitIInv, NextIInv, PTL DEF Spec

---------------------------------------------------------------------------------
(***************************************************************************)
(* What the client API promises                                            *)
(***************************************************************************)
\* Every variable keeps its type, and an exchange that has a code locked is in the middle
\* of its transaction: ConsumeAuthorizationCode takes the lock, and whatever ends the
\* handler, the death of the process included, gives it back.
THEOREM TypeCorrect == Spec => []TypeOK
<1>1. ASSUME IInv
      PROVE  TypeOK
  <2>1. \A m \in members : lists[m[1]] # Nothing
    BY <1>1, StatusAssumption DEF IInv, Lists
  <2>2. QED
    BY <1>1, <2>1 DEF IInv, Handlers, Ends, Exchanges, Locks, Granted, Files, Audience, Rows, Told, Edges, Answers, TypeOK
<1>2. QED
  BY <1>1, Invariance, PTL

\* ConsumeAuthorizationCode deletes the code in the transaction that inserts the token:
\* of a code there is one token at most, and it is gone exactly when there is one.
THEOREM SpentOnce == Spec => []CodeSpentOnce
<1>1. ASSUME IInv, NEW c \in grants
      PROVE  LET made == {t \in tokens : t.grant = c} IN
             /\ Cardinality(made) <= 1
             /\ c \in codes <=> made = {}
  <2> DEFINE made == {t \in tokens : t.grant = c}
  <2>1. c \in Requests
    BY <1>1, ApiAssumption DEF IInv, Handlers, Exchanges, Granted, Codes, OfOp
  <2>2. c \in codes <=> made = {}
    BY <1>1, <2>1 DEF IInv, Exchanges, Tokens
  <2>3. \A t, w \in made : t = w
    BY <1>1 DEF IInv, Exchanges, Tokens
  <2>4. Cardinality(made) <= 1
    <3>1. CASE made = {}
      BY <3>1, FS_EmptySet
    <3>2. CASE made # {}
      <4>1. PICK t : made = {t}
        BY <2>3, <3>2
      <4>2. QED
        BY <4>1, FS_Singleton
    <3>3. QED
      BY <3>1, <3>2
  <2>5. QED
    BY <2>2, <2>4
<1>2. ASSUME IInv
      PROVE  CodeSpentOnce
  BY <1>1, <1>2 DEF CodeSpentOnce
<1>3. QED
  BY <1>2, Invariance, PTL

\* What was published was published by a handler that has begun.
LEMMA PublishedSent ==
  ASSUME IInv, NEW r, NEW kinds
  PROVE  r \in Published(kinds) <=> r \in plan.reqs /\ activities[r] # Nothing /\ activities[r].kind \in kinds
BY DEF IInv, Rows, Published, Begun

\* The operation of a handler tells what it publishes, and the row is what it made.
LEMMA PublishedFits ==
  ASSUME IInv, NEW r \in plan.reqs, activities[r] # Nothing, NEW x, x = activities[r]
  PROVE  /\ Fits(r, x)
         /\ x.kind = "Create" => CreateFits(r, x)
         /\ x.kind = "Delete" => DeleteFits(r, x)
         /\ x.kind = "Undo"   => UndoFits(r, x)
<1>1. /\ Req[r].op \in {"post", "delete"} \cup Edging \cup Undoing
      /\ Fits(r, x)
  BY DEF IInv, Rows
<1>2. CASE Req[r].op = "post"
  BY <1>1, <1>2 DEF Fits, CreateFits
<1>3. CASE Req[r].op = "delete"
  BY <1>1, <1>3 DEF Fits, DeleteFits
<1>4. CASE Req[r].op \in Edging
  BY <1>1, <1>4 DEF Fits, EdgeFits, KindOf
<1>5. CASE Req[r].op \in Undoing
  BY <1>1, <1>5 DEF Fits, UndoFits
<1>6. QED
  BY <1>1, <1>2, <1>3, <1>4, <1>5

\* The one user of a token is had by right.
LEMMA BearerIsRight ==
  ASSUME IInv, NEW token, NEW u \in Users, Bearer(token) = {u}
  PROVE  \E t \in tokens : t.token = token /\ t.user = u /\ RightlyHad(t)
<1>1. PICK t \in tokens : t.token = token /\ t.user = u
  BY DEF Bearer
<1>2. RightlyHad(t)
  BY <1>1, StatusAssumption DEF IInv, Exchanges, Tokens
<1>3. QED
  BY <1>1, <1>2

\* actorIDFromBearer: what a handler writes, it writes for the user who granted its token;
\* deleteStatus and UndoSocial look for the user's own activity before they publish.
THEOREM ActsForUser == Spec => []ActsForItsUser
<1>1. ASSUME IInv
      PROVE  ActsForItsUser
  <2>1. ASSUME NEW u \in Recorded
        PROVE  \E t \in tokens : t.token = Req[u].token /\ t.user = media[u].owner /\ RightlyHad(t)
    <3>1. media[u].owner \in Users /\ Bearer(Req[u].token) = {media[u].owner}
      BY <1>1 DEF IInv, Files, Recorded, MediaRows
    <3>2. QED
      BY <1>1, <3>1, BearerIsRight
  <2>2. ASSUME NEW r \in Published({"Create", "Delete", "Like", "Announce", "Undo"})
        PROVE  \E t \in tokens : t.token = Req[r].token /\ t.user = activities[r].actor /\ RightlyHad(t)
    <3>1. r \in plan.reqs /\ activities[r] # Nothing
      BY <1>1, PublishedSent
    <3>2. activities[r].actor \in Users /\ Bearer(Req[r].token) = {activities[r].actor}
      BY <1>1, <3>1, PublishedFits DEF Fits
    <3>3. QED
      BY <1>1, <3>2, BearerIsRight
  <2>3. ASSUME NEW r \in Published({"Delete", "Undo"})
        PROVE  activities[activities[r].of].actor = activities[r].actor
    <3>1. r \in plan.reqs /\ activities[r] # Nothing /\ activities[r].kind \in {"Delete", "Undo"}
      BY <1>1, PublishedSent
    <3>2. QED
      BY <1>1, <3>1, PublishedFits DEF DeleteFits, UndoFits
  <2>4. QED
    BY <2>1, <2>2, <2>3 DEF ActsForItsUser
<1>2. QED
  BY <1>1, Invariance, PTL

\* Put renames the file before InsertMastodonMedia records it, and handleMediaPost never
\* renames it again; postStatuses attaches uploads of the author's that are complete, and
\* nothing takes an upload away or back to pending.
THEOREM AttachmentsWhole == Spec => []AttachmentsReady
<1>1. ASSUME IInv
      PROVE  AttachmentsReady
  <2>1. Recorded \subseteq blobs \ tmp
    BY <1>1 DEF IInv, Files, Recorded
  <2>2. ASSUME NEW r \in Published({"Create"}), NEW u \in activities[r].media
        PROVE  Owns(activities[r].actor, u) /\ media[u].state = "complete"
    <3>1. CASE r \in plan.reqs
      <4>1. activities[r] # Nothing /\ activities[r].kind = "Create"
        BY <1>1, <3>1, PublishedSent
      <4>2. CreateFits(r, activities[r])
        BY <1>1, <3>1, <4>1, PublishedFits
      <4>3. QED
        BY <2>2, <4>2 DEF CreateFits, Owns
    <3>2. QED
      BY <1>1, <3>1, PublishedSent
  <2>3. QED
    BY <2>1, <2>2 DEF AttachmentsReady
<1>2. QED
  BY <1>1, Invariance, PTL

\* deleteStatus publishes the Delete before SoftDeleteActivityForActor marks the row, and
\* appendFollowerCCForPublicPosts adds the followers of that moment: everybody the Create
\* went to who has followed ever since.
THEOREM DeletesAreTold == Spec => []DeleteTold
<1>1. ASSUME IInv, NEW x \in deleted
      PROVE  \E d \in Published({"Delete"}) : activities[d].of = x
  BY <1>1, PublishedSent DEF IInv, Told, Sent
<1>2. ASSUME IInv, NEW d \in Published({"Delete"})
      PROVE  LET told == activities[d].of IN
             /\ \/ Req[told].visibility = "direct"
                \/ activities[told].to \subseteq activities[d].to \cup Left(activities[d].actor)
             /\ told \in deleted \/ pc[d] = "remove" \/ faults > 0
  <2>1. d \in plan.reqs /\ activities[d] # Nothing /\ activities[d].kind = "Delete"
    BY <1>2, PublishedSent
  <2>2. PICK told : told = activities[d].of
    OBVIOUS
  <2>3. DeleteFits(d, activities[d])
    BY <1>2, <2>1, PublishedFits
  <2>4. Req[told].visibility = "direct" \/ activities[told].to \subseteq activities[d].to \cup Left(activities[d].actor)
    BY <2>2, <2>3 DEF DeleteFits
  <2>5. told \in deleted \/ pc[d] = "remove" \/ faults > 0
    BY <1>2, <2>1, <2>2 DEF IInv, Handlers, Told, Sent
  <2>6. QED
    BY <2>2, <2>4, <2>5
<1>3. ASSUME IInv
      PROVE  DeleteTold
  BY <1>1, <1>2, <1>3 DEF DeleteTold
<1>4. QED
  BY <1>3, Invariance, PTL

\* recordOutboxFollowEffects writes the row of a like or a boost in the transaction that
\* publishes it, and the Undo takes away the row of its own activity.
THEOREM LikesInAgreement == Spec => []LikesAgree
<1>1. ASSUME IInv
      PROVE  LikesAgree
  <2> DEFINE Gone(r) == \E u \in Published({"Undo"}) : activities[u].of = r
             Pair(r) == <<activities[r].kind, activities[r].actor, activities[r].of>>
  <2>1. \A r : Gone(r) <=> Undone(r)
    BY <1>1, PublishedSent DEF Undone, Sent
  <2>2. \A r : r \in Published({"Like", "Announce"}) <=> SentEdge(r)
    BY <1>1, PublishedSent DEF SentEdge, Sent
  <2>3. \A r : Pair(r) = PairOf(activities[r])
    BY DEF PairOf
  <2>4. ASSUME NEW k \in EdgeKeys, edges[k] # Nothing
        PROVE  edges[k] \in Published({"Like", "Announce"}) /\ Pair(edges[k]) = k /\ ~Gone(edges[k])
    <3>1. SentEdge(edges[k]) /\ PairOf(activities[edges[k]]) = k /\ ~Undone(edges[k])
      BY <1>1, <2>4 DEF IInv, Edges
    <3> HIDE DEF Gone, Pair
    <3>2. QED
      BY <2>1, <2>2, <2>3, <3>1
  <2>5. ASSUME NEW r \in Published({"Like", "Announce"})
        PROVE  Pair(r) \in raced \/ Gone(r) \/ edges[Pair(r)] = r
    <3>1. SentEdge(r)
      BY <2>2
    <3>2. r \in plan.reqs
      BY <3>1 DEF SentEdge, Sent
    <3>3. PairOf(activities[r]) \in raced \/ Undone(r) \/ edges[PairOf(activities[r])] = r
      BY <1>1, <3>1, <3>2 DEF IInv, Edges
    <3> HIDE DEF Gone, Pair
    <3>4. QED
      BY <2>1, <2>3, <3>3
  <2>6. QED
    BY <2>4, <2>5 DEF LikesAgree
<1>2. QED
  BY <1>1, Invariance, PTL

\* The members a list timeline reads are accounts its owner put there, that were in the table
\* when it began or were put there since (GetMastodonList before each statement), its rows
\* leave out what was deleted before, and filterActivityRowsForViewer leaves out what a
\* filter of the reader hid from the beginning to the end.
THEOREM HonestReads == Spec => []ReadsHonest
<1>1. ASSUME IInv, NEW r \in Readers
      PROVE  LET shown == read[r].shown IN
             /\ shown \cap read[r].deleted = {}
             /\ Req[r].op = "list timeline" => \A s \in shown :
                  LET x == activities[s].actor
                      adds == {q \in OfOp("add") \cap Begun : /\ Req[q].of = Req[r].of /\ Req[q].account = x
                                                             /\ Bearer(Req[q].token) = Bearer(Req[r].token)}
                  IN adds # {} /\ (x \in read[r].members \/ ~(adds \subseteq read[r].answered))
             /\ Req[r].op \in {"home", "list timeline"} /\ ~read[r].unfiltered =>
                  \A f \in DOMAIN filters : HidAllTheWhile(r, f) => shown \cap filters[f].hides = {}
             /\ Req[r].op = "conversations" => \A s \in shown :
                  \/ Bearer(Req[r].token) = {activities[s].actor}
                  \/ Bearer(Req[r].token) \subseteq Req[s].direct
  <2>1. PICK shown : shown = read[r].shown
    OBVIOUS
  <2>2. Shows(r, shown) /\ SiftOk(r)
    BY <1>1, <2>1 DEF IInv, Asks, AskOk, Sifts
  <2>3. ASSUME Req[r].op = "list timeline", NEW s \in shown
        PROVE  LET x == activities[s].actor
                   adds == {q \in OfOp("add") \cap Begun : /\ Req[q].of = Req[r].of /\ Req[q].account = x
                                                          /\ Bearer(Req[q].token) = Bearer(Req[r].token)}
               IN adds # {} /\ (x \in read[r].members \/ ~(adds \subseteq read[r].answered))
    <3>1. PICK x : x = activities[s].actor
      OBVIOUS
    <3>2. PutBy(r, x) /\ OnIt(r, x)
      BY <2>2, <2>3, <3>1 DEF Shows, PutSince
    <3>3. \E q \in OfOp("add") \cap Begun : /\ Req[q].of = Req[r].of /\ Req[q].account = x
                                           /\ Bearer(Req[q].token) = Bearer(Req[r].token)
      BY <3>2 DEF PutBy, PutIn
    <3>4. \/ x \in read[r].members
          \/ \E q \in OfOp("add") \cap Begun : /\ Req[q].of = Req[r].of /\ Req[q].account = x
                                              /\ Bearer(Req[q].token) = Bearer(Req[r].token)
                                              /\ q \notin read[r].answered
      BY <3>2 DEF OnIt, Fresh
    <3>5. QED
      BY <3>1, <3>3, <3>4
  <2>4. ASSUME Req[r].op = "conversations", NEW s \in shown
        PROVE  \/ Bearer(Req[r].token) = {activities[s].actor}
               \/ Bearer(Req[r].token) \subseteq Req[s].direct
    BY <2>2, <2>4 DEF Shows
  <2>5. shown \cap read[r].deleted = {}
    BY <2>2 DEF Shows
  <2>6. Req[r].op \in {"home", "list timeline"} /\ ~read[r].unfiltered =>
          \A f \in DOMAIN filters : HidAllTheWhile(r, f) => shown \cap filters[f].hides = {}
    BY <1>1, <2>1, <2>2 DEF SiftOk
  <2>7. QED
    BY <2>1, <2>3, <2>4, <2>5, <2>6
<1>2. ASSUME IInv
      PROVE  ReadsHonest
  BY <1>1, <1>2 DEF ReadsHonest
<1>3. QED
  BY <1>2, Invariance, PTL

---------------------------------------------------------------------------------
(***************************************************************************)
(* What holds of those who wait, whatever the scheduling                   *)
(***************************************************************************)
\* An exchange that waits for a code waits for a transaction under way, of another request
\* that itself waits for nobody.
WaitsForARunner ==
  \A r \in plan.reqs :
    /\ pc[r] = "consume" /\ Req[r].code \in Codes /\ locked[Req[r].code] # Nothing =>
         /\ locked[Req[r].code] \in plan.reqs \ {r}
         /\ pc[locked[Req[r].code]] \in {"check", "commit"}
    /\ pc[r] = "answered" => \A c \in Codes : locked[c] # r

\* An upload whose row is pending has its goroutine running, unless something failed.
PendingIsAttended ==
  faults = 0 => \A u \in Recorded : media[u].state = "complete" \/ u \in working

\* What RequestsEnd rests on, without its fairness: whoever waits for a code's row waits for
\* a transaction that is under way, so no two requests wait for each other and none for an
\* answered or a dead one (ConsumeAuthorizationCode, tx.Rollback, tx.Commit).
THEOREM NobodyWaitsForTheDead == Spec => []WaitsForARunner
<1>1. IInv => WaitsForARunner
  <2> SUFFICES ASSUME IInv, NEW r \in plan.reqs
               PROVE  /\ pc[r] = "consume" /\ Req[r].code \in Codes /\ locked[Req[r].code] # Nothing =>
                           /\ locked[Req[r].code] \in plan.reqs \ {r}
                           /\ pc[locked[Req[r].code]] \in {"check", "commit"}
                      /\ pc[r] = "answered" => \A c \in Codes : locked[c] # r
    BY DEF WaitsForARunner
  <2>1. r # Nothing
    BY ApiAssumption DEF IInv, Handlers
  <2>2. \A c \in Codes : locked[c] # Nothing => locked[c] \in plan.reqs /\ pc[locked[c]] \in {"check", "commit"}
    BY DEF IInv, Exchanges, Locks
  <2>. QED
    BY <2>1, <2>2
<1>. QED
  BY <1>1, Invariance, PTL

\* Once a row is there it stays attended, until its goroutine has made it complete.
LEMMA NextAttends ==
  ASSUME IInv, PendingIsAttended, [Next]_vars
  PROVE  PendingIsAttended'
<1> DEFINE Attended(u) == media[u].state = "complete" \/ u \in working
<1>1. plan' = plan /\ Uploads' = Uploads /\ (faults' = 0 => faults = 0)
  <2>1. plan' = plan /\ faults' \in {faults, faults + 1}
    BY NextCases, StepMoves, CrashMoves DEF IInv, Moves, Stays
  <2>. QED
    BY <2>1 DEF Uploads, OfOp, IInv, Handlers
<1>2. \A u \in Uploads : u \in plan.reqs /\ (media[u] # Nothing => u \in Recorded)
  BY DEF Uploads, OfOp, Recorded, Begun, IInv, Files
<1>3. SUFFICES ASSUME faults' = 0, NEW u \in Uploads, media'[u] # Nothing
               PROVE  Attended(u)'
  BY <1>1 DEF PendingIsAttended, Recorded
<1>4. media[u] # Nothing => Attended(u)
  BY <1>1, <1>2, <1>3 DEF PendingIsAttended
<1>5. media[u] # Nothing => (media[u].state = "complete" => media'[u].state = "complete")
  BY NextMediaGrow DEF MediaGrow, IInv
<1>6. faults' # faults + 1
  BY <1>1, <1>3 DEF IInv, Handlers
<1>7. CASE UNCHANGED <<media, working>>
  BY <1>3, <1>4, <1>7
<1>8. ASSUME NEW r \in plan.reqs, InsertMastodonMedia(r)
      PROVE  Attended(u)'
  <2>1. r \in Uploads
    BY <1>8 DEF InsertMastodonMedia, At, Uploads, OfOp
  <2>2. working' = (IF Req[r].async THEN working \cup {r} ELSE working)
    BY <1>6, <1>8 DEF InsertMastodonMedia, Fault
  <2>3. CASE u = r
    <3>1. media'[u].state = IF Req[r].async THEN "pending" ELSE "complete"
      BY <1>8, <2>1, <2>3 DEF InsertMastodonMedia, IInv, Files
    <3>. QED
      BY <2>2, <2>3, <3>1
  <2>4. CASE u # r
    <3>1. media'[u] = media[u]
      BY <1>8, <2>4 DEF InsertMastodonMedia, IInv, Files
    <3>. QED
      BY <1>3, <1>4, <2>2, <3>1
  <2>. QED
    BY <2>3, <2>4
<1>9. ASSUME NEW r \in plan.reqs, putAPIMedia(r)
      PROVE  Attended(u)'
  <2>1. working' = working
    BY <1>9 DEF putAPIMedia
  <2>2. media[u] # Nothing
    <3>1. media' = media \/ \E x \in Uploads : media[x] # Nothing /\ \E y : media' = [media EXCEPT ![x] = y]
      BY <1>9 DEF putAPIMedia, Owns
    <3>. QED
      BY <1>3, <3>1 DEF IInv, Files
  <2>. QED
    BY <1>4, <1>5, <2>1, <2>2
<1>10. ASSUME NEW v \in working, Process(v)
       PROVE  Attended(u)'
  <2>1. /\ v \in Uploads /\ media[v] # Nothing /\ media[v] \in MediaRows
        /\ working' = working \ {v} /\ media' = [media EXCEPT ![v].state = "complete"]
    BY <1>6, <1>10 DEF Process, Fault, IInv, Files
  <2>2. CASE u = v
    <3>1. media'[u].state = "complete"
      BY <2>1, <2>2 DEF IInv, Files, MediaRows
    <3>. QED
      BY <3>1
  <2>3. CASE u # v
    <3>1. media'[u] = media[u]
      BY <2>1, <2>3 DEF IInv, Files
    <3>. QED
      BY <1>3, <1>4, <2>1, <2>3, <3>1
  <2>. QED
    BY <2>2, <2>3
<1>11. ASSUME NEW r \in plan.reqs, Step(r)
       PROVE  Attended(u)'
  <2>1. CASE MediaStep(r)
    <3>1. CASE handleMediaPost(r) \/ StoreBlob(r) \/ getAPIMedia(r) \/ MediaFail(r)
      BY <1>7, <3>1 DEF handleMediaPost, StoreBlob, getAPIMedia, MediaFail, mediaVars
    <3>. QED
      BY <1>8, <1>9, <2>1, <3>1 DEF MediaStep
  <2>2. CASE \/ OAuthStep(r) /\ UNCHANGED mediaVars
             \/ bearer(r) \/ StatusStep(r)
             \/ TimelineStep(r) /\ UNCHANGED mediaVars
    <3>1. UNCHANGED mediaVars
      BY <2>2 DEF bearer, StatusStep, postStatuses, deleteStatus, SoftDeleteActivityForActor, Social,
                  UndoSocial, Bookmark, PublishLocalActivityBytes, getStatus, StatusFail, HandleFollow
    <3>. QED
      BY <1>7, <3>1 DEF mediaVars
  <2>. QED
    BY <1>11, <2>1, <2>2 DEF Step
<1>12. ~Crash
  BY <1>6, CrashMoves DEF IInv
<1>. QED
  BY <1>7, <1>10, <1>11, <1>12, NextCases DEF mediaVars

\* What PendingMediaCompletes rests on, without its fairness: while nothing has failed, the
\* goroutine of a pending upload runs, however the handlers of others, a PUT of its
\* description and the goroutines of other uploads come between (handleMediaPost,
\* SetMastodonMediaProcessingState).
THEOREM PendingAttended == Spec => []PendingIsAttended
<1>1. Init => PendingIsAttended
  BY DEF Init, MediaInit, PendingIsAttended, Recorded
<1>2. IInv /\ PendingIsAttended /\ [Next]_vars => PendingIsAttended'
  BY NextAttends
<1>. QED
  BY <1>1, <1>2, Invariance, PTL DEF Spec
=================================================================================
