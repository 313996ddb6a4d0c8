--------------------------------- MODULE Media ---------------------------------
(***************************************************************************)
(* Media of the client API: uploads (mastodonapi/media_handlers.go), their *)
(* rows (store/mastodon_media.go), and the files that hold the bytes       *)
(* (aphttp/media.go, blobs/fs).  An upload writes a temporary file, gives  *)
(* it its name, inserts the row and answers; with AP_MEDIA_ASYNC_UPLOAD an *)
(* upload to /api/v2/media inserts the row as pending, answers at once,    *)
(* and a goroutine that nobody waits for makes it complete.                *)
(*                                                                         *)
(* The key of a blob is random: an upload, its key and its row have one    *)
(* name.  Nothing sets the state failed, and nothing removes a blob or a   *)
(* row.                                                                    *)
(***************************************************************************)
EXTENDS OAuth

VARIABLES
  tmp,       \* uploads whose temporary file exists
  blobs,     \* uploads whose file has its name
  media,     \* mastodon_media: media[u] is owner, state and whether described; or Nothing
  working    \* uploads whose goroutine runs

mediaVars == <<tmp, blobs, media, working>>

Uploads == OfOp("upload")

MediaInit ==
  /\ tmp = {} /\ blobs = {} /\ working = {}
  /\ media = [u \in Uploads |-> Nothing]

\* bearer: the handlers begin with the user of the token.
bearer(r) ==
  /\ Req[r].op \notin {"register", "form", "authorize", "exchange", "credentials", "revoke", "public", "account",
                      "follow", "unfollow"}
  /\ At(r, Req[r].op, "new")
  /\ IF Bearer(Req[r].token) = {} THEN Reply(r, 401)
     ELSE \E u \in Bearer(Req[r].token) : Goto(r, "begin", [user |-> u])
  /\ UNCHANGED <<faults, oauthVars, mediaVars>>

\* effectiveUploadContentType and mimeAllowed: a declared type other than
\* application/octet-stream counts, else that of the name of the file.
mimeAllowed(r) ==
  "image" = IF Req[r].type \notin {"", "octet-stream"} THEN Req[r].type ELSE Req[r].ext

\* What readMediaUpload and handleMediaPost refuse; a multipart body is cut off at the
\* limit, so one too large is malformed.
Refusal(r) ==
  CASE Req[r].body = "malformed" \/ (Req[r].body = "large" /\ Req[r].multipart) -> 400
    [] Req[r].body = "empty"    -> 400
    [] Req[r].body = "large"    -> 413
    [] ~mimeAllowed(r)     -> 422
    [] OTHER               -> 0

\* handleMediaPost up to the temporary file of Put.
handleMediaPost(r) ==
  /\ At(r, "upload", "begin")
  /\ IF Refusal(r) # 0 THEN Reply(r, Refusal(r)) /\ UNCHANGED tmp
     ELSE tmp' = tmp \cup {r} /\ Goto(r, "rename", held[r])
  /\ UNCHANGED <<faults, oauthVars, blobs, media, working>>

\* StoreBlob and Put: the file gets its name.
StoreBlob(r) ==
  /\ At(r, "upload", "rename")
  /\ tmp' = tmp \ {r}
  /\ blobs' = blobs \cup {r}
  /\ Goto(r, "insert", held[r])
  /\ UNCHANGED <<faults, oauthVars, media, working>>

\* InsertMastodonMedia; the goroutine starts only when the insertion is known.
InsertMastodonMedia(r) ==
  /\ At(r, "upload", "insert")
  /\ media' = [media EXCEPT ![r] = [owner |-> held[r].user, described |-> FALSE,
                                    state |-> IF Req[r].async THEN "pending" ELSE "complete"]]
  /\ \/ /\ Reply(r, IF Req[r].async THEN 202 ELSE 200) /\ UNCHANGED faults
        /\ working' = IF Req[r].async THEN working \cup {r} ELSE working
     \/ Reply(r, 500) /\ Fault /\ UNCHANGED working
  /\ UNCHANGED <<oauthVars, tmp, blobs>>

\* Bug variant: the goroutine has the context of the request, which ends with the answer.
ProcessInRequest(u) ==
  /\ u \in working
  /\ working' = working \ {u}
  /\ IF pc[u] = "answered" THEN UNCHANGED media
     ELSE media' = [media EXCEPT ![u].state = "complete"]
  /\ UNCHANGED <<apiVars, oauthVars, tmp, blobs>>

\* The goroutine of an asynchronous upload: SetMastodonMediaProcessingState, whose error
\* is ignored.
Process(u) ==
  /\ u \in working
  /\ working' = working \ {u}
  /\ \/ media' = [media EXCEPT ![u].state = "complete"] /\ UNCHANGED faults
     \/ UNCHANGED media /\ Fault
  /\ UNCHANGED <<plan, pc, held, answer, oauthVars, tmp, blobs>>

Owns(user, u) == u \in Uploads /\ media[u] # Nothing /\ media[u].owner = user

\* putAPIMedia: the UPDATE has the owner in its condition.
putAPIMedia(r) ==
  /\ At(r, "describe", "begin")
  /\ IF Owns(held[r].user, Req[r].of)
     THEN media' = [media EXCEPT ![Req[r].of].described = TRUE] /\ Done(r, 200, 404)
     ELSE Reply(r, 404) /\ UNCHANGED <<media, faults>>
  /\ UNCHANGED <<oauthVars, tmp, blobs, working>>

\* getAPIMedia.
getAPIMedia(r) ==
  /\ At(r, "poll", "begin")
  /\ Reply(r, IF ~Owns(held[r].user, Req[r].of) THEN 404
              ELSE IF media[Req[r].of].state = "pending" THEN 206 ELSE 200)
  /\ UNCHANGED <<faults, oauthVars, mediaVars>>

\* A statement or a file operation of an upload fails: Put removes the temporary file
\* unless it is the renaming that failed; a blob without a row stays.
MediaFail(r) ==
  /\ \/ Req[r].op = "upload" /\ pc[r] \in {"begin", "rename", "insert"}
     \/ Req[r].op \in {"describe", "poll"} /\ pc[r] = "begin"
  /\ Fault
  /\ \/ UNCHANGED tmp /\ pc[r] # "begin"
     \/ tmp' = tmp \ {r}
  /\ Reply(r, IF Req[r].op # "upload" THEN 404 ELSE IF pc[r] = "insert" THEN 500 ELSE 503)
  /\ UNCHANGED <<oauthVars, blobs, media, working>>

MediaStep(r) ==
  \/ handleMediaPost(r) \/ StoreBlob(r) \/ InsertMastodonMedia(r)
  \/ putAPIMedia(r) \/ getAPIMedia(r) \/ MediaFail(r)
================================================================================
