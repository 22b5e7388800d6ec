----------------------------- MODULE Catalogue ------------------------------
(***************************************************************************)
(* The video catalogue of apps/api: the seed command that normalizes a     *)
(* file, uploads it and adds its row (services/videos.py,                  *)
(* repositories/videos.py); a client that reads the catalogue page by page *)
(* with signed cursors (api/videos.py, services/video_cursor.py, and       *)
(* getEntireVideoCatalog of apps/web/lib/api/videos.ts); and the stream    *)
(* endpoint with its byte ranges (media/ranges.py).                        *)
(*                                                                         *)
(* A statement of the database is one step, and so is a call to the object *)
(* store.  A row is visible from its commit on, but its created_at is the  *)
(* time at which its transaction began.                                    *)
(***************************************************************************)
EXTENDS Naturals, FiniteSets, Media

CONSTANTS
    Seeders,   \* processes that run the seed command
    Files,     \* MP4 files, named by their bytes
    ProbeOf,   \* ProbeOf[f]: what ffprobe reports of a file
    SizeOf,    \* SizeOf[f]: the size of what a file normalizes to
    MaxSeeds,  \* bound: seed commands
    MaxTime,   \* bound: the clock
    MaxKeys,   \* bound: signing keys, one per restart with another secret
    Limits,    \* the values of `limit` a client asks for
    None

ASSUME CatalogueAssumption ==
    /\ ProbeOf \in [Files -> Probe]
    /\ SizeOf \in [Files -> Nat \ {0}]
    /\ MaxSeeds \in Nat /\ MaxTime \in Nat \ {0} /\ MaxKeys \in Nat \ {0}
    /\ Limits \subseteq Nat \ {0}

\* An object key names the bytes of a normalized output.
Keys == {<<f, q>> : f \in Files, q \in UNION {Outputs(ProbeOf[g]) : g \in Files}}
Ids == 1..MaxSeeds
Times == 1..MaxTime
Row == [id : Ids, at : Times, key : Keys]
Cursor == [at : Times, id : Ids, secret : 1..MaxKeys]

VARIABLES
    rows,      \* the committed rows of videos
    objects,   \* the keys whose object exists
    clock,     \* the database's clock
    seeds,     \* seed commands started (bound only)
    secret,    \* VIDEO_CURSOR_SECRET
    pc, file, key, made, at, \* a seed command: its step, its input, object_key,
                             \* object_created, created_at of its transaction
    tidy,      \* history: no other command worked on the key, no answer was lost
    torn,      \* history: keys whose object was removed by a command not `tidy`
    left,      \* history: keys whose object a command left in the store when it
               \* was killed, or when its removal failed
    reader,    \* a client that reads the whole catalogue
    player     \* a client that streams one video

vars == <<rows, objects, clock, seeds, secret, pc, file, key, made, at, tidy,
          torn, left, reader, player>>
seedVars == <<pc, file, key, made, at, tidy>>
Labels == {"idle", "normalize", "stat", "upload", "upsert", "commit", "remove"}

TypeOK ==
    /\ rows \subseteq Row /\ objects \subseteq Keys
    /\ torn \subseteq Keys /\ left \subseteq Keys
    /\ clock \in Times /\ seeds \in 0..MaxSeeds /\ secret \in 1..MaxKeys
    /\ pc \in [Seeders -> Labels]
    /\ file \in [Seeders -> Files \cup {None}]
    /\ key \in [Seeders -> Keys \cup {None}]
    /\ made \in [Seeders -> BOOLEAN]
    /\ at \in [Seeders -> Times]
    /\ tidy \in [Seeders -> BOOLEAN]
    /\ reader \in [pc : {"off", "paging", "done", "failed", "looped"},
                   cursor : Cursor \cup {None}, asked : SUBSET Cursor,
                   seen : SUBSET Ids, first : SUBSET Ids, twice : BOOLEAN]
    /\ player \in [pc : {"off", "open", "sent", "missing", "refused"},
                   key : Keys \cup {None}]

Init ==
    /\ rows = {} /\ objects = {} /\ torn = {} /\ left = {}
    /\ clock = 1 /\ seeds = 0 /\ secret = 1
    /\ pc = [s \in Seeders |-> "idle"]
    /\ file = [s \in Seeders |-> None]
    /\ key = [s \in Seeders |-> None]
    /\ made = [s \in Seeders |-> FALSE]
    /\ at = [s \in Seeders |-> 1]
    /\ tidy = [s \in Seeders |-> TRUE]
    /\ reader = [pc |-> "off", cursor |-> None, asked |-> {}, seen |-> {},
                 first |-> {}, twice |-> FALSE]
    /\ player = [pc |-> "off", key |-> None]

Tick ==
    /\ clock < MaxTime
    /\ clock' = clock + 1
    /\ UNCHANGED <<rows, objects, seeds, secret, seedVars, torn, left, reader, player>>

\* The API is started again with another VIDEO_CURSOR_SECRET.
Rotate ==
    /\ secret < MaxKeys
    /\ secret' = secret + 1
    /\ UNCHANGED <<rows, objects, clock, seeds, seedVars, torn, left, reader, player>>
-----------------------------------------------------------------------------
(* The seed command: seed_file_with_result *)

Goto(s, label) == pc' = [pc EXCEPT ![s] = label]

\* The command ends, returns or raises; its temporary directory goes with it.
Leave(s) ==
    /\ Goto(s, "idle")
    /\ file' = [file EXCEPT ![s] = None]
    /\ key' = [key EXCEPT ![s] = None]
    /\ made' = [made EXCEPT ![s] = FALSE]
    /\ at' = [at EXCEPT ![s] = 1]
    /\ tidy' = [tidy EXCEPT ![s] = TRUE]

\* inspect_mp4_file, then the checks of _normalize_to_output on its source.
Seed(s, f) ==
    /\ pc[s] = "idle"
    /\ seeds < MaxSeeds
    /\ seeds' = seeds + 1
    /\ file' = [file EXCEPT ![s] = f]
    /\ Goto(s, "normalize")
    /\ UNCHANGED <<rows, objects, clock, secret, key, made, at, tidy, torn, left,
                   reader, player>>

\* normalize_video yields a verified output, whose bytes name the object.
Normalize(s) ==
    /\ pc[s] = "normalize"
    /\ \E q \in Normalized(ProbeOf[file[s]]) : key' = [key EXCEPT ![s] = <<file[s], q>>]
    /\ Goto(s, "stat")
    /\ UNCHANGED <<rows, objects, clock, seeds, secret, file, made, at, tidy,
                   torn, left, reader, player>>

\* An exception before anything was stored: the file, ffprobe, ffmpeg, a
\* timeout, an output that is not canonical, the bucket or the object's stat.
SeedFails(s) ==
    /\ pc[s] \in {"normalize", "stat"}
    /\ Leave(s)
    /\ UNCHANGED <<rows, objects, clock, seeds, secret, torn, left, reader, player>>

Others(s) == {o \in Seeders \ {s} : key[o] = key[s] /\ pc[o] # "stat"}

\* ensure_bucket, then stat: the object is there, or it has to be uploaded.
StatObject(s) ==
    /\ pc[s] = "stat"
    /\ Goto(s, IF key[s] \in objects THEN "upsert" ELSE "upload")
    /\ tidy' = [o \in Seeders |-> tidy[o] /\ (o \in Others(s) \cup {s} => Others(s) = {})]
    /\ UNCHANGED <<rows, objects, clock, seeds, secret, file, key, made, at,
                   torn, left, reader, player>>

Upload(s) ==
    /\ pc[s] = "upload"
    /\ objects' = objects \cup {key[s]}
    /\ made' = [made EXCEPT ![s] = TRUE]
    /\ Goto(s, "upsert")
    /\ UNCHANGED <<rows, clock, seeds, secret, file, key, at, tidy, torn, left,
                   reader, player>>

\* Mutant: an upload that raised is taken to have left nothing behind.
UploadFailsForgotten(s) ==
    /\ pc[s] = "upload"
    /\ objects' \in {objects, objects \cup {key[s]}}
    /\ Leave(s)
    /\ UNCHANGED <<rows, clock, seeds, secret, torn, left, reader, player>>

\* The upload raises, with or without an object left behind.
UploadFails(s) ==
    /\ pc[s] = "upload"
    /\ objects' \in {objects, objects \cup {key[s]}}
    /\ Goto(s, "remove")
    /\ UNCHANGED <<rows, clock, seeds, secret, file, key, made, at, tidy, torn, left,
                   reader, player>>

RowOf(k) == {v \in rows : v.key = k}

\* The transaction begins and inserts; an insert of the same object_key by an
\* open transaction makes it wait.
Upsert(s) ==
    /\ pc[s] = "upsert"
    /\ \A o \in Seeders : pc[o] = "commit" => key[o] # key[s]
    /\ at' = [at EXCEPT ![s] = clock]
    /\ Goto(s, "commit")
    /\ UNCHANGED <<rows, objects, clock, seeds, secret, file, key, made, tidy,
                   torn, left, reader, player>>

\* ON CONFLICT DO NOTHING: a key that has a row keeps it.
NewRow(s, id) ==
    /\ id \notin {v.id : v \in rows}
    /\ rows' = IF RowOf(key[s]) = {}
               THEN rows \cup {[id |-> id, at |-> at[s], key |-> key[s]]}
               ELSE rows

CommitSeed(s, id) ==
    /\ pc[s] = "commit"
    /\ NewRow(s, id)
    /\ Leave(s)
    /\ torn' = IF key[s] \in objects THEN torn \ {key[s]} ELSE torn
    /\ left' = left \ {key[s]}
    /\ UNCHANGED <<objects, clock, seeds, secret, reader, player>>

\* Mutant: whatever is under the key is compensated.
AfterFailureAlways(s, clean) ==
    /\ Goto(s, "remove")
    /\ tidy' = [tidy EXCEPT ![s] = clean]
    /\ UNCHANGED <<file, key, made, at>>

\* Only an object that this command uploaded is compensated.
AfterFailure(s, clean) ==
    IF made[s]
    THEN /\ Goto(s, "remove")
         /\ tidy' = [tidy EXCEPT ![s] = clean]
         /\ UNCHANGED <<file, key, made, at>>
    ELSE Leave(s)

\* The database refuses; the session is rolled back.
DatabaseFails(s) ==
    /\ pc[s] \in {"upsert", "commit"}
    /\ AfterFailure(s, tidy[s])
    /\ UNCHANGED <<rows, objects, clock, seeds, secret, torn, left, reader, player>>

\* The row is durable, but the command sees an error.
CommitAnswerLost(s, id) ==
    /\ pc[s] = "commit"
    /\ NewRow(s, id)
    /\ AfterFailure(s, FALSE)
    /\ left' = left \ {key[s]}
    /\ UNCHANGED <<objects, clock, seeds, secret, torn, reader, player>>

\* _remove_uploaded_object; an error of the removal is logged.
RemoveObject(s) ==
    /\ pc[s] = "remove"
    /\ \/ /\ objects' = objects \ {key[s]}
          /\ torn' = IF tidy[s] THEN torn ELSE torn \cup {key[s]}
          /\ left' = left \ {key[s]}
       \/ /\ left' = left \cup ({key[s]} \cap objects)
          /\ UNCHANGED <<objects, torn>>
    /\ Leave(s)
    /\ UNCHANGED <<rows, clock, seeds, secret, reader, player>>

\* A command that has put an object, or may have put one, under its key.
Stored(s) == made[s] \/ pc[s] = "remove"

\* The command is killed between two steps.
Kill(s) ==
    /\ pc[s] # "idle"
    /\ Leave(s)
    /\ left' = IF Stored(s) THEN left \cup ({key[s]} \cap objects) ELSE left
    /\ UNCHANGED <<rows, objects, clock, seeds, secret, torn, reader, player>>

SeedStep(s) ==
    \/ \E f \in Files : Seed(s, f)
    \/ Normalize(s) \/ SeedFails(s) \/ StatObject(s)
    \/ Upload(s) \/ UploadFails(s) \/ Upsert(s) \/ DatabaseFails(s)
    \/ \E id \in Ids : CommitSeed(s, id) \/ CommitAnswerLost(s, id)
    \/ RemoveObject(s) \/ Kill(s)
-----------------------------------------------------------------------------
(* GET /videos, read to its end by getEntireVideoCatalog *)

\* The order of the list: created_at DESC, id DESC.
Newer(v, w) == v.at > w.at \/ (v.at = w.at /\ v.id > w.id)

\* Mutant: rows of the cursor's own time are left out.
BehindByTime(v, c) == c = None \/ v.at < c.at

\* The rows a cursor leaves to be listed.
Behind(v, c) == c = None \/ v.at < c.at \/ (v.at = c.at /\ v.id < c.id)

\* The first n rows behind the cursor.
Listed(c, n) ==
    LET rest == {v \in rows : Behind(v, c)}
    IN  {v \in rest : Cardinality({w \in rest : Newer(w, v)}) < n}

\* Mutant: the cursor is not signed.
EncodeCursorUnsigned(v) == [at |-> v.at, id |-> v.id]

\* encode_video_cursor and decode_video_cursor: a cursor names a place in the
\* order and is signed; one signed with another secret is refused.
EncodeCursor(v) == [at |-> v.at, id |-> v.id, secret |-> secret]
ValidCursor(c) == c # None => c.secret = secret

\* A page shows that there is a next one by one row more than was asked for.
NextCursor(c, limit) ==
    LET page == Listed(c, limit)
    IN  IF Cardinality(Listed(c, limit + 1)) > limit
        THEN EncodeCursor(CHOOSE v \in page : \A w \in page \ {v} : Newer(w, v))
        ELSE None

StartReading ==
    /\ reader.pc = "off"
    /\ reader' = [reader EXCEPT !.pc = "paging"]
    /\ UNCHANGED <<rows, objects, clock, seeds, secret, seedVars, torn, left, player>>

\* One request of the client and its answer.
ReadPage(limit) ==
    /\ reader.pc = "paging"
    /\ ValidCursor(reader.cursor)
    /\ LET c     == reader.cursor
           ids   == {v.id : v \in Listed(c, limit)}
           next  == NextCursor(c, limit)
           asked == reader.asked \cup ({c} \ {None})
       IN  reader' =
             [pc |-> IF next = None THEN "done"
                     ELSE IF next \in asked THEN "looped" ELSE "paging",
              cursor |-> next,
              asked |-> asked,
              seen |-> reader.seen \cup ids,
              first |-> IF c = None THEN {v.id : v \in rows} ELSE reader.first,
              twice |-> reader.twice \/ reader.seen \cap ids # {}]
    /\ UNCHANGED <<rows, objects, clock, seeds, secret, seedVars, torn, left, player>>

\* The cursor is refused, or there is no answer: the client gives up.
ReadFails ==
    /\ reader.pc = "paging"
    /\ reader' = [reader EXCEPT !.pc = "failed"]
    /\ UNCHANGED <<rows, objects, clock, seeds, secret, seedVars, torn, left, player>>
-----------------------------------------------------------------------------
(* GET /videos/{id}/stream *)

\* Headers with one range that can be split at its dash: "first-last",
\* "first-" and "-suffix".  Any other value is refused as Malformed is.
MaxSize == CHOOSE n \in {SizeOf[f] : f \in Files} : \A f \in Files : SizeOf[f] <= n
Malformed == [first |-> None, last |-> None]
RangeHeaders == {Malformed} \cup [first : 0..MaxSize, last : (0..MaxSize + 1) \cup {None}]
                            \cup [first : {None}, last : 0..MaxSize + 1]

\* The last page has null where the others have a cursor, and a request without
\* a Range has no header.
ASSUME NoneAssumption == None \notin Cursor /\ None \notin RangeHeaders

Unsatisfiable == [start |-> 1, end |-> 0]

Least(a, b) == IF a <= b THEN a ELSE b

\* Mutant: a range may begin behind the last byte.
ParseSingleRangeLate(h, size) ==
    IF h.first = None
    THEN IF h.last = None \/ h.last = 0 THEN Unsatisfiable
         ELSE [start |-> size - Least(h.last, size), end |-> size - 1]
    ELSE IF h.first > size THEN Unsatisfiable
    ELSE IF h.last = None THEN [start |-> h.first, end |-> size - 1]
    ELSE IF Least(h.last, size) < h.first THEN Unsatisfiable
    ELSE [start |-> h.first, end |-> Least(h.last, size)]

\* parse_single_range of a header that is present.
ParseSingleRange(h, size) ==
    IF h.first = None
    THEN IF h.last = None \/ h.last = 0 THEN Unsatisfiable
         ELSE [start |-> size - Least(h.last, size), end |-> size - 1]
    ELSE IF h.first >= size THEN Unsatisfiable
    ELSE IF h.last = None THEN [start |-> h.first, end |-> size - 1]
    ELSE IF Least(h.last, size - 1) < h.first THEN Unsatisfiable
    ELSE [start |-> h.first, end |-> Least(h.last, size - 1)]

\* parseSingleByteRange, with which the service worker of the PWA serves a
\* downloaded video of the same size from its cache.
ParseSingleByteRange(h, size) ==
    IF h.first = None
    THEN IF h.last = None \/ h.last = 0 THEN Unsatisfiable
         ELSE [start |-> IF h.last < size THEN size - h.last ELSE 0, end |-> size - 1]
    ELSE IF h.first >= size \/ (h.last # None /\ h.last < h.first) THEN Unsatisfiable
    ELSE [start |-> h.first, end |-> IF h.last = None THEN size - 1 ELSE Least(h.last, size - 1)]

\* get_stream_info: the row, then the object's metadata.
StreamInfo(id) ==
    /\ player.pc # "open"
    /\ \/ \E v \in rows : /\ v.id = id /\ v.key \in objects
                          /\ player' = [pc |-> "open", key |-> v.key]
       \/ /\ \A v \in rows : v.id = id => v.key \notin objects
          /\ player' = [pc |-> "missing", key |-> None]
    /\ UNCHANGED <<rows, objects, clock, seeds, secret, seedVars, torn, left, reader>>

\* The bytes to send, with a header or without one.
RangeOf(h, size) ==
    IF h = None THEN [start |-> 0, end |-> size - 1] ELSE ParseSingleRange(h, size)

SizeOfKey(k) == SizeOf[k[1]]

\* The range is parsed with the size read before, then the object is opened: it
\* may be gone by now.
OpenStream(h) ==
    /\ player.pc = "open"
    /\ player' = [pc |-> IF RangeOf(h, SizeOfKey(player.key)) = Unsatisfiable THEN "refused"
                         ELSE IF player.key \in objects THEN "sent" ELSE "missing",
                  key |-> None]
    /\ UNCHANGED <<rows, objects, clock, seeds, secret, seedVars, torn, left, reader>>

Next ==
    \/ Tick \/ Rotate
    \/ \E s \in Seeders : SeedStep(s)
    \/ StartReading \/ ReadFails \/ \E limit \in Limits : ReadPage(limit)
    \/ \E id \in Ids : StreamInfo(id)
    \/ \E h \in RangeHeaders \cup {None} : OpenStream(h)

Spec == Init /\ [][Next]_vars
-----------------------------------------------------------------------------
(* Properties *)

\* A client that reads the catalogue to its end while videos are added, some
\* with a created_at that is older than rows it has already read, gets every
\* video that was listed when it began, none of them on two pages, and never
\* meets a cursor again (ADR 003: keyset pages; "a cursor loop" fails safely).
CatalogueComplete ==
    /\ reader.pc = "done" => reader.first \subseteq reader.seen
    /\ ~reader.twice
    /\ reader.pc # "looped"

\* A row whose object is missing was torn from it by a command that shared the
\* key with another one, or whose commit was durable though it saw an error.
\* One command at a time, killed or failing at any step, never leaves such a
\* row behind, and a later command for the same file mends it.
RowsBacked == \A v \in rows : v.key \notin objects => v.key \in torn

\* The bytes a header asks for (RFC 9110): the last ones for a suffix, else
\* those from first to last.
Requested(h, size) ==
    {b \in 0..size - 1 :
        IF h.first = None THEN h.last # None /\ b + h.last >= size
        ELSE b >= h.first /\ (h.last = None \/ b <= h.last)}

\* Whatever range is asked for, at the moment the object's size is known the
\* bytes that will be sent are exactly the requested ones the object has, and a
\* request is refused exactly when there are none.  The service worker, which
\* answers for the same video when it is played offline, sends the same bytes.
RangesExact ==
    player.pc = "open" =>
        \A h \in RangeHeaders :
            LET size == SizeOfKey(player.key)
            IN  \A range \in {RangeOf(h, size), ParseSingleByteRange(h, size)} :
                    range.start..range.end = Requested(h, size)

\* The store holds no object that no row names and that no command answers for:
\* whatever fails, a command that put an object under a key ends with a row of
\* that key, with the object removed, or with a removal that failed; also when
\* another command found the object, or stored it again, in between.  Only a
\* killed command leaves one behind without having tried (seed_file_with_result,
\* _remove_uploaded_object).
NoStrayObjects ==
    \A k \in objects :
        \/ RowOf(k) # {} \/ k \in left
        \/ \E s \in Seeders : key[s] = k /\ Stored(s)
=============================================================================
