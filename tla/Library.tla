------------------------------- MODULE Library -------------------------------
(***************************************************************************)
(* Sounds and fonts as administrators upload and publish them              *)
(* (src/src/modules/ingest, fonts, assets): an upload goes straight to the *)
(* bucket, and finalize then reads it back, for seconds, and catalogues    *)
(* it.  Nothing is locked: each step of `call' is one query, one           *)
(* transaction or one call to the storage, and requests interleave between *)
(* them.  The database runs at READ COMMITTED, so a transaction that reads *)
(* rows and then replaces them is two steps.                               *)
(*                                                                         *)
(* A ticket signs a fresh key and the PUT is create-only, so the key of an *)
(* upload is its session; an expired one is one no request finalizes.  The  *)
(* bucket and its answers are external.                                    *)
(***************************************************************************)
EXTENDS FiniteSets, Naturals, Absent

CONSTANTS Audios, Fonts,
          Sessions,      \* upload sessions, each with the key it signs
          Previews,      \* keys of the previews the server draws
          Faces,         \* (family, style) pairs, as a font file names them
          Handlers,      \* requests in progress at once
          Dashboard,     \* no finalize is sent while one of that file is in progress
          MaxVersion     \* bound: versions of a font

Assets == Audios \cup Fonts
Keys == Sessions \cup Previews
Contents == Faces \cup {"sound", "image", "bad"}

ASSUME LibraryAssumption ==
  /\ IsFiniteSet(Keys)
  /\ Dashboard \in BOOLEAN
  /\ MaxVersion \in Nat \ {0}
  /\ Audios \cap Fonts = {} /\ Sessions \cap Previews = {}
  /\ None \notin Assets \cup Keys \cup Contents \cup [face : Faces, version : 1 .. MaxVersion]
                 \cup {"draft", "ready", "published", "failed", "original", "thumbnail"}

VARIABLES
  status,    \* Asset.status, None before the asset is made
  deleted,   \* the assets with a deletedAt
  details,   \* FontAsset: the face and version of a font, or None
  files,     \* AssetFile rows
  session,   \* UploadSession rows
  stored,    \* the objects of the bucket
  call       \* each request: its step and what it has read

vars == <<status, deleted, details, files, session, stored, call>>

\* `key' is the upload, or the file a preview is drawn of; `seen' the details of
\* the font as first read; `got' what the upload holds, then the preview's key;
\* `old' the keys of the rows a swap replaces.
Idle == [at |-> "idle", asset |-> None, key |-> None, seen |-> None,
         got |-> None, refused |-> FALSE, old |-> {}]

LibraryInit ==
  /\ status = [a \in Assets |-> None]
  /\ deleted = {}
  /\ details = [f \in Fonts |-> None]
  /\ files = {}
  /\ session = [s \in Sessions |-> [asset |-> None, role |-> None, state |-> "pending"]]
  /\ stored = [k \in Keys |-> None]
  /\ call = [h \in Handlers |-> Idle]

-----------------------------------------------------------------------------

Live(a) == status[a] # None /\ a \notin deleted

KeysOf(a, role) == {f.key : f \in {g \in files : g.asset = a /\ g.role = role}}

Primaries(a) == {f \in files : f.asset = a /\ f.role = "original" /\ f.primary}

\* @@unique([storageId, storageKey])
Catalogued(k) == \E f \in files : f.key = k

\* What the probe of the session's file must find in it.
Fits(content, s) ==
  IF session[s].role = "thumbnail" THEN content = "image"
  ELSE IF session[s].asset \in Audios THEN content = "sound" ELSE content \in Faces

Step(h, step) == call' = [call EXCEPT ![h].at = step]

End(h) == call' = [call EXCEPT ![h] = Idle]

Store(k, content) == stored' = [stored EXCEPT ![k] = content]

SetStatus(a, s) == status' = [status EXCEPT ![a] = s]

Row(k, a, role, primary) == [key |-> k, asset |-> a, role |-> role, primary |-> primary]

-----------------------------------------------------------------------------
\* Tickets, and the dashboard's PUT to the URL they sign.

Open(s, a, role) ==
  /\ session[s].asset = None
  /\ session' = [session EXCEPT ![s].asset = a, ![s].role = role]

\* Which of the unused names an asset takes does not matter.
Unmade(a) == status[a] = None /\ (a \in Fonts => a = CHOOSE f \in Fonts : status[f] = None)

\* A crash between the two rows leaves a draft, as does a session never used.
CreateTicket(s, a) ==
  /\ Unmade(a)
  /\ SetStatus(a, "draft")
  /\ Open(s, a, "original")
  /\ UNCHANGED <<deleted, details, files, stored, call>>

\* Even of a font that has no file yet.
CreateVersionTicket(s, a) ==
  /\ a \in Fonts /\ Live(a)
  /\ Open(s, a, "original")
  /\ UNCHANGED <<status, deleted, details, files, stored, call>>

CreateCoverTicket(s, a) ==
  /\ Live(a)
  /\ Open(s, a, "thumbnail")
  /\ UNCHANGED <<status, deleted, details, files, stored, call>>

Upload(s, content) ==
  /\ session[s].asset # None
  /\ stored[s] = None
  /\ content = "bad" \/ Fits(content, s)
  /\ Store(s, content)
  /\ UNCHANGED <<status, deleted, details, files, session, call>>

-----------------------------------------------------------------------------
\* Finalize, of every role and kind.

\* No request finalizes the session, nor another file of its asset.
Alone(s) ==
  \A h \in Handlers : LET other == call[h].key IN
    other \in Sessions => /\ other # s
                          /\ session[s].asset # session[other].asset \/ session[s].role = "thumbnail"
                                \/ session[other].role = "thumbnail"

Finalize(h, s) ==
  /\ call[h] = Idle
  /\ session[s].asset # None /\ session[s].state # "finalized"
  /\ Dashboard => Alone(s)
  /\ LET a == session[s].asset IN
     call' = [call EXCEPT ![h].at = IF session[s].role = "original" /\ a \in Fonts THEN "details" ELSE "verify",
                          ![h].asset = a, ![h].key = s]
  /\ UNCHANGED <<status, deleted, details, files, session, stored>>

\* FontsService.finalizeUpload: a font with details takes the file as a version.
ReadDetails(h) ==
  /\ call[h].at = "details"
  /\ call' = [call EXCEPT ![h].at = "verify", ![h].seen = details[call[h].asset]]
  /\ UNCHANGED <<status, deleted, details, files, session, stored>>

\* Mutant: a version that fails takes the font down.
MarksFailedAlways(c) == session[c.key].role = "original"

\* A failed cover, or version of a font, leaves the status as it was.
MarksFailed(c) == session[c.key].role = "original" /\ c.seen = None

\* The file is not there, or the storage does not answer.
VerifyFails(h) ==
  /\ call[h].at = "verify"
  /\ IF MarksFailed(call[h]) THEN Step(h, "markFailed") ELSE End(h)
  /\ UNCHANGED <<status, deleted, details, files, session, stored>>

Refuse(h, marks) ==
  call' = [call EXCEPT ![h].at = IF marks THEN "markFailed" ELSE "drop", ![h].refused = TRUE]

\* Not what it was declared to be; a version must be of the same face.
VerifyRefuses(h) ==
  /\ call[h].at = "verify"
  /\ LET c == call[h] found == stored[c.key] IN
     /\ found # None
     /\ \/ ~Fits(found, c.key)
        \/ c.seen # None /\ found # c.seen.face
     /\ Refuse(h, MarksFailed(c))
  /\ UNCHANGED <<status, deleted, details, files, session, stored>>

AfterVerify(c) ==
  IF session[c.key].role = "thumbnail" THEN "readCovers"
  ELSE IF c.asset \in Audios THEN "catalogue"
  ELSE IF c.seen = None THEN "checkFace" ELSE "readOriginals"

Verify(h) ==
  /\ call[h].at = "verify"
  /\ LET c == call[h] found == stored[c.key] IN
     /\ found # None /\ Fits(found, c.key)
     /\ c.seen # None => found = c.seen.face
     /\ call' = [call EXCEPT ![h].got = IF c.asset \in Fonts THEN found ELSE None, ![h].at = AfterVerify(c)]
  /\ UNCHANGED <<status, deleted, details, files, session, stored>>

MarkFailed(h) ==
  /\ call[h].at = "markFailed"
  /\ SetStatus(call[h].asset, "failed")
  /\ IF call[h].refused THEN Step(h, "drop") ELSE End(h)
  /\ UNCHANGED <<deleted, details, files, session, stored>>

\* A removal that fails is ignored, as if the request were cut before it.
Drop(h) ==
  /\ call[h].at = "drop"
  /\ Store(call[h].key, None)
  /\ End(h)
  /\ UNCHANGED <<status, deleted, details, files, session>>

-----------------------------------------------------------------------------
\* A sound: four writes, one by one.

\* A key already catalogued is an error the handler does not catch.
Catalogue(h) ==
  /\ call[h].at = "catalogue"
  /\ IF Catalogued(call[h].key)
     THEN End(h) /\ UNCHANGED files
     ELSE Step(h, "close") /\ files' = files \cup {Row(call[h].key, call[h].asset, "original", TRUE)}
  /\ UNCHANGED <<status, deleted, details, session, stored>>

Finalized(s) == session' = [session EXCEPT ![s].state = "finalized"]

Close(h) ==
  /\ call[h].at = "close"
  /\ Finalized(call[h].key)
  /\ Step(h, "ready")
  /\ UNCHANGED <<status, deleted, details, files, stored>>

\* No kind has its processors on, so it goes straight to ready.
MakeReady(h) ==
  /\ call[h].at = "ready"
  /\ SetStatus(call[h].asset, "ready")
  /\ End(h)
  /\ UNCHANGED <<deleted, details, files, session, stored>>

-----------------------------------------------------------------------------
\* A font: a new one, or a version of one.

Taken(face) == \E f \in Fonts : details[f] # None /\ details[f].face = face

CheckFace(h) ==
  /\ call[h].at = "checkFace"
  /\ IF Taken(call[h].got) THEN Refuse(h, TRUE) ELSE Step(h, "addFont")
  /\ UNCHANGED <<status, deleted, details, files, session, stored>>

\* One transaction.  Any unique key it breaks, of the face, of the asset or of
\* the file, is answered as a face already in the library.
AddFont(h) ==
  /\ call[h].at = "addFont"
  /\ LET c == call[h] IN
     IF Taken(c.got) \/ details[c.asset] # None \/ Catalogued(c.key)
     THEN Refuse(h, TRUE) /\ UNCHANGED <<status, details, files, session>>
     ELSE /\ details' = [details EXCEPT ![c.asset] = [face |-> c.got, version |-> 1]]
          /\ files' = files \cup {Row(c.key, c.asset, "original", TRUE)}
          /\ SetStatus(c.asset, "ready")
          /\ Finalized(c.key)
          /\ Step(h, "draw")
  /\ UNCHANGED <<deleted, stored>>

\* updateMany changes the rows its snapshot holds, waiting for those another
\* transaction has locked.
ReadOriginals(h) ==
  /\ call[h].at = "readOriginals"
  /\ call' = [call EXCEPT ![h].at = "addVersion", ![h].old = KeysOf(call[h].asset, "original")]
  /\ UNCHANGED <<status, deleted, details, files, session, stored>>

Demoted(old) == {IF f.key \in old THEN [f EXCEPT !.primary = FALSE] ELSE f : f \in files}

\* The version is one above the one read before the file was.
AddVersion(h) ==
  /\ call[h].at = "addVersion"
  /\ call[h].seen.version < MaxVersion
  /\ LET c == call[h] IN
     IF Catalogued(c.key) \/ details[c.asset] = None
     THEN End(h) /\ UNCHANGED <<details, files, session>>
     ELSE /\ files' = Demoted(c.old) \cup {Row(c.key, c.asset, "original", TRUE)}
          /\ details' = [details EXCEPT ![c.asset].version = c.seen.version + 1]
          /\ Finalized(c.key)
          /\ Step(h, "draw")
  /\ UNCHANGED <<status, deleted, stored>>

-----------------------------------------------------------------------------
\* The preview of a font, drawn from a file read back.

Fresh(p) == stored[p] = None /\ ~Catalogued(p) /\ \A h \in Handlers : p # call[h].got /\ p \notin call[h].old

\* PATCH of the title redraws it.
RefreshPreview(h, a) ==
  /\ call[h] = Idle
  /\ a \in Fonts /\ Live(a)
  /\ \E f \in Primaries(a) :
       call' = [call EXCEPT ![h].at = "draw", ![h].asset = a, ![h].key = f.key]
  /\ UNCHANGED <<status, deleted, details, files, session, stored>>

Draw(h) ==
  /\ call[h].at = "draw"
  /\ stored[call[h].key] # None
  /\ \E p \in Previews : Fresh(p)
  /\ LET p == CHOOSE q \in Previews : Fresh(q) IN
       /\ Store(p, "image")
       /\ call' = [call EXCEPT ![h].at = "readPreviews", ![h].got = p]
  /\ UNCHANGED <<status, deleted, details, files, session>>

\* No new preview: the font is saved as it is.
DrawFails(h) ==
  /\ call[h].at = "draw"
  /\ End(h)
  /\ UNCHANGED <<status, deleted, details, files, session, stored>>

ReadPreviews(h) ==
  /\ call[h].at = "readPreviews"
  /\ call' = [call EXCEPT ![h].at = "swapPreview", ![h].old = KeysOf(call[h].asset, "specimen")]
  /\ UNCHANGED <<status, deleted, details, files, session, stored>>

\* Mutant: the old rows stay.
SwappedKeeping(old, row) == files \cup {row}

Swapped(old, row) == {f \in files : f.key \notin old} \cup {row}

SwapPreview(h) ==
  /\ call[h].at = "swapPreview"
  /\ LET c == call[h] IN files' = Swapped(c.old, Row(c.got, c.asset, "specimen", FALSE))
  /\ Step(h, "deleteOld")
  /\ UNCHANGED <<status, deleted, details, session, stored>>

-----------------------------------------------------------------------------
\* Covers.

ReadCovers(h) ==
  /\ call[h].at = "readCovers"
  /\ call' = [call EXCEPT ![h].at = "swapCover", ![h].old = KeysOf(call[h].asset, "thumbnail")]
  /\ UNCHANGED <<status, deleted, details, files, session, stored>>

SwapCover(h) ==
  /\ call[h].at = "swapCover"
  /\ LET c == call[h] IN
     IF \E f \in files : f.key = c.key /\ f.key \notin c.old
     THEN End(h) /\ UNCHANGED <<files, session>>
     ELSE /\ files' = Swapped(c.old, Row(c.key, c.asset, "thumbnail", FALSE))
          /\ Finalized(c.key)
          /\ Step(h, "deleteOld")
  /\ UNCHANGED <<status, deleted, details, stored>>

RemoveCover(h, a) ==
  /\ call[h] = Idle
  /\ Live(a) /\ KeysOf(a, "thumbnail") # {}
  /\ call' = [call EXCEPT ![h].at = "removeCover", ![h].asset = a, ![h].old = KeysOf(a, "thumbnail")]
  /\ UNCHANGED <<status, deleted, details, files, session, stored>>

RemoveCoverRows(h) ==
  /\ call[h].at = "removeCover"
  /\ files' = {f \in files : f.key \notin call[h].old}
  /\ Step(h, "deleteOld")
  /\ UNCHANGED <<status, deleted, details, session, stored>>

\* Best effort: a removal that fails is as if the request were cut before it.
DeleteOld(h) ==
  /\ call[h].at = "deleteOld"
  /\ stored' = [k \in Keys |-> IF k \in call[h].old THEN None ELSE stored[k]]
  /\ End(h)
  /\ UNCHANGED <<status, deleted, details, files, session>>

-----------------------------------------------------------------------------
\* AssetService: each reads the asset, then writes it whatever it has become.

Publishable == {"ready", "archived"}

\* Mutant: whatever it has to show.
ShowsAnything(a) == TRUE

\* A font has a preview to show.
Shows(a) == a \in Fonts => KeysOf(a, "specimen") # {}

LoadToPublish(h, a) ==
  /\ call[h] = Idle
  /\ Live(a) /\ status[a] \in Publishable /\ Shows(a)
  /\ call' = [call EXCEPT ![h].at = "publish", ![h].asset = a,
                          ![h].seen = IF a \in Fonts THEN details[a] ELSE None]
  /\ UNCHANGED <<status, deleted, details, files, session, stored>>

\* The font's position is written with it, so a font whose details are gone fails.
Publish(h) ==
  /\ call[h].at = "publish"
  /\ LET c == call[h] IN
     IF c.seen # None /\ details[c.asset] = None
     THEN UNCHANGED status ELSE SetStatus(c.asset, "published")
  /\ End(h)
  /\ UNCHANGED <<deleted, details, files, session, stored>>

\* Whatever its status, a draft's too.
LoadToUnpublish(h, a) ==
  /\ call[h] = Idle
  /\ Live(a)
  /\ call' = [call EXCEPT ![h].at = "unpublish", ![h].asset = a]
  /\ UNCHANGED <<status, deleted, details, files, session, stored>>

Unpublish(h) ==
  /\ call[h].at = "unpublish"
  /\ SetStatus(call[h].asset, "ready")
  /\ End(h)
  /\ UNCHANGED <<deleted, details, files, session, stored>>

LoadToDelete(h, a) ==
  /\ call[h] = Idle
  /\ Live(a)
  /\ call' = [call EXCEPT ![h].at = "delete", ![h].asset = a,
                          ![h].seen = IF a \in Fonts THEN details[a] ELSE None]
  /\ UNCHANGED <<status, deleted, details, files, session, stored>>

SoftDelete(h) ==
  /\ call[h].at = "delete"
  /\ deleted' = deleted \cup {call[h].asset}
  /\ IF call[h].seen # None THEN Step(h, "freeFace") ELSE End(h)
  /\ UNCHANGED <<status, details, files, session, stored>>

\* Only once it is deleted; details already gone are an error.
FreeFace(h) ==
  /\ call[h].at = "freeFace"
  /\ details' = [details EXCEPT ![call[h].asset] = None]
  /\ End(h)
  /\ UNCHANGED <<status, deleted, files, session, stored>>

\* The process dies, or a query fails.
Cut(h) ==
  /\ call[h] # Idle
  /\ End(h)
  /\ UNCHANGED <<status, deleted, details, files, session, stored>>

FinalizeStep(h) ==
  \/ \E s \in Sessions : Finalize(h, s)
  \/ ReadDetails(h) \/ Verify(h) \/ VerifyFails(h) \/ VerifyRefuses(h) \/ MarkFailed(h) \/ Drop(h)
  \/ Catalogue(h) \/ Close(h) \/ MakeReady(h)
  \/ CheckFace(h) \/ AddFont(h) \/ ReadOriginals(h) \/ AddVersion(h)
  \/ ReadCovers(h) \/ SwapCover(h)

PreviewStep(h) ==
  \/ \E a \in Assets : RefreshPreview(h, a)
  \/ Draw(h) \/ DrawFails(h) \/ ReadPreviews(h) \/ SwapPreview(h)

AssetStep(h) ==
  \/ \E a \in Assets : LoadToPublish(h, a) \/ LoadToUnpublish(h, a) \/ LoadToDelete(h, a) \/ RemoveCover(h, a)
  \/ Publish(h) \/ Unpublish(h) \/ SoftDelete(h) \/ FreeFace(h)
  \/ RemoveCoverRows(h) \/ DeleteOld(h)

LibraryNext ==
  \/ \E s \in Sessions, a \in Assets :
       CreateTicket(s, a) \/ CreateVersionTicket(s, a) \/ CreateCoverTicket(s, a)
  \/ \E s \in Sessions, c \in Contents : Upload(s, c)
  \/ \E h \in Handlers : FinalizeStep(h) \/ PreviewStep(h) \/ AssetStep(h) \/ Cut(h)

LibrarySpec == LibraryInit /\ [][LibraryNext]_vars

-----------------------------------------------------------------------------
\* Properties.

\* Rows, objects and requests have their types; no asset is left processing.
LibraryTypeOK ==
  /\ status \in [Assets -> {None, "draft", "ready", "published", "failed"}]
  /\ deleted \subseteq Assets
  /\ details \in [Fonts -> {None} \cup [face : Faces, version : 1 .. MaxVersion]]
  /\ files \subseteq [key : Keys, asset : Assets, role : {"original", "thumbnail", "specimen"}, primary : BOOLEAN]
  /\ session \in [Sessions -> [asset : Assets \cup {None}, role : {None, "original", "thumbnail"},
                              state : {"pending", "finalized"}]]
  /\ stored \in [Keys -> Contents \cup {None}]
  /\ \A h \in Handlers : call[h].asset \in Assets \cup {None} /\ call[h].old \subseteq Keys

\* A catalogued file is in the bucket: a refusal deletes what "nothing will ever
\* point at" (ingest.service.ts:543), a swap or a removal what has its "rows ...
\* already gone" (ingest.service.ts:522).
FilesAreStored == \A f \in files : stored[f.key] # None

\* "The app shows fonts by their preview: a font without one would be a blank tile"
\* (asset.service.ts:164): whatever was unpublished, redrawn or uploaded meanwhile,
\* once a request or many at a time, a published font has a preview, a current file
\* and the details the app needs to list it.
PublishedFontsShow ==
  \A a \in Fonts : Live(a) /\ status[a] = "published" =>
    KeysOf(a, "specimen") # {} /\ Primaries(a) # {} /\ details[a] # None

\* "Only a fully processed asset may go live" (asset.service.ts:32): what is
\* published has its file.
PublishedIsWhole == \A a \in Assets : Live(a) /\ status[a] = "published" => Primaries(a) # {}

\* A finalize of its file has succeeded.
Finished(a) == \E s \in Sessions : session[s] = [asset |-> a, role |-> "original", state |-> "finalized"]

\* A finalize that fails late, or fails on a cover or a version, takes down
\* nothing: what has its file does not become failed.
FailureSpares ==
  [][\A a \in Assets : Live(a) /\ Finished(a) /\ status[a] # "failed" => status'[a] # "failed"]_vars
=============================================================================
