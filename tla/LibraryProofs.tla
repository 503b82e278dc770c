---------------------------- MODULE LibraryProofs ----------------------------
(***************************************************************************)
(* Proofs about Library for any assets, sessions and requests.             *)
(*                                                                         *)
(* Where no file's finalize is sent while one of it is in progress         *)
(* (Dashboard), the rows agree with the sessions they came from and with   *)
(* the bucket (Sound), a font with its uploads (HasDetails), each request  *)
(* with both (Local), and requests keep out of each other's uploads and    *)
(* previews (Apart).                                                       *)
(*                                                                         *)
(* Whatever is sent, and however often: a font that has a preview keeps    *)
(* one, and a current file and its details with it (Base).                 *)
(***************************************************************************)
EXTENDS Library, Integers, TLAPS

\* The steps of a finalize before its rows are written, and all of them.
OfFonts == {"details", "checkFace", "addFont", "readOriginals", "addVersion"}
OfAudios == {"catalogue", "close", "ready"}
OfCovers == {"readCovers", "swapCover"}
Verified == {"catalogue", "checkFace", "addFont", "readOriginals", "addVersion", "readCovers", "swapCover"}
Working == {"verify", "markFailed", "drop"} \cup OfFonts \cup OfAudios \cup OfCovers
Drawn == {"readPreviews", "swapPreview"}
OfAssets == {"removeCover", "publish", "unpublish", "delete", "freeFace"}
Steps == {"idle", "draw", "deleteOld"} \cup Working \cup Drawn \cup OfAssets

Details == [face : Faces, version : 1 .. MaxVersion]

\* The types of the tables, transparent in every proof.
FileRows == [key : Keys, asset : Assets, role : {"original", "thumbnail", "specimen"}, primary : BOOLEAN]
SessionRows == [Sessions -> [asset : Assets \cup {None}, role : {None, "original", "thumbnail"},
                             state : {"pending", "finalized"}]]
AssetStatus == [Assets -> {None, "draft", "ready", "published", "failed"}]
FontDetails == [Fonts -> {None} \cup [face : Faces, version : 1 .. MaxVersion]]

USE DEF FileRows, SessionRows, AssetStatus, FontDetails

Calls ==
  [at : Steps, asset : Assets \cup {None}, key : Keys \cup {None}, seen : Details \cup {None},
   got : Contents \cup Previews \cup {None}, refused : BOOLEAN, old : SUBSET Keys]

Typed ==
  /\ LibraryTypeOK
  /\ call \in [Handlers -> Calls]

-----------------------------------------------------------------------------
(* The rows and what they came from *)

IsOriginal(s, a) == s \in Sessions /\ session[s].asset = a /\ session[s].role = "original"

\* A row is of an upload that was verified and, unless it is a sound's, closed; or
\* of a preview the server drew.
SoundRow(f) ==
  /\ stored[f.key] # None
  /\ IF f.role = "specimen" THEN f.key \in Previews ELSE
       /\ f.key \in Sessions /\ session[f.key].asset = f.asset /\ session[f.key].role = f.role
       /\ Fits(stored[f.key], f.key)
       /\ session[f.key].state = "finalized" \/ (f.asset \in Audios /\ f.role = "original")

Sound ==
  /\ \A f \in files : SoundRow(f)
  /\ \A f, g \in files : f.key = g.key => f = g

SessionsOK ==
  /\ \A s \in Sessions : (session[s].asset = None <=> session[s].role = None)
                         /\ (session[s].asset = None => session[s].state = "pending" /\ stored[s] = None)
                         /\ (session[s].asset # None => status[session[s].asset] # None)
  /\ \A s, t \in Sessions, a \in Audios : IsOriginal(s, a) /\ IsOriginal(t, a) => s = t

\* A font that was finalized keeps its details until it is deleted.
HasDetails(a) == a \in Fonts /\ a \notin deleted /\ Finished(a) => details[a] # None

-----------------------------------------------------------------------------
(* The requests *)

\* The upload a finalize works on is its own and not yet closed.
OwnUpload(c) ==
  c.at \in Working =>
    /\ c.key \in Sessions /\ c.asset \in Assets /\ session[c.key].asset = c.asset
    /\ c.at # "ready" <=> session[c.key].state # "finalized"
    /\ c.at \in OfFonts => IsOriginal(c.key, c.asset) /\ c.asset \in Fonts
    /\ c.at \in OfAudios => IsOriginal(c.key, c.asset) /\ c.asset \in Audios
    /\ c.at \in OfCovers => session[c.key].role = "thumbnail"
    /\ c.at = "markFailed" => IsOriginal(c.key, c.asset) /\ c.seen = None

\* What it has found in the bucket is there, and what it refused is not catalogued.
Checked(c) ==
  /\ c.at \in Verified => stored[c.key] # None /\ Fits(stored[c.key], c.key)
  /\ c.refused => c.at \in {"markFailed", "drop"}
  /\ c.refused \/ c.at = "drop" => ~Catalogued(c.key)
  /\ c.at \in {"addFont", "checkFace"} => c.got \in Faces

\* The details a finalize of a font read are its details, unless it was deleted.
SawDetails(c) ==
  /\ c.at \in {"verify", "markFailed", "checkFace", "addFont", "readOriginals", "addVersion"}
       /\ c.asset \in Fonts /\ IsOriginal(c.key, c.asset) /\ c.asset \notin deleted => details[c.asset] = c.seen
  /\ c.at \in {"checkFace", "addFont"} => c.seen = None
  /\ c.at \in {"readOriginals", "addVersion"} => c.seen # None
  /\ c.seen # None /\ c.at \in {"verify", "drop"} => IsOriginal(c.key, c.asset) /\ c.asset \in Fonts
  /\ c.at = "delete" /\ c.seen # None => c.asset \in Fonts
  /\ c.at = "freeFace" => c.asset \in Fonts /\ c.asset \in deleted

\* What it will replace or remove is closed and of the role it replaces.
SawRows(c) ==
  /\ \A k \in c.old \cap Sessions :
       session[k].state = "finalized" /\ (session[k].role = "thumbnail" \/ session[k].asset \in Fonts)
  /\ c.at \in {"swapCover", "removeCover"} =>
       \A k \in c.old : k \in Sessions /\ session[k].role = "thumbnail"
  /\ c.at = "swapPreview" => c.old \subseteq Previews /\ \A f \in files : f.key \in c.old => f.asset = c.asset
  /\ c.at = "deleteOld" => \A k \in c.old : ~Catalogued(k)

\* The preview it has drawn is in the bucket and no row has it yet.
HasPreview(c) ==
  /\ c.at \in {"draw"} \cup Drawn => c.asset \in Fonts
  /\ c.at \in Drawn => c.got \in Previews /\ stored[c.got] # None /\ ~Catalogued(c.got) /\ c.got \notin c.old

\* What it has loaded was made.
Loaded(c) ==
  c.at \in {"publish", "unpublish", "delete", "removeCover"} => c.asset \in Assets /\ status[c.asset] # None

Local(c) ==
  OwnUpload(c) /\ Checked(c) /\ SawDetails(c) /\ SawRows(c) /\ HasPreview(c) /\ Loaded(c)

\* Two requests work on different uploads, and originals of different assets, and
\* neither replaces the preview the other has drawn.
Apart(c, d) ==
  /\ c.at \in Working /\ d.at \in Working =>
       /\ c.key # d.key
       /\ c.asset # d.asset \/ session[c.key].role = "thumbnail" \/ session[d.key].role = "thumbnail"
  /\ c.at \in Drawn => c.got \notin d.old /\ (d.at \in Drawn => c.got # d.got)

IInv ==
  /\ Typed /\ Sound /\ SessionsOK
  /\ \A a \in Assets : HasDetails(a)
  /\ \A h \in Handlers : Local(call[h])
  /\ \A g, h \in Handlers : g # h => Apart(call[g], call[h])

-----------------------------------------------------------------------------
(* Steps that leave the other requests alone *)

db == <<status, deleted, details, files, session, stored>>

\* What was opened, closed, made or deleted stays so.
Grows ==
  /\ \A s \in Sessions : session[s].asset # None =>
       /\ session'[s].asset = session[s].asset /\ session'[s].role = session[s].role
       /\ session[s].state = "finalized" => session'[s].state = "finalized"
  /\ \A a \in Assets : status[a] # None => status'[a] # None
  /\ deleted \subseteq deleted'

\* What the request d has read and drawn is left as it is.
Spares(d) ==
  /\ d.at \in Working => session'[d.key].state = session[d.key].state
  /\ d.at \in Verified => stored'[d.key] = stored[d.key]
  /\ d.at \in Drawn => stored'[d.got] = stored[d.got]
  /\ d.at \in Working /\ d.asset \in Fonts /\ IsOriginal(d.key, d.asset) /\ d.asset \notin deleted' =>
       details'[d.asset] = details[d.asset]
  /\ \A f \in files' :
       \/ \E g \in files : g.key = f.key /\ g.asset = f.asset
       \/ /\ f.key \notin d.old
          /\ d.at \in Working => f.key # d.key
          /\ d.at \in Drawn => f.key # d.got

LEMMA LocalSpared ==
  ASSUME Typed, SessionsOK, Grows, NEW d, d \in Calls, Local(d), Spares(d)
  PROVE  Local(d)'
<1> USE DEF Working, OfFonts, OfAudios, OfCovers, Verified, Drawn
<1>1. /\ \A s \in Sessions : session[s].asset # None =>
            /\ session'[s].asset = session[s].asset /\ session'[s].role = session[s].role
            /\ session[s].state = "finalized" => session'[s].state = "finalized"
      /\ \A a \in Assets : status[a] # None => status'[a] # None
      /\ deleted \subseteq deleted'
  BY DEF Grows
<1>2. None \notin Assets /\ Audios \subseteq Assets /\ Fonts \subseteq Assets
  BY LibraryAssumption DEF Assets
<1>3. ASSUME d.at \in Working
      PROVE  /\ d.key \in Sessions /\ d.asset \in Assets /\ session[d.key].asset = d.asset
             /\ session'[d.key].asset = d.asset /\ session'[d.key].role = session[d.key].role
             /\ session'[d.key].state = session[d.key].state
             /\ IsOriginal(d.key, d.asset) <=> IsOriginal(d.key, d.asset)'
  BY <1>1, <1>2, <1>3 DEF Local, OwnUpload, Spares, IsOriginal
<1>4. OwnUpload(d)'
  BY <1>3 DEF Local, OwnUpload
<1>5. ASSUME NEW k, Catalogued(k)', k \in d.old \/ (d.at \in Working /\ k = d.key) \/ (d.at \in Drawn /\ k = d.got)
      PROVE  Catalogued(k)
  BY <1>5 DEF Spares, Catalogued
<1>6. Checked(d)'
  <2>1. d.at \in Verified => (stored[d.key] # None /\ Fits(stored[d.key], d.key))'
    BY <1>3 DEF Local, Checked, Spares, Fits
  <2>2. d.at \in {"drop", "markFailed"} => (Catalogued(d.key)' => Catalogued(d.key))
    BY <1>5
  <2> QED
    BY <2>1, <2>2 DEF Local, Checked, Catalogued
<1>7. SawDetails(d)'
  BY <1>1, <1>3 DEF Local, SawDetails, Spares
<1>8. SawRows(d)'
  <2>1. \A k \in d.old \cap Sessions :
          session'[k].state = "finalized" /\ (session'[k].role = "thumbnail" \/ session'[k].asset \in Fonts)
    <3>1. \A k \in d.old \cap Sessions : session[k].state = "finalized" /\ session[k].asset # None
      BY DEF Local, SawRows, SessionsOK
    <3> QED
      BY <1>1, <3>1 DEF Local, SawRows
  <2>2. d.at \in {"swapCover", "removeCover"} =>
          \A k \in d.old : k \in Sessions /\ session'[k].role = "thumbnail"
    <3>1. d.at \in {"swapCover", "removeCover"} =>
            \A k \in d.old : k \in Sessions /\ session[k].role = "thumbnail" /\ session[k].asset # None
      BY DEF Local, SawRows, SessionsOK
    <3> QED
      BY <1>1, <3>1
  <2>3. d.at = "swapPreview" => d.old \subseteq Previews /\ \A f \in files' : f.key \in d.old => f.asset = d.asset
    BY DEF Local, SawRows, Spares
  <2>5. d.at = "deleteOld" => \A k \in d.old : ~Catalogued(k)'
    BY <1>5 DEF Local, SawRows
  <2> QED
    BY <2>1, <2>2, <2>3, <2>5 DEF SawRows, Catalogued
<1>9. HasPreview(d)'
  <2>1. d.at \in Drawn => stored'[d.got] # None
    BY DEF Local, HasPreview, Spares
  <2>2. d.at \in Drawn => ~Catalogued(d.got)'
    BY <1>5 DEF Local, HasPreview
  <2> QED
    BY <2>1, <2>2 DEF Local, HasPreview, Catalogued
<1>10. Loaded(d)'
  BY <1>1 DEF Local, Loaded
<1> QED
  BY <1>4, <1>6, <1>7, <1>8, <1>9, <1>10 DEF Local

\* Requests other than h keep apart when h goes on with its own upload, its own
\* preview and what it had read or now reads from the rows.
Follows(c, x) ==
  /\ x.at \in Working => c.at \in Working /\ x.key = c.key /\ x.asset = c.asset
  /\ x.at \in Drawn => c.at \in Drawn /\ x.got = c.got
  /\ \A k \in x.old : k \in c.old \/ Catalogued(k)

LEMMA FollowsApart ==
  ASSUME IInv, Grows, NEW g \in Handlers, NEW h \in Handlers, g # h, NEW x, Follows(call[h], x),
         NEW d, d = call[g]
  PROVE  Apart(x, d)' /\ Apart(d, x)'
<1>1. Apart(call[h], d) /\ Apart(d, call[h]) /\ Local(d) /\ Local(call[h])
  BY DEF IInv
<1>2. \A s \in Sessions : session[s].asset # None => session'[s].role = session[s].role
  BY DEF Grows
<1>3. ASSUME NEW e, Local(e), e.at \in Working
      PROVE  session'[e.key].role = session[e.key].role
  BY <1>2, <1>3, LibraryAssumption DEF Local, OwnUpload, Assets
<1>4. d.at \in Drawn => ~Catalogued(d.got)
  BY <1>1 DEF Local, HasPreview
<1>5. Apart(x, d)'
  BY <1>1, <1>3 DEF Apart, Follows
<1>6. Apart(d, x)'
  BY <1>1, <1>3, <1>4 DEF Apart, Follows
<1> QED
  BY <1>5, <1>6

\* What keeps two requests apart stays as it is.
LEMMA ApartStays ==
  ASSUME Grows, NEW c, NEW d, Local(c), Local(d), Apart(c, d)
  PROVE  Apart(c, d)'
<1>1. \A s \in Sessions : session[s].asset # None => session'[s].role = session[s].role
  BY DEF Grows
<1>2. ASSUME NEW e, Local(e), e.at \in Working
      PROVE  session'[e.key].role = session[e.key].role
  BY <1>1, <1>2, LibraryAssumption DEF Local, OwnUpload, Assets
<1> QED
  BY <1>2 DEF Apart

\* A step of h keeps the invariant if it keeps the rows sound, the fonts'
\* details, the other requests' grounds, and puts h on grounds of its own.
LEMMA Keeps ==
  ASSUME IInv, NEW h \in Handlers, NEW x \in Calls, call' = [call EXCEPT ![h] = x],
         Typed', Sound', SessionsOK', \A a \in Assets : HasDetails(a)',
         Grows, \A g \in Handlers \ {h} : Spares(call[g]),
         Local(x)', \A g \in Handlers \ {h} : \A d : d = call[g] => Apart(x, d)' /\ Apart(d, x)'
  PROVE  IInv'
<1>1. call \in [Handlers -> Calls] /\ call'[h] = x /\ \A g \in Handlers \ {h} : call'[g] = call[g]
  BY DEF IInv, Typed
<1>2. ASSUME NEW g \in Handlers, NEW d, d = call'[g] PROVE Local(d)'
  BY <1>1, <1>2, LocalSpared DEF IInv
<1>3. ASSUME NEW g \in Handlers, NEW f \in Handlers, g # f, NEW c, c = call'[f], NEW d, d = call'[g]
      PROVE  Apart(c, d)'
  <2>1. CASE f = h \/ g = h
    BY <1>1, <1>3, <2>1
  <2>2. CASE f # h /\ g # h
    BY <1>1, <1>3, <2>2, ApartStays DEF IInv
  <2> QED
    BY <2>1, <2>2
<1>4. \A g \in Handlers : Local(call[g])'
  BY <1>2 DEF Local, OwnUpload, Checked, SawDetails, SawRows, HasPreview, Loaded
<1>5. \A g, f \in Handlers : f # g => Apart(call[f], call[g])'
  BY <1>3 DEF Apart
<1> QED
  BY <1>4, <1>5 DEF IInv

LEMMA TypedMove ==
  ASSUME Typed, NEW h \in Handlers, NEW x \in Calls, call' = [call EXCEPT ![h] = x],
         status' \in AssetStatus,
         deleted' \subseteq Assets,
         details' \in FontDetails,
         files' \subseteq FileRows,
         session' \in SessionRows,
         stored' \in [Keys -> Contents \cup {None}]
  PROVE  Typed'
<1>1. call' \in [Handlers -> Calls]
  BY DEF Typed
<1>2. \A g \in Handlers : call'[g].asset \in Assets \cup {None} /\ call'[g].old \subseteq Keys
  BY <1>1 DEF Calls
<1> QED
  BY <1>1, <1>2 DEF Typed, LibraryTypeOK

\* A font keeps its details where no other way of finishing it comes up.
LEMMA DetailsStay ==
  ASSUME IInv, NEW a \in Assets, deleted \subseteq deleted',
         a \in Fonts /\ a \notin deleted' /\ details[a] # None => details'[a] # None,
         a \in Fonts /\ Finished(a)' => Finished(a) \/ details'[a] # None
  PROVE  HasDetails(a)'
  BY DEF IInv, HasDetails

\* What a step that changes no table and no object leaves as it was.
LEMMA QuietDb ==
  ASSUME IInv, UNCHANGED db
  PROVE  /\ Sound' /\ SessionsOK' /\ \A a \in Assets : HasDetails(a)'
         /\ Grows /\ \A g \in Handlers : Spares(call[g])
         /\ \A x : Local(x) => Local(x)'
<1> USE DEF db
<1>1. Sound' /\ SessionsOK'
  BY DEF IInv, Sound, SoundRow, SessionsOK, IsOriginal, Fits
<1>2. ASSUME NEW a \in Assets PROVE HasDetails(a)'
  BY DetailsStay DEF Finished
<1>3. Grows
  BY DEF Grows
<1>4. ASSUME NEW g \in Handlers PROVE Spares(call[g])
  BY DEF Spares
<1>5. ASSUME NEW x, Local(x) PROVE Local(x)'
  <2>1. OwnUpload(x)' /\ SawDetails(x)'
    BY <1>5 DEF Local, OwnUpload, SawDetails, IsOriginal
  <2>2. Checked(x)'
    BY <1>5 DEF Local, Checked, Fits, Catalogued
  <2>3. SawRows(x)' /\ HasPreview(x)'
    BY <1>5 DEF Local, SawRows, HasPreview, Catalogued
  <2>4. Loaded(x)'
    BY <1>5 DEF Local, Loaded
  <2> QED
    BY <2>1, <2>2, <2>3, <2>4 DEF Local
<1> QED
  BY <1>1, <1>2, <1>3, <1>4, <1>5

LEMMA QuietMove ==
  ASSUME IInv, NEW h \in Handlers, NEW x \in Calls, call' = [call EXCEPT ![h] = x], UNCHANGED db,
         Local(x), Follows(call[h], x)
  PROVE  IInv'
<1>1. Typed'
  BY TypedMove DEF IInv, Typed, LibraryTypeOK, db
<1>2. \A g \in Handlers \ {h} : \A d : d = call[g] => Apart(x, d)' /\ Apart(d, x)'
  BY FollowsApart, QuietDb
<1> QED
  BY <1>1, <1>2, Keeps, QuietDb

-----------------------------------------------------------------------------
(* Steps that only read *)

LEMMA IdleIsLocal ==
  /\ Idle \in Calls /\ Local(Idle) /\ Idle.at = "idle" /\ Idle.old = {}
  /\ \A c : Follows(c, Idle)
<1> USE DEF Idle, Working, OfFonts, OfAudios, OfCovers, Verified, Drawn
<1>1. Idle \in Calls /\ Idle.at = "idle" /\ Idle.old = {}
  BY DEF Calls, Steps
<1>2. OwnUpload(Idle) /\ Checked(Idle) /\ SawDetails(Idle) /\ SawRows(Idle) /\ HasPreview(Idle) /\ Loaded(Idle)
  BY DEF OwnUpload, Checked, SawDetails, SawRows, HasPreview, Loaded
<1> QED
  BY <1>1, <1>2 DEF Local, Follows

LEMMA Ends ==
  ASSUME IInv, NEW h \in Handlers, End(h), UNCHANGED db
  PROVE  IInv'
  BY IdleIsLocal, QuietMove DEF End

\* A request that steps on has the variables it had.
LEMMA StepsTo ==
  ASSUME Typed, NEW h \in Handlers, NEW step \in Steps, Step(h, step), NEW c, c = call[h],
         NEW x, x = [c EXCEPT !.at = step]
  PROVE  /\ call' = [call EXCEPT ![h] = x] /\ x \in Calls /\ c \in Calls
         /\ x.at = step /\ x.asset = c.asset /\ x.key = c.key /\ x.seen = c.seen /\ x.got = c.got
         /\ x.refused = c.refused /\ x.old = c.old
<1>1. c \in Calls
  BY DEF Typed
<1>2. /\ x \in Calls /\ x.at = step /\ x.asset = c.asset /\ x.key = c.key /\ x.seen = c.seen /\ x.got = c.got
      /\ x.refused = c.refused /\ x.old = c.old
  BY <1>1 DEF Calls
<1> QED
  BY <1>1, <1>2 DEF Step

\* A pending upload of a font or a cover is in no row.
LEMMA NotYet ==
  ASSUME Sound, NEW s \in Sessions, session[s].state # "finalized",
         session[s].asset \in Fonts \/ session[s].role # "original"
  PROVE  ~Catalogued(s)
<1> SUFFICES ASSUME NEW f \in files, f.key = s PROVE FALSE
  BY DEF Catalogued
<1>1. SoundRow(f)
  BY DEF Sound
<1> QED
  BY <1>1, LibraryAssumption DEF SoundRow

\* A key a row has is in the bucket and, if it is a session's, fits it.
LEMMA RowFits ==
  ASSUME Sound, NEW s \in Sessions, Catalogued(s)
  PROVE  stored[s] # None /\ Fits(stored[s], s)
<1>1. PICK f \in files : f.key = s
  BY DEF Catalogued
<1> QED
  BY <1>1, LibraryAssumption DEF Sound, SoundRow

\* A refusal of a file that no row has.
LEMMA RefuseHolds ==
  ASSUME IInv, NEW h \in Handlers, UNCHANGED db, NEW c, c = call[h], NEW step \in {"markFailed", "drop"},
         call' = [call EXCEPT ![h].at = step, ![h].refused = TRUE],
         c.at \in {"verify", "checkFace", "addFont"}, ~Catalogued(c.key),
         step = "markFailed" => IsOriginal(c.key, c.asset) /\ c.seen = None
  PROVE  IInv'
<1> USE DEF Working, OfFonts, OfAudios, OfCovers, Verified, Drawn
<1>0. c \in Calls /\ Typed /\ Local(c)
  BY DEF IInv, Typed
<1> DEFINE x == [c EXCEPT !.at = step, !.refused = TRUE]
<1>1. call' = [call EXCEPT ![h] = x]
  BY <1>0 DEF Typed
<1>2. x \in Calls /\ x.at = step /\ x.asset = c.asset /\ x.key = c.key /\ x.seen = c.seen
      /\ x.old = c.old
  <2>1. step \in Steps /\ c \in Calls
    BY <1>0 DEF Steps
  <2> QED
    BY <2>1 DEF Calls
<1> HIDE DEF x
<1>3. Local(x)
  BY <1>0, <1>2 DEF Local, OwnUpload, Checked, SawDetails, SawRows, HasPreview, Loaded
<1>4. Follows(c, x)
  BY <1>2 DEF Follows
<1> QED
  BY <1>1, <1>2, <1>3, <1>4, QuietMove

\* The session of a finalize and the storage decide what it does.
LEMMA VerifyHolds ==
  ASSUME IInv, NEW h \in Handlers,
         ReadDetails(h) \/ VerifyFails(h) \/ VerifyRefuses(h) \/ Verify(h) \/ CheckFace(h)
  PROVE  IInv'
<1> USE DEF Working, OfFonts, OfAudios, OfCovers, Verified, Drawn
<1> SUFFICES ASSUME NEW c, c = call[h] PROVE IInv'
  OBVIOUS
<1>0. /\ c \in Calls /\ Typed /\ Sound /\ Local(c) /\ SessionsOK
      /\ OwnUpload(c) /\ Checked(c) /\ SawDetails(c) /\ SawRows(c) /\ HasPreview(c) /\ Loaded(c)
  BY DEF IInv, Typed, Local
<1>1. UNCHANGED db
  BY DEF ReadDetails, VerifyFails, VerifyRefuses, Verify, CheckFace, db
<1>2. None \notin Assets /\ Audios \cap Fonts = {} /\ Assets = Audios \cup Fonts
  BY LibraryAssumption DEF Assets
<1>3. CASE ReadDetails(h)
  <2> DEFINE x == [c EXCEPT !.at = "verify", !.seen = details[c.asset]]
  <2>1. c.at = "details" /\ call' = [call EXCEPT ![h] = x]
    BY <1>0, <1>3 DEF ReadDetails, Typed
  <2>2. c.asset \in Fonts /\ IsOriginal(c.key, c.asset) /\ details[c.asset] \in Details \cup {None}
    BY <1>0, <2>1 DEF OwnUpload, Typed, LibraryTypeOK, Details
  <2>3. x \in Calls /\ x.at = "verify" /\ x.asset = c.asset /\ x.key = c.key /\ x.seen = details[c.asset]
        /\ x.old = c.old /\ x.refused = c.refused
    BY ZenonT(40), <1>0, <2>2 DEF Calls, Steps
  <2> HIDE DEF x
  <2>4. Local(x)
    BY <1>0, <2>1, <2>2, <2>3 DEF Local, OwnUpload, Checked, SawDetails, SawRows, HasPreview, Loaded
  <2>5. Follows(c, x)
    BY <2>1, <2>3 DEF Follows
  <2> QED
    BY <1>1, <2>1, <2>3, <2>4, <2>5, QuietMove
<1>4. CASE VerifyFails(h)
  <2>1. CASE MarksFailed(c)
    <3> DEFINE x == [c EXCEPT !.at = "markFailed"]
    <3>1. /\ call' = [call EXCEPT ![h] = x] /\ x \in Calls /\ c.at = "verify"
          /\ x.at = "markFailed" /\ x.asset = c.asset /\ x.key = c.key /\ x.seen = c.seen
          /\ x.refused = c.refused /\ x.old = c.old
      BY <1>0, <1>4, <2>1, StepsTo DEF VerifyFails, Steps
    <3> HIDE DEF x
    <3>2. Local(x)
      BY <1>0, <3>1, <2>1 DEF MarksFailed, Local, OwnUpload, Checked, SawDetails, SawRows, HasPreview,
                             Loaded, IsOriginal
    <3> QED
      BY <1>1, <3>1, <3>2, QuietMove DEF Follows
  <2>2. CASE ~MarksFailed(c)
    BY <1>1, <1>4, <2>2, Ends DEF VerifyFails
  <2> QED
    BY <2>1, <2>2
<1>6. CASE VerifyRefuses(h)
  <2>1. /\ c.at = "verify" /\ stored[c.key] # None /\ Refuse(h, MarksFailed(c))
        /\ ~Fits(stored[c.key], c.key) \/ (c.seen # None /\ stored[c.key] # c.seen.face)
    BY <1>6 DEF VerifyRefuses
  <2>2. c.key \in Sessions /\ session[c.key].asset = c.asset /\ session[c.key].state # "finalized"
    BY <1>0, <2>1 DEF OwnUpload
  <2>3. ~Catalogued(c.key)
    <3>1. c.seen # None => IsOriginal(c.key, c.asset) /\ c.asset \in Fonts
      BY <1>0, <2>1 DEF SawDetails
    <3> QED
      BY <1>0, <2>1, <2>2, <3>1, NotYet, RowFits
  <2>4. MarksFailed(c) => IsOriginal(c.key, c.asset) /\ c.seen = None
    BY <2>2 DEF MarksFailed, IsOriginal
  <2>5. CASE MarksFailed(c)
    <3>1. call' = [call EXCEPT ![h].at = "markFailed", ![h].refused = TRUE]
      BY <2>1, <2>5 DEF Refuse
    <3> QED
      BY <1>1, <2>1, <2>3, <2>4, <2>5, <3>1, RefuseHolds
  <2>6. CASE ~MarksFailed(c)
    <3>1. call' = [call EXCEPT ![h].at = "drop", ![h].refused = TRUE]
      BY <2>1, <2>6 DEF Refuse
    <3> QED
      BY <1>1, <2>1, <2>3, <3>1, RefuseHolds
  <2> QED
    BY <2>5, <2>6
<1>7. CASE Verify(h)
  <2> DEFINE step == AfterVerify(c)
             new == IF c.asset \in Fonts THEN stored[c.key] ELSE None
             x == [c EXCEPT !.got = new, !.at = step]
  <2>a. call' = [call EXCEPT ![h].got = new, ![h].at = step]
    BY <1>7 DEF Verify
  <2>b. \A a, b : [call EXCEPT ![h].got = a, ![h].at = b] = [call EXCEPT ![h] = [c EXCEPT !.got = a, !.at = b]]
    BY <1>0 DEF Typed, Calls
  <2>1. /\ c.at = "verify" /\ stored[c.key] # None /\ Fits(stored[c.key], c.key)
        /\ call' = [call EXCEPT ![h] = x]
    <3>1. c.at = "verify" /\ stored[c.key] # None /\ Fits(stored[c.key], c.key)
      BY <1>7 DEF Verify
    <3> HIDE DEF step, new
    <3> QED
      BY <2>a, <2>b, <3>1
  <2>2. /\ c.key \in Sessions /\ session[c.key].asset = c.asset /\ c.asset \in Assets
        /\ session[c.key].state # "finalized" /\ ~c.refused
    BY <1>0, <2>1 DEF OwnUpload, Checked
  <2>3. session[c.key].role \in {"original", "thumbnail"}
    BY <1>0, <1>2, <2>2 DEF SessionsOK, Typed, LibraryTypeOK
  <2>4. /\ step \in {"readCovers", "catalogue", "checkFace", "readOriginals"}
        /\ step = "readCovers" <=> session[c.key].role = "thumbnail"
        /\ step = "catalogue" => c.asset \in Audios
        /\ step = "checkFace" => c.asset \in Fonts /\ c.seen = None
        /\ step = "readOriginals" => c.asset \in Fonts /\ c.seen # None
    BY <1>2, <2>2, <2>3 DEF AfterVerify
  <2>5. new \in Contents \cup {None}
    BY <2>2 DEF IInv, Typed, LibraryTypeOK, Keys
  <2> HIDE DEF step, new
  <2>6. x \in Calls /\ x.at = step /\ x.asset = c.asset /\ x.key = c.key /\ x.seen = c.seen /\ x.got = new
        /\ x.old = c.old /\ x.refused = c.refused
    BY <1>0, <2>4, <2>5 DEF Calls, Steps
  <2> HIDE DEF x
  <2>7. step = "checkFace" => new \in Faces
    BY <1>2, <2>1, <2>2, <2>3, <2>4 DEF new, Fits
  <2>8. OwnUpload(x)
    BY <2>2, <2>3, <2>4, <2>6 DEF OwnUpload, IsOriginal
  <2>9. Checked(x)
    BY <2>1, <2>2, <2>4, <2>6, <2>7 DEF Checked
  <2>10. Local(x)
    BY <1>0, <2>1, <2>4, <2>6, <2>8, <2>9 DEF Local, SawDetails, SawRows, HasPreview, Loaded
  <2> QED
    BY <1>1, <2>1, <2>4, <2>6, <2>10, QuietMove DEF Follows
<1>8. CASE CheckFace(h)
  <2>1. c.at = "checkFace" /\ IF Taken(c.got) THEN Refuse(h, TRUE) ELSE Step(h, "addFont")
    BY <1>8 DEF CheckFace
  <2>2. /\ IsOriginal(c.key, c.asset) /\ c.asset \in Fonts /\ c.seen = None
        /\ session[c.key].state # "finalized"
    BY <1>0, <2>1 DEF OwnUpload, SawDetails
  <2>3. CASE Taken(c.got)
    <3>1. ~Catalogued(c.key)
      BY <1>0, <2>2, NotYet DEF IsOriginal
    <3> QED
      BY <1>1, <2>1, <2>2, <2>3, <3>1, RefuseHolds DEF Refuse
  <2>4. CASE ~Taken(c.got)
    <3> DEFINE x == [c EXCEPT !.at = "addFont"]
    <3>1. /\ call' = [call EXCEPT ![h] = x] /\ x \in Calls
          /\ x.at = "addFont" /\ x.asset = c.asset /\ x.key = c.key /\ x.seen = c.seen
          /\ x.refused = c.refused /\ x.old = c.old /\ x.got = c.got
      BY <1>0, <2>1, <2>4, StepsTo DEF Steps
    <3> HIDE DEF x
    <3>2. Local(x)
      BY <1>0, <2>1, <3>1 DEF Local, OwnUpload, Checked, SawDetails, SawRows, HasPreview, Loaded
    <3> QED
      BY <1>1, <2>1, <3>1, <3>2, QuietMove DEF Follows
  <2> QED
    BY <2>3, <2>4
<1> QED
  BY <1>3, <1>4, <1>6, <1>7, <1>8

\* A finalize starts where the dashboard offers it: nobody works on the session,
\* nor, for an original, on another original of the asset.
LEMMA FinalizeHolds ==
  ASSUME Dashboard, IInv, NEW h \in Handlers, NEW s \in Sessions, Finalize(h, s)
  PROVE  IInv'
<1> USE DEF Working, OfFonts, OfAudios, OfCovers, Verified, Drawn
<1> SUFFICES ASSUME NEW a, a = session[s].asset PROVE IInv'
  OBVIOUS
<1>1. /\ call[h] = Idle /\ a # None /\ session[s].state # "finalized" /\ Alone(s) /\ UNCHANGED db
      /\ Typed /\ SessionsOK
  BY DEF Finalize, db, IInv
<1>2. a \in Assets
  BY <1>1 DEF Typed, LibraryTypeOK
<1> SUFFICES ASSUME NEW step, step = IF session[s].role = "original" /\ a \in Fonts THEN "details" ELSE "verify",
                    NEW x, x = [Idle EXCEPT !.at = step, !.asset = a, !.key = s]
             PROVE  IInv'
  OBVIOUS
<1>3. call' = [call EXCEPT ![h] = x]
  BY <1>1 DEF Finalize, Typed
<1>4. step \in Steps /\ step \in {"details", "verify"}
  BY DEF Steps
<1>5. step = "details" <=> IsOriginal(s, a) /\ a \in Fonts
  BY DEF IsOriginal
<1>6. /\ x \in Calls /\ x.at = step /\ x.asset = a /\ x.key = s /\ x.seen = None /\ ~x.refused
      /\ x.old = {}
  BY <1>2, <1>4, LibraryAssumption DEF Idle, Calls, Keys
<1>7. Local(x)
  BY <1>1, <1>2, <1>4, <1>5, <1>6
    DEF Local, OwnUpload, Checked, SawDetails, SawRows, HasPreview, Loaded
<1>8. ASSUME NEW g \in Handlers \ {h}, NEW d, d = call[g]
      PROVE  Apart(x, d)' /\ Apart(d, x)'
  <2>1. UNCHANGED session /\ Local(d)
    BY <1>1, <1>8 DEF db, IInv
  <2>2. d.at \in Working => d.key \in Sessions /\ session[d.key].asset = d.asset
    BY <2>1 DEF Local, OwnUpload
  <2>3. d.key \in Sessions => /\ d.key # s
                              /\ \/ a # session[d.key].asset
                                 \/ session[s].role = "thumbnail" \/ session[d.key].role = "thumbnail"
    BY <1>1, <1>8 DEF Alone
  <2>4. Apart(x, d)
    BY <1>4, <1>6, <2>2, <2>3 DEF Apart
  <2>5. Apart(d, x)
    BY <1>4, <1>6, <2>2, <2>3 DEF Apart
  <2> QED
    BY <2>1, <2>4, <2>5 DEF Apart
<1>9. Local(x)'
  BY <1>1, <1>7, QuietDb
<1>10. Typed'
  BY <1>1, <1>3, <1>6, TypedMove DEF Typed, LibraryTypeOK, db
<1>11. \A g \in Handlers \ {h} : \A d : d = call[g] => Apart(x, d)' /\ Apart(d, x)'
  BY <1>8
<1> QED
  BY <1>1, <1>3, <1>6, <1>9, <1>10, <1>11, Keeps, QuietDb

\* What a request reads from the rows before it writes them.
LEMMA ReadsHold ==
  ASSUME IInv, NEW h \in Handlers,
         \/ ReadOriginals(h) \/ ReadPreviews(h) \/ ReadCovers(h) \/ DrawFails(h) \/ Cut(h)
         \/ \E a \in Assets : RefreshPreview(h, a) \/ RemoveCover(h, a)
  PROVE  IInv'
<1> USE DEF Working, OfFonts, OfAudios, OfCovers, Verified, Drawn
<1> SUFFICES ASSUME NEW c, c = call[h] PROVE IInv'
  OBVIOUS
<1>0. /\ c \in Calls /\ Typed /\ Sound /\ Local(c) /\ SessionsOK
      /\ OwnUpload(c) /\ Checked(c) /\ SawDetails(c) /\ SawRows(c) /\ HasPreview(c) /\ Loaded(c)
  BY DEF IInv, Typed, Local
<1>1. UNCHANGED db
  BY DEF ReadOriginals, ReadPreviews, ReadCovers, DrawFails, Cut, RefreshPreview, RemoveCover, db
<1>2. None \notin Assets /\ Audios \cap Fonts = {} /\ Assets = Audios \cup Fonts /\ Keys = Sessions \cup Previews
      /\ Sessions \cap Previews = {}
  BY LibraryAssumption DEF Assets, Keys
<1>3. ASSUME NEW f \in files
      PROVE  /\ f.key \in Keys /\ f.asset \in Assets /\ SoundRow(f) /\ Catalogued(f.key)
             /\ f.role \in {"original", "thumbnail", "specimen"}
  BY <1>0 DEF Typed, LibraryTypeOK, Sound, Catalogued
<1>4. \A a, role : KeysOf(a, role) \subseteq Keys /\ \A k \in KeysOf(a, role) : Catalogued(k)
  BY <1>3 DEF KeysOf
<1>5. ASSUME NEW step, NEW role,
             \/ step = "addVersion" /\ role = "original" /\ c.at = "readOriginals"
             \/ step = "swapPreview" /\ role = "specimen" /\ c.at = "readPreviews"
             \/ step = "swapCover" /\ role = "thumbnail" /\ c.at = "readCovers",
             call' = [call EXCEPT ![h] = [c EXCEPT !.at = step, !.old = KeysOf(c.asset, role)]]
      PROVE  IInv'
  <2> DEFINE x == [c EXCEPT !.at = step, !.old = KeysOf(c.asset, role)]
  <2>1. call' = [call EXCEPT ![h] = x]
    BY <1>0, <1>5 DEF Typed
  <2>2. step \in Steps /\ step \in {"addVersion", "swapPreview", "swapCover"}
    BY <1>5 DEF Steps
  <2>3. /\ x \in Calls /\ x.at = step /\ x.asset = c.asset /\ x.key = c.key /\ x.seen = c.seen
        /\ x.got = c.got /\ x.refused = c.refused /\ x.old = KeysOf(c.asset, role)
    BY <1>0, <1>4, <1>5, <2>2 DEF Calls
  <2> HIDE DEF x
  <2>4. SawRows(x)
    <3>1. ASSUME NEW k \in x.old
          PROVE  /\ k \in Sessions =>
                      session[k].state = "finalized" /\ (session[k].role = "thumbnail" \/ session[k].asset \in Fonts)
                 /\ step = "swapCover" => k \in Sessions /\ session[k].role = "thumbnail"
                 /\ step = "swapPreview" => k \in Previews /\ \A f \in files : f.key = k => f.asset = c.asset
      <4>1. PICK f \in files : f.asset = c.asset /\ f.role = role /\ f.key = k
        BY <2>3 DEF KeysOf
      <4>2. \A g \in files : g.key = k => g = f
        BY <1>0, <4>1 DEF Sound
      <4>3. step = "addVersion" => c.asset \in Fonts
        BY <1>0, <1>5 DEF OwnUpload
      <4> QED
        BY <1>2, <1>3, <1>5, <4>1, <4>2, <4>3 DEF SoundRow
    <3> QED
      BY <1>2, <1>5, <2>3, <3>1 DEF SawRows
  <2>5. Local(x)
    BY <1>0, <1>4, <1>5, <2>3, <2>4 DEF Local, OwnUpload, Checked, SawDetails, HasPreview, Loaded
  <2>6. Follows(c, x)
    BY <1>4, <1>5, <2>2, <2>3 DEF Follows
  <2> QED
    BY <1>1, <2>1, <2>3, <2>5, <2>6, QuietMove
<1>6. CASE ReadOriginals(h)
  <2>1. /\ c.at = "readOriginals"
        /\ call' = [call EXCEPT ![h] = [c EXCEPT !.at = "addVersion", !.old = KeysOf(c.asset, "original")]]
    BY <1>0, <1>6 DEF ReadOriginals, Typed
  <2> QED
    BY <1>5, <2>1, Zenon
<1>7. CASE ReadPreviews(h)
  <2>1. /\ c.at = "readPreviews"
        /\ call' = [call EXCEPT ![h] = [c EXCEPT !.at = "swapPreview", !.old = KeysOf(c.asset, "specimen")]]
    BY <1>0, <1>7 DEF ReadPreviews, Typed
  <2> QED
    BY <1>5, <2>1, Zenon
<1>8. CASE ReadCovers(h)
  <2>1. /\ c.at = "readCovers"
        /\ call' = [call EXCEPT ![h] = [c EXCEPT !.at = "swapCover", !.old = KeysOf(c.asset, "thumbnail")]]
    BY <1>0, <1>8 DEF ReadCovers, Typed
  <2> QED
    BY <1>5, <2>1, Zenon
<1>9. CASE DrawFails(h) \/ Cut(h)
  BY <1>1, <1>9, Ends DEF DrawFails, Cut
<1>10. ASSUME NEW a \in Assets, RefreshPreview(h, a) PROVE IInv'
  <2>1. PICK f \in Primaries(a) : call' = [call EXCEPT ![h].at = "draw", ![h].asset = a, ![h].key = f.key]
    BY <1>10 DEF RefreshPreview
  <2>2. c = Idle /\ a \in Fonts /\ f.key \in Keys
    BY <1>3, <1>10, <2>1 DEF RefreshPreview, Primaries
  <2> DEFINE x == [Idle EXCEPT !.at = "draw", !.asset = a, !.key = f.key]
  <2>3. call' = [call EXCEPT ![h] = x]
    BY <1>0, <2>1, <2>2 DEF Typed
  <2>4. /\ x \in Calls /\ x.at = "draw" /\ x.asset = a /\ x.seen = None /\ ~x.refused /\ x.old = {}
    BY <2>2 DEF Idle, Calls, Steps
  <2> HIDE DEF x
  <2>5. Local(x)
    BY <2>2, <2>4 DEF Local, OwnUpload, Checked, SawDetails, SawRows, HasPreview, Loaded
  <2> QED
    BY <1>1, <2>3, <2>4, <2>5, QuietMove DEF Follows
<1>11. ASSUME NEW a \in Assets, RemoveCover(h, a) PROVE IInv'
  <2>1. c = Idle /\ Live(a)
    BY <1>11 DEF RemoveCover
  <2> DEFINE x == [Idle EXCEPT !.at = "removeCover", !.asset = a, !.old = KeysOf(a, "thumbnail")]
  <2>2. call' = [call EXCEPT ![h] = x]
    BY <1>0, <1>11, <2>1 DEF RemoveCover, Typed
  <2>3. /\ x \in Calls /\ x.at = "removeCover" /\ x.asset = a /\ x.seen = None /\ ~x.refused
        /\ x.old = KeysOf(a, "thumbnail")
    BY <1>4 DEF Idle, Calls, Steps, OfAssets
  <2> HIDE DEF x
  <2>4. \A k \in x.old : k \in Sessions /\ session[k].state = "finalized" /\ session[k].role = "thumbnail"
    BY <1>3, <2>3 DEF KeysOf, SoundRow
  <2>5. Local(x)
    BY <2>1, <2>3, <2>4 DEF Live, Local, OwnUpload, Checked, SawDetails, SawRows, HasPreview, Loaded
  <2> QED
    BY <1>1, <1>4, <2>2, <2>3, <2>5, QuietMove DEF Follows
<1> QED
  BY <1>6, <1>7, <1>8, <1>9, <1>10, <1>11

\* A request loads an asset before it writes it.
LEMMA LoadsHold ==
  ASSUME IInv, NEW h \in Handlers, NEW a \in Assets,
         LoadToPublish(h, a) \/ LoadToUnpublish(h, a) \/ LoadToDelete(h, a)
  PROVE  IInv'
<1> USE DEF Working, OfFonts, OfAudios, OfCovers, Verified, Drawn
<1>1. call[h] = Idle /\ Live(a) /\ UNCHANGED db /\ Typed /\ None \notin Assets
  BY LibraryAssumption DEF LoadToPublish, LoadToUnpublish, LoadToDelete, db, IInv, Assets
<1>2. /\ status[a] \in {None, "draft", "ready", "published", "failed"}
      /\ (a \in Fonts => details[a] \in Details \cup {None})
  BY <1>1 DEF Typed, LibraryTypeOK, Details
<1>3. ASSUME NEW step \in {"publish", "unpublish", "delete"}, NEW seen \in Details \cup {None},
             NEW x, x = [Idle EXCEPT !.at = step, !.asset = a, !.seen = seen], call' = [call EXCEPT ![h] = x],
             step = "delete" /\ seen # None => a \in Fonts
      PROVE  IInv'
  <2>1. step \in Steps
    BY DEF Steps, OfAssets
  <2>2. /\ x \in Calls /\ x.at = step /\ x.asset = a /\ x.seen = seen /\ ~x.refused /\ x.old = {}
    BY <1>3, <2>1 DEF Idle, Calls
  <2>3. Local(x)
    BY <1>1, <1>3, <2>2 DEF Live, Local, OwnUpload, Checked, SawDetails, SawRows, HasPreview, Loaded
  <2> QED
    BY <1>1, <1>3, <2>2, <2>3, QuietMove DEF Follows
<1> SUFFICES ASSUME NEW seen, seen = IF a \in Fonts THEN details[a] ELSE None PROVE IInv'
  OBVIOUS
<1>4. seen \in Details \cup {None} /\ (seen # None => a \in Fonts)
  BY <1>2
<1>5. CASE LoadToPublish(h, a)
  <2>1. call' = [call EXCEPT ![h] = [Idle EXCEPT !.at = "publish", !.asset = a, !.seen = seen]]
    BY <1>1, <1>5 DEF LoadToPublish, Typed
  <2> QED
    BY <1>3, <1>4, <2>1
<1>6. CASE LoadToUnpublish(h, a)
  <2>1. call' = [call EXCEPT ![h] = [Idle EXCEPT !.at = "unpublish", !.asset = a, !.seen = None]]
    BY <1>1, <1>6 DEF LoadToUnpublish, Typed, Idle
  <2> QED
    BY <1>3, <2>1
<1>7. CASE LoadToDelete(h, a)
  <2>1. call' = [call EXCEPT ![h] = [Idle EXCEPT !.at = "delete", !.asset = a, !.seen = seen]]
    BY <1>1, <1>7 DEF LoadToDelete, Typed
  <2> QED
    BY <1>3, <1>4, <2>1
<1> QED
  BY <1>5, <1>6, <1>7

-----------------------------------------------------------------------------
(* Steps that write an asset *)

\* A status is written of an asset that is made.
LEMMA StatusMove ==
  ASSUME IInv, NEW h \in Handlers, NEW x \in Calls, call' = [call EXCEPT ![h] = x],
         UNCHANGED <<deleted, details, files, session, stored>>,
         NEW a \in Assets, NEW new \in {"ready", "published", "failed"}, status' = [status EXCEPT ![a] = new],
         status[a] # None,
         Local(x), Follows(call[h], x)
  PROVE  IInv'
<1>1. /\ status' \in AssetStatus
      /\ \A b \in Assets : status'[b] = IF b = a THEN new ELSE status[b]
      /\ \A b \in Assets : status[b] # None => status'[b] # None
      /\ new # None
  BY LibraryAssumption DEF IInv, Typed, LibraryTypeOK
<1>2. Typed'
  BY <1>1, TypedMove DEF IInv, Typed, LibraryTypeOK
<1>3. Sound'
  BY DEF IInv, Sound, SoundRow, Fits
<1>4. SessionsOK'
  BY <1>1 DEF IInv, SessionsOK, IsOriginal, Typed, LibraryTypeOK
<1>5. ASSUME NEW b \in Assets PROVE HasDetails(b)'
  BY DetailsStay DEF Finished
<1>6. Grows
  BY <1>1 DEF Grows
<1>7. ASSUME NEW g \in Handlers PROVE Spares(call[g])
  BY DEF Spares
<1>8. Spares(x)
  BY DEF Spares
<1>9. Local(x)'
  BY <1>6, <1>8, LocalSpared DEF IInv
<1>10. \A g \in Handlers \ {h} : \A d : d = call[g] => Apart(x, d)' /\ Apart(d, x)'
  BY <1>6, FollowsApart
<1> QED
  BY <1>2, <1>3, <1>4, <1>5, <1>6, <1>7, <1>9, <1>10, Keeps

LEMMA StatusHolds ==
  ASSUME IInv, NEW h \in Handlers, MarkFailed(h) \/ MakeReady(h) \/ Publish(h) \/ Unpublish(h)
  PROVE  IInv'
<1> USE DEF Working, OfFonts, OfAudios, OfCovers, Verified, Drawn
<1> SUFFICES ASSUME NEW c, c = call[h] PROVE IInv'
  OBVIOUS
<1>0. /\ c \in Calls /\ Typed /\ Local(c) /\ SessionsOK
      /\ OwnUpload(c) /\ Checked(c) /\ SawDetails(c) /\ SawRows(c) /\ HasPreview(c) /\ Loaded(c)
  BY DEF IInv, Typed, Local
<1>1. UNCHANGED <<deleted, details, files, session, stored>>
  BY DEF MarkFailed, MakeReady, Publish, Unpublish
<1>2. None \notin Assets /\ Audios \cap Fonts = {} /\ Assets = Audios \cup Fonts
  BY LibraryAssumption DEF Assets
<1>3. CASE MarkFailed(h)
  <2>1. c.at = "markFailed" /\ status' = [status EXCEPT ![c.asset] = "failed"]
    BY <1>3 DEF MarkFailed, SetStatus
  <2>2. c.asset \in Assets /\ status[c.asset] # None /\ c.key \in Sessions
    BY <1>0, <1>2, <2>1 DEF OwnUpload, SessionsOK
  <2>3. CASE c.refused
    <3> DEFINE x == [c EXCEPT !.at = "drop"]
    <3>1. /\ call' = [call EXCEPT ![h] = x] /\ x \in Calls
          /\ x.at = "drop" /\ x.asset = c.asset /\ x.key = c.key /\ x.seen = c.seen
          /\ x.refused = c.refused /\ x.old = c.old
      <4>1. "drop" \in Steps /\ Step(h, "drop")
        BY <1>3, <2>3 DEF MarkFailed, Steps
      <4> QED
        BY <1>0, <4>1, StepsTo
    <3> HIDE DEF x
    <3>2. Local(x)
      BY <1>0, <2>1, <2>3, <3>1 DEF Local, OwnUpload, Checked, SawDetails, SawRows, HasPreview, Loaded
    <3>3. Follows(c, x)
      BY <2>1, <3>1 DEF Follows
    <3> QED
      BY <1>1, <2>1, <2>2, <3>1, <3>2, <3>3, StatusMove
  <2>4. CASE ~c.refused
    <3>1. call' = [call EXCEPT ![h] = Idle]
      BY <1>3, <2>4 DEF MarkFailed, End
    <3> QED
      BY <1>1, <2>1, <2>2, <3>1, IdleIsLocal, StatusMove
  <2> QED
    BY <2>3, <2>4
<1>4. CASE MakeReady(h)
  <2>1. /\ c.at = "ready" /\ status' = [status EXCEPT ![c.asset] = "ready"]
        /\ call' = [call EXCEPT ![h] = Idle]
    BY <1>4 DEF MakeReady, SetStatus, End
  <2>2. /\ c.asset \in Assets /\ status[c.asset] # None /\ c.asset \in Audios
        /\ IsOriginal(c.key, c.asset) /\ session[c.key].state = "finalized"
    BY <1>0, <1>2, <2>1 DEF OwnUpload, SessionsOK
  <2> QED
    BY <1>1, <2>1, <2>2, IdleIsLocal, StatusMove
<1>5. CASE Unpublish(h)
  <2>1. /\ c.at = "unpublish" /\ status' = [status EXCEPT ![c.asset] = "ready"]
        /\ call' = [call EXCEPT ![h] = Idle]
    BY <1>5 DEF Unpublish, SetStatus, End
  <2> QED
    BY <1>0, <1>1, <2>1, IdleIsLocal, StatusMove DEF Loaded
<1>6. CASE Publish(h)
  <2>1. c.at = "publish" /\ call' = [call EXCEPT ![h] = Idle]
    BY <1>6 DEF Publish, End
  <2>2. CASE status' = [status EXCEPT ![c.asset] = "published"]
    BY <1>0, <1>1, <2>1, <2>2, IdleIsLocal, StatusMove DEF Loaded
  <2>3. CASE UNCHANGED status
    BY <1>1, <2>1, <2>3, Ends DEF End, db
  <2> QED
    BY <1>6, <2>2, <2>3 DEF Publish, SetStatus
<1> QED
  BY <1>3, <1>4, <1>5, <1>6

\* A font keeps its details until it is deleted, and then gives up its face.
LEMMA DeleteHolds ==
  ASSUME IInv, NEW h \in Handlers, SoftDelete(h) \/ FreeFace(h)
  PROVE  IInv'
<1> USE DEF Working, OfFonts, OfAudios, OfCovers, Verified, Drawn
<1> SUFFICES ASSUME NEW c, c = call[h] PROVE IInv'
  OBVIOUS
<1>0. /\ c \in Calls /\ Typed /\ SessionsOK
      /\ OwnUpload(c) /\ Checked(c) /\ SawDetails(c) /\ SawRows(c) /\ HasPreview(c) /\ Loaded(c)
  BY DEF IInv, Typed, Local
<1>1. UNCHANGED <<status, files, session, stored>>
  BY DEF SoftDelete, FreeFace
<1>2. None \notin Assets /\ Audios \cap Fonts = {} /\ Assets = Audios \cup Fonts
  BY LibraryAssumption DEF Assets
<1>3. Sound' /\ SessionsOK'
  BY <1>1 DEF IInv, Sound, SoundRow, Fits, SessionsOK, IsOriginal
<1>5. ASSUME deleted' = deleted \cup {c.asset}, UNCHANGED details, c.asset \in Assets, status[c.asset] # None,
             NEW x \in Calls, call' = [call EXCEPT ![h] = x], Follows(c, x), Local(x)'
      PROVE  IInv'
  <2>1. Typed'
    BY <1>0, <1>1, <1>5, TypedMove DEF Typed, LibraryTypeOK
  <2>2. ASSUME NEW b \in Assets PROVE HasDetails(b)'
    BY <1>1, <1>5, DetailsStay DEF Finished
  <2>3. Grows
    BY <1>1, <1>5 DEF Grows
  <2>4. \A g \in Handlers : Spares(call[g])
    BY <1>1, <1>5 DEF Spares
  <2>5. \A g \in Handlers \ {h} : \A d : d = call[g] => Apart(x, d)' /\ Apart(d, x)'
    BY <1>5, <2>3, FollowsApart
  <2> QED
    BY <1>3, <1>5, <2>1, <2>2, <2>3, <2>4, <2>5, Keeps
<1>6. CASE SoftDelete(h)
  <2>1. /\ c.at = "delete" /\ deleted' = deleted \cup {c.asset} /\ UNCHANGED details
        /\ c.asset \in Assets /\ status[c.asset] # None
    BY <1>0, <1>6 DEF SoftDelete, Loaded
  <2>2. CASE c.seen # None
    <3> DEFINE x == [c EXCEPT !.at = "freeFace"]
    <3>1. "freeFace" \in Steps /\ Step(h, "freeFace")
      BY <1>6, <2>2 DEF SoftDelete, Steps, OfAssets
    <3>2. /\ call' = [call EXCEPT ![h] = x] /\ x \in Calls
          /\ x.at = "freeFace" /\ x.asset = c.asset /\ x.key = c.key /\ x.seen = c.seen
          /\ x.refused = c.refused /\ x.old = c.old
      BY <1>0, <3>1, StepsTo
    <3> HIDE DEF x
    <3> SUFFICES ASSUME NEW y, y = x PROVE IInv'
      OBVIOUS
    <3>3. c.asset \in Fonts /\ c.asset \in deleted'
      BY <1>0, <2>1, <2>2 DEF SawDetails
    <3>4. OwnUpload(y)' /\ Checked(y)' /\ SawDetails(y)' /\ HasPreview(y)' /\ Loaded(y)'
      BY <1>0, <2>1, <3>2, <3>3 DEF OwnUpload, Checked, SawDetails, HasPreview, Loaded
    <3>5. SawRows(y)'
      BY <1>0, <1>1, <2>1, <3>2 DEF SawRows
    <3>6. Follows(c, y)
      BY <3>2 DEF Follows
    <3> QED
      BY <1>5, <2>1, <3>2, <3>4, <3>5, <3>6 DEF Local
  <2>3. CASE c.seen = None
    <3>1. call' = [call EXCEPT ![h] = Idle]
      BY <1>6, <2>3 DEF SoftDelete, End
    <3>2. Local(Idle)'
      BY IdleIsLocal DEF Idle, Local, OwnUpload, Checked, SawDetails, SawRows, HasPreview, Loaded
    <3> QED
      BY <1>5, <2>1, <3>1, <3>2, IdleIsLocal
  <2> QED
    BY <2>2, <2>3
<1>7. CASE FreeFace(h)
  <2>1. /\ c.at = "freeFace" /\ details' = [details EXCEPT ![c.asset] = None]
        /\ call' = [call EXCEPT ![h] = Idle] /\ UNCHANGED deleted
        /\ c.asset \in Fonts /\ c.asset \in deleted
    BY <1>0, <1>7 DEF FreeFace, End, SawDetails
  <2>2. /\ details' \in FontDetails
        /\ \A f \in Fonts : f \notin deleted => details'[f] = details[f]
    BY <1>0, <2>1 DEF Typed, LibraryTypeOK
  <2>3. Typed'
    BY <1>0, <1>1, <2>1, <2>2, IdleIsLocal, TypedMove DEF Typed, LibraryTypeOK
  <2>4. ASSUME NEW b \in Assets PROVE HasDetails(b)'
    BY <1>1, <2>1, <2>2, DetailsStay DEF Finished
  <2>5. Grows
    BY <1>1, <2>1, <2>2 DEF Grows
  <2>6. \A g \in Handlers : Spares(call[g])
    BY <1>1, <2>1, <2>2 DEF Spares
  <2>7. \A g \in Handlers \ {h} : \A d : d = call[g] => Apart(Idle, d)' /\ Apart(d, Idle)'
    BY <2>5, IdleIsLocal, FollowsApart
  <2>8. Local(Idle)'
    BY IdleIsLocal DEF Idle, Local, OwnUpload, Checked, SawDetails, SawRows, HasPreview, Loaded
  <2> QED
    BY <1>3, <2>1, <2>3, <2>4, <2>5, <2>6, <2>7, <2>8, IdleIsLocal, Keeps
<1> QED
  BY <1>6, <1>7

-----------------------------------------------------------------------------
(* Steps that write an object of the bucket *)

\* An object may come or go where no row and no other request has it.
LEMMA ObjectsMove ==
  ASSUME IInv, UNCHANGED <<status, deleted, details, files, session>>,
         stored' \in [Keys -> Contents \cup {None}],
         \A f \in files : stored'[f.key] = stored[f.key],
         \A s \in Sessions : session[s].asset = None => stored'[s] = None
  PROVE  /\ Sound' /\ SessionsOK' /\ \A a \in Assets : HasDetails(a)'
         /\ Grows
         /\ \A d : (d.at \in Verified => stored'[d.key] = stored[d.key])
                    /\ (d.at \in Drawn => stored'[d.got] = stored[d.got]) => Spares(d)
<1>1. Sound'
  BY DEF IInv, Sound, SoundRow, Fits
<1>2. SessionsOK'
  BY DEF IInv, SessionsOK, IsOriginal
<1>3. ASSUME NEW a \in Assets PROVE HasDetails(a)'
  BY DetailsStay DEF Finished
<1>4. Grows
  BY DEF Grows
<1>5. ASSUME NEW d, d.at \in Verified => stored'[d.key] = stored[d.key],
             d.at \in Drawn => stored'[d.got] = stored[d.got]
      PROVE  Spares(d)
  BY <1>5 DEF Spares
<1> QED
  BY <1>1, <1>2, <1>3, <1>4, <1>5

\* No request moves.
LEMMA NoneMoves ==
  ASSUME IInv, UNCHANGED call, LibraryTypeOK', Sound', SessionsOK', \A a \in Assets : HasDetails(a)',
         Grows, \A g \in Handlers : Spares(call[g])
  PROVE  IInv'
<1>1. ASSUME NEW g \in Handlers, NEW d, d = call[g] PROVE Local(d)'
  BY <1>1, LocalSpared DEF IInv, Typed
<1>2. \A g \in Handlers : Local(call[g])'
  BY <1>1 DEF Local, OwnUpload, Checked, SawDetails, SawRows, HasPreview, Loaded
<1>3. ASSUME NEW g \in Handlers, NEW f \in Handlers, g # f, NEW c, c = call[f], NEW d, d = call[g]
      PROVE  Apart(c, d)'
  BY <1>3, ApartStays DEF IInv
<1>4. \A g, f \in Handlers : f # g => Apart(call[f], call[g])'
  BY <1>3 DEF Apart
<1> QED
  BY <1>2, <1>4 DEF IInv, Typed

LEMMA UploadHolds ==
  ASSUME IInv, NEW s \in Sessions, NEW content \in Contents, Upload(s, content)
  PROVE  IInv'
<1>1. /\ UNCHANGED <<status, deleted, details, files, session, call>>
      /\ session[s].asset # None /\ stored[s] = None /\ stored' = [stored EXCEPT ![s] = content]
      /\ Typed /\ Sound /\ SessionsOK
  BY DEF Upload, Store, IInv
<1>2. /\ stored' \in [Keys -> Contents \cup {None}]
      /\ \A k \in Keys : stored[k] # None => stored'[k] = stored[k]
      /\ \A k \in Sessions : k # s => stored'[k] = stored[k]
  BY <1>1 DEF Typed, LibraryTypeOK, Keys
<1>3. \A f \in files : stored'[f.key] = stored[f.key]
  BY <1>1, <1>2 DEF Sound, SoundRow, Typed, LibraryTypeOK
<1>4. \A t \in Sessions : session[t].asset = None => stored'[t] = None
  BY <1>1, <1>2 DEF SessionsOK
<1>5. ASSUME NEW g \in Handlers, NEW d, d = call[g] PROVE Spares(d)
  <2>1. OwnUpload(d) /\ Checked(d) /\ HasPreview(d)
    BY <1>5 DEF IInv, Local
  <2>2. d.at \in Verified => d.key \in Keys /\ stored[d.key] # None
    BY <2>1 DEF OwnUpload, Checked, Verified, Working, OfFonts, OfAudios, OfCovers, Keys
  <2>3. d.at \in Drawn => d.got \in Keys /\ stored[d.got] # None
    BY <2>1 DEF HasPreview, Keys
  <2> QED
    BY <1>1, <1>2, <1>3, <1>4, <2>2, <2>3, ObjectsMove
<1>6. LibraryTypeOK'
  BY <1>1, <1>2 DEF Typed, LibraryTypeOK
<1> QED
  BY <1>1, <1>2, <1>3, <1>4, <1>5, <1>6, ObjectsMove, NoneMoves

LEMMA RemovalHolds ==
  ASSUME IInv, NEW h \in Handlers, Drop(h) \/ DeleteOld(h)
  PROVE  IInv'
<1> USE DEF Working, OfFonts, OfAudios, OfCovers, Verified, Drawn
<1> SUFFICES ASSUME NEW c, c = call[h] PROVE IInv'
  OBVIOUS
<1>0. /\ c \in Calls /\ Typed /\ Sound /\ SessionsOK
      /\ OwnUpload(c) /\ Checked(c) /\ SawRows(c)
  BY DEF IInv, Typed, Local
<1>1. UNCHANGED <<status, deleted, details, files, session>> /\ call' = [call EXCEPT ![h] = Idle]
  BY DEF Drop, DeleteOld, End
<1>2. Sessions \cap Previews = {} /\ Keys = Sessions \cup Previews
  BY LibraryAssumption DEF Keys
<1>3. ASSUME NEW gone \in SUBSET Keys, stored' = [k \in Keys |-> IF k \in gone THEN None ELSE stored[k]],
             \A k \in gone : ~Catalogued(k),
             \A g \in Handlers \ {h} : \A d : d = call[g] =>
               (d.at \in Verified => d.key \notin gone) /\ (d.at \in Drawn => d.got \notin gone)
      PROVE  IInv'
  <2>1. stored' \in [Keys -> Contents \cup {None}] /\ (\A k \in Keys \ gone : stored'[k] = stored[k])
        /\ (\A k \in gone : stored'[k] = None)
    BY <1>0, <1>3 DEF Typed, LibraryTypeOK
  <2>2. \A f \in files : stored'[f.key] = stored[f.key]
    BY <1>0, <1>3, <2>1 DEF Catalogued, Typed, LibraryTypeOK
  <2>3. \A t \in Sessions : session[t].asset = None => stored'[t] = None
    BY <1>0, <1>2, <2>1 DEF SessionsOK
  <2>4. ASSUME NEW g \in Handlers \ {h}, NEW d, d = call[g] PROVE Spares(d)
    <3>1. OwnUpload(d) /\ HasPreview(d)
      BY <2>4 DEF IInv, Local
    <3>2. (d.at \in Verified => d.key \in Keys) /\ (d.at \in Drawn => d.got \in Keys)
      BY <1>2, <3>1 DEF OwnUpload, HasPreview
    <3> QED
      BY <1>1, <1>3, <2>1, <2>2, <2>3, <2>4, <3>2, ObjectsMove
  <2>5. Grows /\ Sound' /\ SessionsOK' /\ \A a \in Assets : HasDetails(a)'
    BY <1>1, <2>1, <2>2, <2>3, ObjectsMove
  <2>6. Typed'
    BY <1>0, <1>1, <2>1, IdleIsLocal, TypedMove DEF Typed, LibraryTypeOK
  <2>7. \A g \in Handlers \ {h} : \A d : d = call[g] => Apart(Idle, d)' /\ Apart(d, Idle)'
    BY <2>5, IdleIsLocal, FollowsApart
  <2>8. Local(Idle)'
    BY IdleIsLocal DEF Idle, Local, OwnUpload, Checked, SawDetails, SawRows, HasPreview, Loaded
  <2> QED
    BY <1>1, <2>4, <2>5, <2>6, <2>7, <2>8, IdleIsLocal, Keeps
<1>4. ASSUME NEW g \in Handlers \ {h}, NEW d, d = call[g]
      PROVE  Apart(c, d) /\ Apart(d, c) /\ OwnUpload(d) /\ HasPreview(d)
  BY <1>4 DEF IInv, Local
<1>5. CASE Drop(h)
  <2>1. c.at = "drop" /\ c.key \in Sessions /\ stored' = [stored EXCEPT ![c.key] = None] /\ ~Catalogued(c.key)
    BY <1>0, <1>5 DEF Drop, Store, OwnUpload, Checked
  <2>2. stored' = [k \in Keys |-> IF k \in {c.key} THEN None ELSE stored[k]]
    BY <1>0, <2>1 DEF Typed, LibraryTypeOK
  <2>3. ASSUME NEW g \in Handlers \ {h}, NEW d, d = call[g]
        PROVE  (d.at \in Verified => d.key \notin {c.key}) /\ (d.at \in Drawn => d.got \notin {c.key})
    BY <1>2, <1>4, <2>1, <2>3 DEF Apart, HasPreview
  <2>4. {c.key} \in SUBSET Keys /\ \A k \in {c.key} : ~Catalogued(k)
    BY <1>2, <2>1
  <2> QED
    BY <1>3, <2>2, <2>3, <2>4
<1>6. CASE DeleteOld(h)
  <2>1. /\ c.at = "deleteOld" /\ stored' = [k \in Keys |-> IF k \in c.old THEN None ELSE stored[k]]
        /\ c.old \in SUBSET Keys
    BY <1>0, <1>6 DEF DeleteOld, Calls
  <2>2. \A k \in c.old : ~Catalogued(k)
    BY <1>0, <2>1 DEF SawRows
  <2>3. ASSUME NEW g \in Handlers \ {h}, NEW d, d = call[g]
        PROVE  (d.at \in Verified => d.key \notin c.old) /\ (d.at \in Drawn => d.got \notin c.old)
    <3>1. \A k \in c.old \cap Sessions : session[k].state = "finalized"
      BY <1>0 DEF SawRows
    <3> QED
      BY <1>4, <2>3, <3>1 DEF Apart, OwnUpload
  <2> QED
    BY <1>3, <2>1, <2>2, <2>3
<1> QED
  BY <1>5, <1>6

\* A preview gets a key that no row and no request knows.
LEMMA DrawHolds ==
  ASSUME IInv, NEW h \in Handlers, Draw(h)
  PROVE  IInv'
<1> USE DEF Working, OfFonts, OfAudios, OfCovers, Verified, Drawn
<1> SUFFICES ASSUME NEW c, c = call[h] PROVE IInv'
  OBVIOUS
<1>0. /\ c \in Calls /\ Typed /\ Sound /\ SessionsOK
      /\ OwnUpload(c) /\ Checked(c) /\ SawDetails(c) /\ SawRows(c) /\ HasPreview(c) /\ Loaded(c)
  BY DEF IInv, Typed, Local
<1>1. UNCHANGED <<status, deleted, details, files, session>> /\ c.at = "draw" /\ c.asset \in Fonts
  BY <1>0 DEF Draw, HasPreview
<1>2. Sessions \cap Previews = {} /\ Keys = Sessions \cup Previews /\ "image" \in Contents /\ "image" # None
  BY LibraryAssumption DEF Keys, Contents
<1>3. PICK p \in Previews : /\ Fresh(p) /\ stored' = [stored EXCEPT ![p] = "image"]
                            /\ call' = [call EXCEPT ![h].at = "readPreviews", ![h].got = p]
  <2>1. PICK q \in Previews : q = CHOOSE r \in Previews : Fresh(r)
    BY DEF Draw
  <2>2. Fresh(q)
    BY <2>1 DEF Draw
  <2> QED
    BY <2>1, <2>2 DEF Draw, Store
<1>4. stored[p] = None /\ ~Catalogued(p) /\ \A g \in Handlers : p # call[g].got /\ p \notin call[g].old
  BY <1>3 DEF Fresh
<1>5. /\ stored' \in [Keys -> Contents \cup {None}]
      /\ stored'[p] = "image" /\ \A k \in Keys : k # p => stored'[k] = stored[k]
  BY <1>0, <1>2, <1>3 DEF Typed, LibraryTypeOK
<1>6. \A f \in files : stored'[f.key] = stored[f.key]
  BY <1>0, <1>4, <1>5 DEF Catalogued, Typed, LibraryTypeOK
<1>7. \A t \in Sessions : session[t].asset = None => stored'[t] = None
  BY <1>0, <1>2, <1>5 DEF SessionsOK
<1>8. ASSUME NEW g \in Handlers, NEW d, d = call[g] PROVE Spares(d)
  <2>1. OwnUpload(d) /\ Checked(d) /\ HasPreview(d)
    BY <1>8 DEF IInv, Local
  <2>2. d.at \in Verified => d.key \in Keys /\ d.key # p
    BY <1>2, <2>1 DEF OwnUpload
  <2>3. d.at \in Drawn => d.got \in Keys /\ d.got # p
    BY <1>2, <1>4, <1>8, <2>1 DEF HasPreview
  <2> QED
    BY <1>1, <1>5, <1>6, <1>7, <2>2, <2>3, ObjectsMove
<1>9. Grows /\ Sound' /\ SessionsOK' /\ \A a \in Assets : HasDetails(a)'
  BY <1>1, <1>5, <1>6, <1>7, ObjectsMove
<1> DEFINE y == [c EXCEPT !.at = "readPreviews", !.got = p]
<1>10. call' = [call EXCEPT ![h] = y]
  BY <1>0, <1>3 DEF Typed
<1>11. /\ y \in Calls /\ y.at = "readPreviews" /\ y.asset = c.asset /\ y.seen = c.seen /\ y.got = p
       /\ y.refused = c.refused /\ y.old = c.old
  BY <1>0 DEF Calls, Steps
<1> HIDE DEF y
<1> SUFFICES ASSUME NEW x, x = y PROVE IInv'
  OBVIOUS
<1>12. Local(x)'
  <2>1. OwnUpload(x)' /\ Checked(x)' /\ SawDetails(x)' /\ Loaded(x)'
    BY <1>0, <1>1, <1>11 DEF OwnUpload, Checked, SawDetails, Loaded
  <2>2. SawRows(x)'
    BY <1>0, <1>1, <1>11 DEF SawRows
  <2>3. ~Catalogued(p)'
    BY <1>1, <1>4 DEF Catalogued
  <2>4. HasPreview(x)'
    BY <1>1, <1>2, <1>4, <1>5, <1>11, <2>3 DEF HasPreview, Catalogued
  <2> QED
    BY <2>1, <2>2, <2>4 DEF Local
<1>13. ASSUME NEW g \in Handlers \ {h}, NEW d, d = call[g] PROVE Apart(x, d)' /\ Apart(d, x)'
  <2>1. Apart(d, c)
    BY <1>13 DEF IInv
  <2>2. Apart(x, d)'
    BY <1>4, <1>11, <1>13 DEF Apart
  <2>3. Apart(d, x)'
    BY <1>4, <1>11, <1>13, <2>1 DEF Apart
  <2> QED
    BY <2>2, <2>3
<1>14. Typed'
  BY <1>0, <1>1, <1>5, <1>10, <1>11, TypedMove DEF Typed, LibraryTypeOK
<1>15. \A g \in Handlers \ {h} : \A d : d = call[g] => Apart(x, d)' /\ Apart(d, x)'
  BY <1>13
<1> QED
  BY <1>8, <1>9, <1>10, <1>11, <1>12, <1>14, <1>15, Keeps

-----------------------------------------------------------------------------
(* Steps that write a session *)

\* What a step keeps when it changes no row, no object and no details, opens
\* sessions nobody knew, makes assets nobody knew, and closes what has its row.
LEMMA OpenHolds ==
  ASSUME IInv, NEW s \in Sessions, NEW a \in Assets, NEW role \in {"original", "thumbnail"},
         UNCHANGED <<deleted, details, files, stored, call>>,
         status' = status \/ (status[a] = None /\ status' = [status EXCEPT ![a] = "draft"]),
         status'[a] # None, Open(s, a, role),
         a \in Audios /\ role = "original" => status[a] = None
  PROVE  IInv'
<1> USE DEF Working, OfFonts, OfAudios, OfCovers, Verified, Drawn
<1>1. Typed /\ Sound /\ SessionsOK /\ session[s].asset = None /\ session[s].role = None
      /\ session[s].state = "pending" /\ stored[s] = None
  BY DEF IInv, Open, SessionsOK
<1>2. None \notin Assets /\ Assets = Audios \cup Fonts /\ Sessions \subseteq Keys
      /\ Audios \cap Fonts = {} /\ None \notin {"draft", "ready", "published", "failed", "original", "thumbnail"}
  BY LibraryAssumption DEF Assets, Keys
<1>3. /\ session' \in SessionRows
      /\ session'[s] = [asset |-> a, role |-> role, state |-> "pending"]
      /\ \A t \in Sessions : t # s => session'[t] = session[t]
  BY ZenonT(40), <1>1 DEF Open, Typed, LibraryTypeOK
<1>4. /\ status' \in AssetStatus
      /\ \A b \in Assets : status[b] # None => status'[b] = status[b]
      /\ \A b \in Assets : status[b] = None => status'[b] \in {None, "draft"}
  BY <1>1 DEF Typed, LibraryTypeOK
<1>5. LibraryTypeOK'
  BY <1>1, <1>3, <1>4 DEF Typed, LibraryTypeOK
<1>6. ASSUME NEW f \in files PROVE SoundRow(f)'
  <2>1. SoundRow(f)
    BY <1>1 DEF Sound
  <2>2. f.key # s
    BY <1>1, <2>1 DEF SoundRow
  <2>3. f.role # "specimen" => f.key \in Sessions /\ session'[f.key] = session[f.key]
    BY <1>3, <2>1, <2>2 DEF SoundRow
  <2> QED
    BY <2>1, <2>3 DEF SoundRow, Fits
<1>7. Sound'
  BY <1>1, <1>6 DEF Sound
<1>8. \A b \in Assets : status[b] = None => \A t \in Sessions : session[t].asset # b
  BY <1>1, <1>2 DEF SessionsOK
<1>9. SessionsOK'
  <2>1. ASSUME NEW t \in Sessions
        PROVE  /\ session'[t].asset = None <=> session'[t].role = None
               /\ session'[t].asset = None => session'[t].state = "pending" /\ stored'[t] = None
               /\ session'[t].asset # None => status'[session'[t].asset] # None
    <3>1. CASE t = s
      BY <1>2, <1>3, <3>1
    <3>2. CASE t # s
      <4>1. /\ session'[t] = session[t]
            /\ session[t].asset \in Assets \cup {None}
        BY <1>1, <1>3, <3>2 DEF Typed, LibraryTypeOK
      <4> QED
        BY <1>1, <1>2, <1>4, <4>1 DEF SessionsOK
    <3> QED
      BY <3>1, <3>2
  <2>2. ASSUME NEW t \in Sessions, NEW u \in Sessions, NEW b \in Audios, IsOriginal(t, b)', IsOriginal(u, b)'
        PROVE  t = u
    BY <1>1, <1>2, <1>3, <1>8, <2>2 DEF SessionsOK, IsOriginal
  <2> QED
    BY <2>1, <2>2 DEF SessionsOK
<1>10. ASSUME NEW b \in Assets PROVE HasDetails(b)'
  <2>1. Finished(b)' => Finished(b)
    BY <1>3 DEF Finished
  <2> QED
    BY <2>1, DetailsStay
<1>11. Grows
  <2>1. \A t \in Sessions : session[t].asset # None => session'[t] = session[t]
    BY <1>1, <1>3
  <2> QED
    BY <1>4, <2>1 DEF Grows
<1>12. ASSUME NEW g \in Handlers, NEW d, d = call[g] PROVE Spares(d)
  <2>1. OwnUpload(d)
    BY <1>12 DEF IInv, Local
  <2>2. d.at \in Working => session'[d.key].state = session[d.key].state
    BY <1>1, <1>2, <1>3, <2>1 DEF OwnUpload
  <2> QED
    BY <2>2 DEF Spares
<1> QED
  BY <1>5, <1>7, <1>9, <1>10, <1>11, <1>12, NoneMoves

LEMMA TicketsHold ==
  ASSUME IInv, NEW s \in Sessions, NEW a \in Assets,
         CreateTicket(s, a) \/ CreateVersionTicket(s, a) \/ CreateCoverTicket(s, a)
  PROVE  IInv'
<1>1. CASE CreateTicket(s, a)
  <2>1. status' = [status EXCEPT ![a] = "draft"] /\ status[a] = None
    BY <1>1 DEF CreateTicket, SetStatus, Unmade
  <2>2. status'[a] # None
    BY <2>1, LibraryAssumption DEF IInv, Typed, LibraryTypeOK
  <2> QED
    BY <1>1, <2>1, <2>2, OpenHolds DEF CreateTicket
<1>2. CASE CreateVersionTicket(s, a)
  <2>1. a \notin Audios
    BY <1>2, LibraryAssumption DEF CreateVersionTicket
  <2> QED
    BY <1>2, <2>1, OpenHolds DEF CreateVersionTicket, Live
<1>3. CASE CreateCoverTicket(s, a)
  BY <1>3, OpenHolds DEF CreateCoverTicket, Live
<1> QED
  BY <1>1, <1>2, <1>3

\* The upload a finalize closes is nobody else's.
LEMMA SessionsMove ==
  ASSUME IInv, NEW h \in Handlers, NEW c, c = call[h], UNCHANGED stored,
         \A a \in Assets : status[a] # None => status'[a] # None,
         session' = session \/ (c.at \in Working \ {"ready"} /\ Finalized(c.key))
  PROVE  /\ session' \in SessionRows
         /\ SessionsOK'
         /\ \A s \in Sessions : /\ session'[s].asset = session[s].asset /\ session'[s].role = session[s].role
                                /\ session[s].state = "finalized" => session'[s].state = "finalized"
         /\ \A g \in Handlers \ {h} : \A d : d = call[g] /\ d.at \in Working =>
              d.key \in Sessions /\ session'[d.key] = session[d.key]
<1> USE DEF Working, OfFonts, OfAudios, OfCovers, Verified, Drawn
<1>1. Typed /\ SessionsOK /\ OwnUpload(c) /\ None \notin Assets
  BY LibraryAssumption DEF IInv, Local, Assets
<1>2. ASSUME NEW g \in Handlers \ {h}, NEW d, d = call[g], d.at \in Working
      PROVE  d.key \in Sessions /\ (c.at \in Working => d.key # c.key)
  BY <1>2 DEF IInv, Local, OwnUpload, Apart
<1>3. /\ session' \in SessionRows
      /\ \A s \in Sessions : /\ session'[s].asset = session[s].asset /\ session'[s].role = session[s].role
                             /\ session[s].state = "finalized" => session'[s].state = "finalized"
                             /\ (c.at \in Working => s # c.key) => session'[s] = session[s]
                             /\ session[s].asset = None => session'[s] = session[s]
  <2>1. CASE session' = session
    BY <1>1, <2>1 DEF Typed, LibraryTypeOK
  <2>2. CASE c.at \in Working \ {"ready"} /\ Finalized(c.key)
    <3>1. c.key \in Sessions /\ session[c.key].asset # None
      BY <1>1, <2>2 DEF OwnUpload
    <3> QED
      BY <1>1, <2>2, <3>1 DEF Finalized, Typed, LibraryTypeOK
  <2> QED
    BY <2>1, <2>2
<1>4. SessionsOK'
  <2>1. ASSUME NEW t \in Sessions
        PROVE  /\ session'[t].asset = None <=> session'[t].role = None
               /\ session'[t].asset = None => session'[t].state = "pending" /\ stored'[t] = None
               /\ session'[t].asset # None => status'[session'[t].asset] # None
    <3>1. session[t].asset \in Assets \cup {None}
      BY <1>1 DEF Typed, LibraryTypeOK
    <3> QED
      BY <1>1, <1>3, <3>1 DEF SessionsOK
  <2>2. ASSUME NEW t \in Sessions, NEW u \in Sessions, NEW b \in Audios, IsOriginal(t, b)', IsOriginal(u, b)'
        PROVE  t = u
    BY <1>1, <1>3, <2>2 DEF SessionsOK, IsOriginal
  <2> QED
    BY <2>1, <2>2 DEF SessionsOK
<1> QED
  BY <1>2, <1>3, <1>4

\* The other requests stay as they are when h writes its own rows.
LEMMA RowsMove ==
  ASSUME IInv, NEW h \in Handlers, NEW c, c = call[h], UNCHANGED <<deleted, stored>>,
         \A a \in Assets : status[a] # None => status'[a] # None,
         session' = session \/ (c.at \in Working \ {"ready"} /\ Finalized(c.key)),
         \A f \in files' : \/ \E g \in files : g.key = f.key /\ g.asset = f.asset
                           \/ c.at \in Working \ {"ready"} /\ f.key = c.key
                           \/ c.at = "swapPreview" /\ f.key = c.got,
         \A a \in Fonts : \/ details'[a] = details[a]
                          \/ a = c.asset /\ c.at \in Working /\ IsOriginal(c.key, c.asset)
  PROVE  Grows /\ \A g \in Handlers \ {h} : Spares(call[g])
<1> USE DEF Working, OfFonts, OfAudios, OfCovers, Verified, Drawn
<1>1. /\ \A s \in Sessions : /\ session'[s].asset = session[s].asset /\ session'[s].role = session[s].role
                             /\ session[s].state = "finalized" => session'[s].state = "finalized"
      /\ \A g \in Handlers \ {h} : \A d : d = call[g] /\ d.at \in Working =>
           d.key \in Sessions /\ session'[d.key] = session[d.key]
  BY SessionsMove
<1>2. Grows
  BY <1>1 DEF Grows
<1>3. ASSUME NEW g \in Handlers \ {h}, NEW d, d = call[g] PROVE Spares(d)
  <2>1. /\ Apart(c, d) /\ Apart(d, c) /\ OwnUpload(d) /\ SawRows(d) /\ HasPreview(d)
        /\ OwnUpload(c) /\ HasPreview(c) /\ Sessions \cap Previews = {}
        /\ Audios \cap Fonts = {}
    BY <1>3, LibraryAssumption DEF IInv, Local
  <2>2. d.at \in Working => session'[d.key].state = session[d.key].state
    BY <1>1, <1>3
  <2>3. d.at \in Working /\ d.asset \in Fonts /\ IsOriginal(d.key, d.asset) => details'[d.asset] = details[d.asset]
    BY <2>1 DEF Apart, IsOriginal
  <2>5. ASSUME NEW f \in files'
        PROVE  \/ \E e \in files : e.key = f.key /\ e.asset = f.asset
               \/ /\ f.key \notin d.old
                  /\ d.at \in Working => f.key # d.key
                  /\ d.at \in Drawn => f.key # d.got
    <3>1. CASE c.at \in Working \ {"ready"} /\ f.key = c.key
      <4>1. c.key \in Sessions /\ session[c.key].state # "finalized"
        BY <2>1, <3>1 DEF OwnUpload
      <4> QED
        BY <2>1, <3>1, <4>1 DEF Apart, SawRows, HasPreview
    <3>2. CASE c.at = "swapPreview" /\ f.key = c.got
      BY <2>1, <3>2 DEF Apart, OwnUpload, HasPreview
    <3> QED
      BY <3>1, <3>2
  <2> QED
    BY <2>2, <2>3, <2>5 DEF Spares
<1> QED
  BY <1>2, <1>3

\* Where only the session of a sound or of a cover is closed, or that of a font
\* which has its details.
LEMMA DetailsAfter ==
  ASSUME IInv, NEW h \in Handlers, NEW c, c = call[h], UNCHANGED deleted,
         session' = session \/ (c.at \in Working /\ Finalized(c.key)),
         \A a \in Fonts : details[a] # None => details'[a] # None,
         c.at \in OfFonts => details'[c.asset] # None,
         c.at \in OfFonts \cup OfAudios \cup OfCovers
           \/ session' = session,
         NEW a \in Assets
  PROVE  HasDetails(a)'
<1> USE DEF Working, OfFonts, OfAudios, OfCovers
<1>1. ASSUME a \in Fonts, Finished(a)', ~Finished(a) PROVE details'[a] # None
  <2>1. PICK s \in Sessions : session'[s] = [asset |-> a, role |-> "original", state |-> "finalized"]
    BY <1>1 DEF Finished
  <2>2. session' # session /\ c.at \in Working /\ Finalized(c.key) /\ OwnUpload(c)
    BY <1>1, <2>1 DEF Finished, IInv, Local
  <2>3. session \in SessionRows /\ c.key \in Sessions
    BY <2>2 DEF IInv, Typed, LibraryTypeOK, OwnUpload
  <2>4. s = c.key
    BY <1>1, <2>1, <2>2, <2>3 DEF Finalized, Finished
  <2>5. c.asset = a /\ session[s].role = "original"
    BY <2>1, <2>2, <2>3, <2>4 DEF Finalized, OwnUpload
  <2>6. a \notin Audios
    BY <1>1, LibraryAssumption
  <2> QED
    BY <2>2, <2>4, <2>5, <2>6, LibraryAssumption DEF OwnUpload
<1> QED
  BY <1>1, DetailsStay

\* A sound is closed once its row is there.
LEMMA CloseHolds ==
  ASSUME IInv, NEW h \in Handlers, Close(h)
  PROVE  IInv'
<1> USE DEF Working, OfFonts, OfAudios, OfCovers, Verified, Drawn
<1> SUFFICES ASSUME NEW c, c = call[h] PROVE IInv'
  OBVIOUS
<1>0. /\ c \in Calls /\ Typed /\ Sound /\ SessionsOK
      /\ OwnUpload(c) /\ Checked(c) /\ SawDetails(c) /\ SawRows(c) /\ HasPreview(c) /\ Loaded(c)
  BY DEF IInv, Typed, Local
<1>1. UNCHANGED <<status, deleted, details, files, stored>> /\ Finalized(c.key) /\ c.at = "close"
  BY DEF Close
<1>2. c.key \in Sessions /\ c.asset \in Audios /\ IsOriginal(c.key, c.asset)
  BY <1>0, <1>1 DEF OwnUpload
<1>3. /\ session' \in SessionRows
      /\ SessionsOK'
      /\ \A s \in Sessions : /\ session'[s].asset = session[s].asset /\ session'[s].role = session[s].role
                             /\ session[s].state = "finalized" => session'[s].state = "finalized"
  BY <1>1, SessionsMove
<1>4. session'[c.key].state = "finalized"
  BY <1>0, <1>1, <1>2 DEF Finalized, Typed, LibraryTypeOK
<1>5. ASSUME NEW f \in files PROVE SoundRow(f)'
  <2>1. SoundRow(f)
    BY <1>0 DEF Sound
  <2> QED
    BY <1>1, <1>3, <2>1 DEF SoundRow, Fits
<1>6. Sound'
  BY <1>0, <1>1, <1>5 DEF Sound
<1>7. ASSUME NEW a \in Assets PROVE HasDetails(a)'
  BY <1>1, DetailsAfter
<1>8. Grows /\ \A g \in Handlers \ {h} : Spares(call[g])
  BY <1>1, RowsMove
<1> DEFINE y == [c EXCEPT !.at = "ready"]
<1>9. "ready" \in Steps /\ Step(h, "ready")
  BY DEF Close, Steps
<1>10. /\ call' = [call EXCEPT ![h] = y] /\ y \in Calls
       /\ y.at = "ready" /\ y.asset = c.asset /\ y.key = c.key /\ y.seen = c.seen
       /\ y.refused = c.refused /\ y.old = c.old
  BY <1>0, <1>9, StepsTo
<1> HIDE DEF y
<1> SUFFICES ASSUME NEW x, x = y PROVE IInv'
  OBVIOUS
<1>11. Local(x)'
  <2>1. IsOriginal(c.key, c.asset)'
    BY <1>1, <1>2, <1>3 DEF IsOriginal
  <2>2. OwnUpload(x)'
    BY <1>0, <1>1, <1>2, <1>3, <1>4, <1>10, <2>1 DEF OwnUpload, IsOriginal
  <2>3. Checked(x)'
    BY <1>0, <1>1, <1>10 DEF Checked
  <2>4. SawDetails(x)' /\ HasPreview(x)' /\ Loaded(x)'
    BY <1>10 DEF SawDetails, HasPreview, Loaded
  <2>5. SawRows(x)'
    BY <1>0, <1>3, <1>10 DEF SawRows
  <2> QED
    BY <2>2, <2>3, <2>4, <2>5 DEF Local
<1>12. Follows(c, x)
  BY <1>1, <1>10 DEF Follows
<1>13. \A g \in Handlers \ {h} : \A d : d = call[g] => Apart(x, d)' /\ Apart(d, x)'
  BY <1>8, <1>12, FollowsApart
<1>14. Typed'
  BY <1>0, <1>1, <1>3, <1>10, TypedMove DEF Typed, LibraryTypeOK
<1> QED
  BY <1>3, <1>6, <1>7, <1>8, <1>10, <1>11, <1>13, <1>14, Keeps

-----------------------------------------------------------------------------
(* Steps that write the rows of files *)

\* The rows that come in place of others are new.
LEMMA SwapMove ==
  ASSUME IInv, NEW h \in Handlers, NEW c, c = call[h], UNCHANGED <<status, deleted, details, stored>>,
         Step(h, "deleteOld"), c.at \in {"swapPreview", "swapCover", "removeCover"},
         session' = session \/ (c.at \in Working \ {"ready"} /\ Finalized(c.key)),
         files' \subseteq FileRows,
         \A f \in files : f \in files' <=> f.key \notin c.old,
         \A f \in files' \ files : /\ ~Catalogued(f.key) /\ f.key \notin c.old
                                   /\ \/ c.at = "swapCover" /\ f.key = c.key
                                      \/ c.at = "swapPreview" /\ f.key = c.got,
         \A f, g \in files' \ files : f = g,
         \A f \in files' \ files : SoundRow(f)'
  PROVE  IInv'
<1> USE DEF Working, OfFonts, OfAudios, OfCovers, Verified, Drawn
<1>0. /\ c \in Calls /\ Typed /\ Sound /\ SessionsOK
      /\ OwnUpload(c) /\ Checked(c) /\ SawDetails(c) /\ SawRows(c) /\ HasPreview(c) /\ Loaded(c)
  BY DEF IInv, Typed, Local
<1>1. /\ session' \in SessionRows
      /\ SessionsOK'
      /\ \A s \in Sessions : /\ session'[s].asset = session[s].asset /\ session'[s].role = session[s].role
                             /\ session[s].state = "finalized" => session'[s].state = "finalized"
  BY SessionsMove
<1>2. ASSUME NEW f \in files PROVE SoundRow(f)'
  <2>1. SoundRow(f)
    BY <1>0 DEF Sound
  <2> QED
    BY <1>1, <2>1 DEF SoundRow, Fits
<1>3. Sound'
  <2>1. \A f \in files' : SoundRow(f)'
    BY <1>2
  <2>2. \A f, g \in files' : f.key = g.key => f = g
    BY <1>0 DEF Sound, Catalogued
  <2> QED
    BY <2>1, <2>2 DEF Sound
<1>6. ASSUME NEW a \in Assets PROVE HasDetails(a)'
  BY DetailsAfter
<1>8. \A f \in files' : \/ \E g \in files : g.key = f.key /\ g.asset = f.asset
                        \/ c.at \in Working \ {"ready"} /\ f.key = c.key
                        \/ c.at = "swapPreview" /\ f.key = c.got
  OBVIOUS
<1>9. Grows /\ \A g \in Handlers \ {h} : Spares(call[g])
  BY <1>8, RowsMove
<1> DEFINE y == [c EXCEPT !.at = "deleteOld"]
<1>10. "deleteOld" \in Steps
  BY DEF Steps
<1>11. /\ call' = [call EXCEPT ![h] = y] /\ y \in Calls
       /\ y.at = "deleteOld" /\ y.asset = c.asset /\ y.key = c.key /\ y.seen = c.seen
       /\ y.refused = c.refused /\ y.old = c.old
  BY <1>0, <1>10, StepsTo
<1> HIDE DEF y
<1> SUFFICES ASSUME NEW x, x = y PROVE IInv'
  OBVIOUS
<1>12. Local(x)'
  <2>1. \A k \in c.old : ~Catalogued(k)'
    BY DEF Catalogued
  <2>2. ~x.refused
    BY <1>0, <1>11 DEF Checked
  <2>3. OwnUpload(x)' /\ Checked(x)' /\ SawDetails(x)' /\ HasPreview(x)' /\ Loaded(x)'
    BY <1>11, <2>2 DEF OwnUpload, Checked, SawDetails, HasPreview, Loaded
  <2>4. SawRows(x)'
    BY <1>0, <1>1, <1>11, <2>1 DEF SawRows, Catalogued
  <2> QED
    BY <2>3, <2>4 DEF Local
<1>13. Follows(c, x)
  BY <1>11 DEF Follows
<1>14. \A g \in Handlers \ {h} : \A d : d = call[g] => Apart(x, d)' /\ Apart(d, x)'
  BY <1>9, <1>13, FollowsApart
<1>15. Typed'
  BY <1>0, <1>1, <1>11, TypedMove DEF Typed, LibraryTypeOK
<1> QED
  BY <1>1, <1>3, <1>6, <1>9, <1>11, <1>12, <1>14, <1>15, Keeps

LEMMA SwapsHold ==
  ASSUME IInv, NEW h \in Handlers, SwapPreview(h) \/ SwapCover(h) \/ RemoveCoverRows(h)
  PROVE  IInv'
<1> USE DEF Working, OfFonts, OfAudios, OfCovers, Verified, Drawn
<1> SUFFICES ASSUME NEW c, c = call[h] PROVE IInv'
  OBVIOUS
<1>0. /\ c \in Calls /\ Typed /\ Sound /\ SessionsOK
      /\ OwnUpload(c) /\ Checked(c) /\ SawDetails(c) /\ SawRows(c) /\ HasPreview(c) /\ Loaded(c)
  BY DEF IInv, Typed, Local
<1>1. None \notin Assets /\ Assets = Audios \cup Fonts /\ Keys = Sessions \cup Previews /\ Sessions \cap Previews = {}
  BY LibraryAssumption DEF Assets, Keys
<1>2. ASSUME NEW f \in files
      PROVE  /\ f.key \in Previews <=> f.role = "specimen"
             /\ f.role # "specimen" => f.key \in Sessions /\ session[f.key].role = f.role
  BY <1>0, <1>1 DEF Sound, SoundRow
<1>3. CASE SwapPreview(h)
  <2> SUFFICES ASSUME NEW row, row = Row(c.got, c.asset, "specimen", FALSE) PROVE IInv'
    OBVIOUS
  <2>1. /\ c.at = "swapPreview" /\ files' = Swapped(c.old, row) /\ Step(h, "deleteOld")
        /\ UNCHANGED <<status, deleted, details, session, stored>>
    BY <1>3 DEF SwapPreview
  <2>2. /\ c.asset \in Fonts /\ c.got \in Previews /\ stored[c.got] # None /\ ~Catalogued(c.got) /\ c.got \notin c.old
        /\ c.old \subseteq Previews /\ \A f \in files : f.key \in c.old => f.asset = c.asset
    BY <1>0, <2>1 DEF HasPreview, SawRows
  <2>3. /\ row.key = c.got /\ row.asset = c.asset /\ row.role = "specimen"
        /\ row \in [key : Keys, asset : Assets, role : {"thumbnail", "specimen"}, primary : BOOLEAN]
    BY <1>1, <2>2 DEF Row
  <2>4. files' = {f \in files : f.key \notin c.old} \cup {row}
    BY <2>1 DEF Swapped
  <2>5. SoundRow(row)'
    BY <2>1, <2>2, <2>3 DEF SoundRow
  <2>6. row \notin files /\ files' \ files = {row}
    BY <2>2, <2>3, <2>4 DEF Catalogued
  <2>7. /\ files' \subseteq FileRows
        /\ \A f \in files : f \in files' <=> f.key \notin c.old
    BY <1>0, <2>2, <2>3, <2>4 DEF Typed, LibraryTypeOK
  <2>8. \A f \in files' \ files : /\ ~Catalogued(f.key) /\ f.key \notin c.old
                                 /\ \/ c.at = "swapCover" /\ f.key = c.key
                                    \/ c.at = "swapPreview" /\ f.key = c.got
    BY <2>1, <2>2, <2>3, <2>6
  <2>10. \A f \in files' \ files : SoundRow(f)'
    BY <2>5, <2>6
  <2>11. \A f, g \in files' \ files : f = g
    BY <2>6
  <2> QED
    BY <2>1, <2>7, <2>8, <2>10, <2>11, SwapMove
<1>4. CASE SwapCover(h)
  <2> SUFFICES ASSUME NEW row, row = Row(c.key, c.asset, "thumbnail", FALSE) PROVE IInv'
    OBVIOUS
  <2>1. c.at = "swapCover" /\ UNCHANGED <<status, deleted, details, stored>>
    BY <1>4 DEF SwapCover
  <2>2. /\ c.key \in Sessions /\ c.asset \in Assets /\ session[c.key].asset = c.asset
        /\ session[c.key].role = "thumbnail" /\ session[c.key].state # "finalized"
        /\ stored[c.key] # None /\ Fits(stored[c.key], c.key)
    BY <1>0, <2>1 DEF OwnUpload, Checked
  <2>3. ~Catalogued(c.key)
    BY <1>0, <2>2, NotYet
  <2>4. c.key \notin c.old /\ \A k \in c.old : k \in Sessions /\ session[k].role = "thumbnail"
    BY <1>0, <2>1, <2>2 DEF SawRows
  <2>5. files' = Swapped(c.old, row) /\ Finalized(c.key) /\ Step(h, "deleteOld")
    BY <1>4, <2>3 DEF SwapCover, Catalogued
  <2>6. /\ row.key = c.key /\ row.asset = c.asset /\ row.role = "thumbnail"
        /\ row \in [key : Keys, asset : Assets, role : {"thumbnail", "specimen"}, primary : BOOLEAN]
    BY <1>1, <2>2 DEF Row
  <2>7. files' = {f \in files : f.key \notin c.old} \cup {row}
    BY <2>5 DEF Swapped
  <2>8. /\ session'[c.key].asset = c.asset /\ session'[c.key].role = "thumbnail"
        /\ session'[c.key].state = "finalized"
    BY <1>0, <2>2, <2>5 DEF Finalized, Typed, LibraryTypeOK
  <2>9. SoundRow(row)'
    BY <2>1, <2>2, <2>6, <2>8 DEF SoundRow, Fits
  <2>11. row \notin files /\ files' \ files = {row}
    BY <2>3, <2>4, <2>6, <2>7 DEF Catalogued
  <2>12. /\ files' \subseteq FileRows
         /\ \A f \in files : f \in files' <=> f.key \notin c.old
    BY <1>0, <2>4, <2>6, <2>7 DEF Typed, LibraryTypeOK
  <2>13. \A f \in files' \ files : /\ ~Catalogued(f.key) /\ f.key \notin c.old
                                  /\ \/ c.at = "swapCover" /\ f.key = c.key
                                     \/ c.at = "swapPreview" /\ f.key = c.got
    BY <2>1, <2>3, <2>4, <2>6, <2>11
  <2>15. \A f \in files' \ files : SoundRow(f)'
    BY <2>9, <2>11
  <2>16. \A f, g \in files' \ files : f = g
    BY <2>11
  <2>17. c.at \in Working \ {"ready"} /\ Finalized(c.key)
    BY <2>1, <2>5
  <2> QED
    BY ZenonT(40), <2>1, <2>5, <2>12, <2>13, <2>15, <2>16, <2>17, SwapMove
<1>5. CASE RemoveCoverRows(h)
  <2>1. /\ c.at = "removeCover" /\ files' = {f \in files : f.key \notin c.old} /\ Step(h, "deleteOld")
        /\ UNCHANGED <<status, deleted, details, session, stored>>
    BY <1>5 DEF RemoveCoverRows
  <2>4. files' \ files = {}
    BY <2>1
  <2>5. /\ files' \subseteq FileRows
        /\ \A f \in files : f \in files' <=> f.key \notin c.old
    BY <1>0, <2>1 DEF Typed, LibraryTypeOK
  <2>6. /\ \A f \in files' \ files : /\ ~Catalogued(f.key) /\ f.key \notin c.old
                                     /\ \/ c.at = "swapCover" /\ f.key = c.key
                                        \/ c.at = "swapPreview" /\ f.key = c.got
        /\ \A f \in files' \ files : SoundRow(f)'
        /\ \A f, g \in files' \ files : f = g
    BY <2>4
  <2> QED
    BY <2>1, <2>5, <2>6, SwapMove
<1> QED
  BY <1>3, <1>4, <1>5

LEMMA OneKeyEach ==
  ASSUME NEW F, NEW r, \A f, g \in F : f.key = g.key => f = g, \A f \in F : f.key # r.key
  PROVE  \A f, g \in F \cup {r} : f.key = g.key => f = g
<1> SUFFICES ASSUME NEW f \in F \cup {r}, NEW g \in F \cup {r}, f.key = g.key PROVE f = g
  OBVIOUS
<1>1. CASE f \in F /\ g \in F
  BY <1>1
<1>2. CASE f = r /\ g = r
  BY <1>2
<1>3. CASE f \in F /\ g = r
  BY <1>3
<1>4. CASE f = r /\ g \in F
  BY <1>4
<1> QED
  BY <1>1, <1>2, <1>3, <1>4

\* A sound gets its row, of an upload that fits it, unless one has its key.
LEMMA CatalogueHolds ==
  ASSUME IInv, NEW h \in Handlers, Catalogue(h)
  PROVE  IInv'
<1> USE DEF Working, OfFonts, OfAudios, OfCovers, Verified, Drawn
<1> SUFFICES ASSUME NEW c, c = call[h] PROVE IInv'
  OBVIOUS
<1>0. /\ c \in Calls /\ Typed /\ Sound /\ SessionsOK /\ c.at = "catalogue"
      /\ OwnUpload(c) /\ Checked(c) /\ SawDetails(c) /\ SawRows(c) /\ HasPreview(c) /\ Loaded(c)
      /\ UNCHANGED <<status, deleted, details, session, stored>>
  BY DEF IInv, Typed, Local, Catalogue
<1>1. CASE Catalogued(c.key)
  BY <1>0, <1>1, Ends DEF Catalogue, db
<1>2. CASE ~Catalogued(c.key)
  <2> SUFFICES ASSUME NEW row, row = Row(c.key, c.asset, "original", TRUE) PROVE IInv'
    OBVIOUS
  <2>1. files' = files \cup {row} /\ Step(h, "close")
    BY <1>2 DEF Catalogue
  <2>2. /\ c.key \in Sessions /\ c.asset \in Assets /\ c.asset \in Audios /\ IsOriginal(c.key, c.asset)
        /\ stored[c.key] # None /\ Fits(stored[c.key], c.key) /\ session[c.key].state # "finalized"
    BY <1>0 DEF OwnUpload, Checked
  <2>3. /\ row.key = c.key /\ row.asset = c.asset /\ row.role = "original" /\ row.primary
        /\ row \in FileRows
    BY <2>2 DEF Row, Keys
  <2>4. Sound'
    <3>1. \A f \in files : SoundRow(f)'
      BY <1>0 DEF Sound, SoundRow, Fits
    <3>2. SoundRow(row)'
      BY <1>0, <2>2, <2>3 DEF SoundRow, Fits, IsOriginal
    <3>3. \A f, g \in files' : f.key = g.key => f = g
      <4>1. \A f, g \in files : f.key = g.key => f = g
        BY <1>0 DEF Sound
      <4>2. \A f \in files : f.key # row.key
        BY <1>2, <2>3 DEF Catalogued
      <4>3. \A f, g \in files \cup {row} : f.key = g.key => f = g
        BY <4>1, <4>2, OneKeyEach, ZenonT(30)
      <4> QED
        BY <2>1, <4>3, Zenon
    <3> QED
      BY <2>1, <3>1, <3>2, <3>3 DEF Sound
  <2>5. c.asset \notin Fonts
    BY <2>2, LibraryAssumption
  <2>6. ASSUME NEW a \in Assets PROVE HasDetails(a)'
    BY <1>0, DetailsAfter
  <2>7. Grows /\ \A g \in Handlers \ {h} : Spares(call[g])
    <3>1. \A f \in files' : (\E g \in files : g.key = f.key /\ g.asset = f.asset)
                            \/ (c.at \in Working \ {"ready"} /\ f.key = c.key)
      BY <1>0, <2>1, <2>3
    <3> QED
      BY <1>0, <3>1, RowsMove
  <2> DEFINE y == [c EXCEPT !.at = "close"]
  <2>8. "close" \in Steps
    BY DEF Steps
  <2>9. /\ call' = [call EXCEPT ![h] = y] /\ y \in Calls
        /\ y.at = "close" /\ y.asset = c.asset /\ y.key = c.key /\ y.seen = c.seen
        /\ y.refused = c.refused /\ y.old = c.old
    BY <1>0, <2>1, <2>8, StepsTo
  <2> HIDE DEF y
  <2> SUFFICES ASSUME NEW x, x = y PROVE IInv'
    OBVIOUS
  <2>10. Local(x)'
    <3>2. OwnUpload(x)'
      BY <1>0, <2>2, <2>9 DEF OwnUpload, IsOriginal
    <3>3. Checked(x)'
      BY <1>0, <2>9 DEF Checked
    <3>4. SawDetails(x)' /\ HasPreview(x)' /\ Loaded(x)'
      BY <2>9 DEF SawDetails, HasPreview, Loaded
    <3>5. SawRows(x)'
      BY <1>0, <2>9 DEF SawRows
    <3> QED
      BY <3>2, <3>3, <3>4, <3>5 DEF Local
  <2>11. Follows(c, x)
    BY <1>0, <2>9 DEF Follows
  <2>12. \A g \in Handlers \ {h} : \A d : d = call[g] => Apart(x, d)' /\ Apart(d, x)'
    BY <2>7, <2>11, FollowsApart
  <2>13. Typed'
    BY <1>0, <2>1, <2>3, <2>9, TypedMove DEF Typed, LibraryTypeOK
  <2>14. SessionsOK'
    BY <1>0 DEF SessionsOK, IsOriginal
  <2> QED
    BY <2>4, <2>6, <2>7, <2>9, <2>10, <2>12, <2>13, <2>14, Keeps
<1> QED
  BY <1>1, <1>2

\* A font gets its details with its first file.
LEMMA AddFontHolds ==
  ASSUME IInv, NEW h \in Handlers, AddFont(h)
  PROVE  IInv'
<1> USE DEF Working, OfFonts, OfAudios, OfCovers, Verified, Drawn
<1> SUFFICES ASSUME NEW c, c = call[h] PROVE IInv'
  OBVIOUS
<1>0. /\ c \in Calls /\ Typed /\ Sound /\ SessionsOK /\ c.at = "addFont"
      /\ OwnUpload(c) /\ Checked(c) /\ SawDetails(c) /\ SawRows(c) /\ HasPreview(c) /\ Loaded(c)
      /\ UNCHANGED <<deleted, stored>>
  BY DEF IInv, Typed, Local, AddFont
<1>1. None \notin Assets /\ Audios \cap Fonts = {} /\ Assets = Audios \cup Fonts
  BY LibraryAssumption DEF Assets
<1>2. /\ c.key \in Sessions /\ c.asset \in Fonts /\ c.asset \in Assets /\ IsOriginal(c.key, c.asset) /\ c.seen = None
      /\ stored[c.key] # None /\ Fits(stored[c.key], c.key) /\ session[c.key].state # "finalized"
      /\ c.got \in Faces /\ status[c.asset] # None /\ ~c.refused
  BY <1>0, <1>1 DEF OwnUpload, Checked, SawDetails, SessionsOK, IsOriginal
<1>3. ~Catalogued(c.key)
  BY <1>0, <1>2, NotYet DEF IsOriginal
<1>4. CASE Taken(c.got) \/ details[c.asset] # None \/ Catalogued(c.key)
  <2>1. Refuse(h, TRUE) /\ UNCHANGED db
    BY <1>0, <1>4 DEF AddFont, db
  <2>2. call' = [call EXCEPT ![h].at = "markFailed", ![h].refused = TRUE]
    BY <2>1 DEF Refuse
  <2> QED
    BY <1>0, <1>2, <1>3, <2>1, <2>2, RefuseHolds
<1>5. CASE ~(Taken(c.got) \/ details[c.asset] # None \/ Catalogued(c.key))
  <2> SUFFICES ASSUME NEW row, row = Row(c.key, c.asset, "original", TRUE),
                      NEW new, new = [face |-> c.got, version |-> 1]
               PROVE IInv'
    OBVIOUS
  <2>1. /\ files' = files \cup {row} /\ Step(h, "draw") /\ Finalized(c.key)
        /\ details' = [details EXCEPT ![c.asset] = new] /\ details[c.asset] = None
        /\ status' = [status EXCEPT ![c.asset] = "ready"]
    BY <1>5 DEF AddFont, SetStatus
  <2>2. /\ row.key = c.key /\ row.asset = c.asset /\ row.role = "original" /\ row.primary
        /\ row \in FileRows
    BY <1>2 DEF Row, Keys
  <2>3. new \in [face : Faces, version : 1 .. MaxVersion] /\ new.version = 1 /\ new # None
    BY <1>2, LibraryAssumption
  <2>4. /\ details' \in FontDetails
        /\ details'[c.asset] = new /\ \A f \in Fonts : f # c.asset => details'[f] = details[f]
    BY <1>0, <1>2, <2>1, <2>3 DEF Typed, LibraryTypeOK
  <2>5. /\ status' \in AssetStatus
        /\ status'[c.asset] = "ready" /\ \A a \in Assets : a # c.asset => status'[a] = status[a]
        /\ \A a \in Assets : status[a] # None => status'[a] # None
    BY <1>0, <1>2, <2>1, LibraryAssumption DEF Typed, LibraryTypeOK
  <2>6. /\ session' \in SessionRows
        /\ SessionsOK'
        /\ \A s \in Sessions : /\ session'[s].asset = session[s].asset /\ session'[s].role = session[s].role
                               /\ session[s].state = "finalized" => session'[s].state = "finalized"
    BY <1>0, <2>1, <2>5, SessionsMove
  <2>7. session'[c.key].state = "finalized"
    BY <1>0, <1>2, <2>1 DEF Finalized, Typed, LibraryTypeOK
  <2>8. Sound'
    <3>1. ASSUME NEW f \in files PROVE SoundRow(f)'
      <4>1. SoundRow(f)
        BY <1>0 DEF Sound
      <4> QED
        BY <1>0, <2>6, <4>1 DEF SoundRow, Fits
    <3>2. SoundRow(row)'
      <4>1. session'[c.key].asset = c.asset /\ session'[c.key].role = "original" /\ c.asset \notin Audios
        BY <1>1, <1>2, <2>6 DEF IsOriginal
      <4>2. Fits(stored[c.key], c.key)'
        BY <1>0, <1>2, <2>6 DEF Fits
      <4> QED
        BY <1>0, <1>2, <2>2, <2>7, <4>1, <4>2 DEF SoundRow
    <3>3. \A f, g \in files' : f.key = g.key => f = g
      <4>1. \A f, g \in files : f.key = g.key => f = g
        BY <1>0 DEF Sound
      <4>2. \A f \in files : f.key # row.key
        BY <1>3, <2>2 DEF Catalogued
      <4>3. \A f, g \in files \cup {row} : f.key = g.key => f = g
        BY <4>1, <4>2, OneKeyEach, ZenonT(30)
      <4> QED
        BY <2>1, <4>3, Zenon
    <3> QED
      BY <2>1, <3>1, <3>2, <3>3 DEF Sound
  <2>9. ASSUME NEW a \in Assets PROVE HasDetails(a)'
    BY <1>0, <2>1, <2>3, <2>4, DetailsAfter
  <2>10. Grows /\ \A g \in Handlers \ {h} : Spares(call[g])
    <3>1. \A f \in files' : (\E g \in files : g.key = f.key /\ g.asset = f.asset)
                            \/ (c.at \in Working \ {"ready"} /\ f.key = c.key)
      BY <1>0, <2>1, <2>2
    <3>4. \A a \in Fonts : \/ details'[a] = details[a]
                           \/ a = c.asset /\ c.at \in Working /\ IsOriginal(c.key, c.asset)
      BY <1>0, <1>2, <2>4
    <3>5. c.at \in Working \ {"ready"} /\ Finalized(c.key)
      BY <1>0, <2>1
    <3> QED
      BY <1>0, <2>5, <3>1, <3>4, <3>5, RowsMove
  <2> DEFINE y == [c EXCEPT !.at = "draw"]
  <2>11. "draw" \in Steps
    BY DEF Steps
  <2>12. /\ call' = [call EXCEPT ![h] = y] /\ y \in Calls
         /\ y.at = "draw" /\ y.asset = c.asset /\ y.key = c.key /\ y.seen = c.seen
         /\ y.refused = c.refused /\ y.old = c.old
    BY <1>0, <2>1, <2>11, StepsTo
  <2> HIDE DEF y
  <2> SUFFICES ASSUME NEW x, x = y PROVE IInv'
    OBVIOUS
  <2>13. Local(x)'
    <3>1. OwnUpload(x)' /\ Checked(x)' /\ SawDetails(x)' /\ HasPreview(x)' /\ Loaded(x)'
      BY <1>2, <2>12 DEF OwnUpload, Checked, SawDetails, HasPreview, Loaded
    <3>2. SawRows(x)'
      BY <1>0, <2>6, <2>12 DEF SawRows
    <3> QED
      BY <3>1, <3>2 DEF Local
  <2>14. Follows(c, x)
    BY <1>0, <2>12 DEF Follows
  <2>15. \A g \in Handlers \ {h} : \A d : d = call[g] => Apart(x, d)' /\ Apart(d, x)'
    BY <2>10, <2>14, FollowsApart
  <2>16. files' \subseteq FileRows
    BY <1>0, <2>1, <2>2 DEF Typed, LibraryTypeOK
  <2>17. deleted' \subseteq Assets /\ stored' \in [Keys -> Contents \cup {None}]
    BY <1>0 DEF Typed, LibraryTypeOK
  <2>18. Typed'
    BY <1>0, <2>4, <2>5, <2>6, <2>12, <2>16, <2>17, TypedMove
  <2> QED
    BY <2>6, <2>8, <2>9, <2>10, <2>12, <2>13, <2>15, <2>18, Keeps
<1> QED
  BY <1>4, <1>5

\* A demoted row is the row it was, no longer the primary one.
LEMMA DemotedRows ==
  ASSUME NEW old,
         files \subseteq FileRows
  PROVE  /\ Demoted(old) \subseteq FileRows
         /\ \A f \in Demoted(old) : \E g \in files :
              /\ g.key = f.key /\ g.asset = f.asset /\ g.role = f.role
              /\ (g.key \notin old => f = g) /\ (g.key \in old => ~f.primary)
         /\ \A g \in files : /\ g.key \notin old => g \in Demoted(old)
                             /\ \E f \in Demoted(old) : f.key = g.key /\ f.asset = g.asset /\ f.role = g.role
         /\ (\A f, g \in files : f.key = g.key => f = g) =>
              \A f, g \in Demoted(old) : f.key = g.key => f = g
<1>1. ASSUME NEW g \in files, NEW f, f = IF g.key \in old THEN [g EXCEPT !.primary = FALSE] ELSE g
      PROVE  /\ f \in FileRows
             /\ g.key = f.key /\ g.asset = f.asset /\ g.role = f.role
             /\ (g.key \notin old => f = g) /\ (g.key \in old => f = [g EXCEPT !.primary = FALSE] /\ ~f.primary)
  <2>1. g \in FileRows
    OBVIOUS
  <2>2. CASE g.key \in old
    BY <1>1, <2>1, <2>2
  <2>3. CASE g.key \notin old
    BY <1>1, <2>1, <2>3
  <2> QED
    BY <2>2, <2>3
<1>2. ASSUME \A f, g \in files : f.key = g.key => f = g, NEW f \in Demoted(old), NEW g \in Demoted(old), f.key = g.key
      PROVE  f = g
  <2>1. PICK d \in files : f = IF d.key \in old THEN [d EXCEPT !.primary = FALSE] ELSE d
    BY DEF Demoted
  <2>2. PICK e \in files : g = IF e.key \in old THEN [e EXCEPT !.primary = FALSE] ELSE e
    BY DEF Demoted
  <2>3. d.key = f.key /\ e.key = g.key
    BY <1>1, <2>1, <2>2
  <2>4. d = e
    BY <1>2, <2>3
  <2> QED
    BY <2>1, <2>2, <2>4
<1>3. /\ Demoted(old) \subseteq FileRows
      /\ \A f \in Demoted(old) : \E g \in files :
           /\ g.key = f.key /\ g.asset = f.asset /\ g.role = f.role
           /\ (g.key \notin old => f = g) /\ (g.key \in old => ~f.primary)
      /\ \A g \in files : /\ g.key \notin old => g \in Demoted(old)
                          /\ \E f \in Demoted(old) : f.key = g.key /\ f.asset = g.asset /\ f.role = g.role
  BY <1>1 DEF Demoted
<1> QED
  BY <1>2, <1>3

\* A font that has details gets a file.
LEMMA AddVersionHolds ==
  ASSUME IInv, NEW h \in Handlers, AddVersion(h)
  PROVE  IInv'
<1> USE DEF Working, OfFonts, OfAudios, OfCovers, Verified, Drawn
<1> SUFFICES ASSUME NEW c, c = call[h] PROVE IInv'
  OBVIOUS
<1>0. /\ c \in Calls /\ Typed /\ Sound /\ SessionsOK /\ c.at = "addVersion"
      /\ OwnUpload(c) /\ Checked(c) /\ SawDetails(c) /\ SawRows(c) /\ HasPreview(c) /\ Loaded(c)
      /\ UNCHANGED <<status, deleted, stored>>
  BY DEF IInv, Typed, Local, AddVersion
<1>1. None \notin Assets /\ Audios \cap Fonts = {} /\ Assets = Audios \cup Fonts
  BY LibraryAssumption DEF Assets
<1>2. /\ c.key \in Sessions /\ c.asset \in Fonts /\ c.asset \in Assets /\ IsOriginal(c.key, c.asset) /\ c.seen # None
      /\ stored[c.key] # None /\ Fits(stored[c.key], c.key) /\ session[c.key].state # "finalized"
      /\ c.seen \in Details /\ c.seen.version < MaxVersion /\ ~c.refused
  BY <1>0, <1>1 DEF OwnUpload, Checked, SawDetails, SawRows, AddVersion, Calls
<1>3. ~Catalogued(c.key)
  BY <1>0, <1>2, NotYet DEF IsOriginal
<1>4. CASE Catalogued(c.key) \/ details[c.asset] = None
  BY <1>0, <1>4, Ends DEF AddVersion, db
<1>5. CASE ~(Catalogued(c.key) \/ details[c.asset] = None)
  <2> SUFFICES ASSUME NEW row, row = Row(c.key, c.asset, "original", TRUE),
                      NEW new, new = [details[c.asset] EXCEPT !.version = c.seen.version + 1]
               PROVE IInv'
    OBVIOUS
  <2>0. /\ files \subseteq FileRows
        /\ details \in [Fonts -> {None} \cup Details] /\ details[c.asset] \in Details
        /\ deleted \subseteq Assets /\ stored \in [Keys -> Contents \cup {None}]
    BY <1>0, <1>2, <1>5 DEF Typed, LibraryTypeOK, Details
  <2>1. /\ files' = Demoted(c.old) \cup {row} /\ Step(h, "draw") /\ Finalized(c.key)
        /\ details' = [details EXCEPT ![c.asset] = new] /\ details[c.asset] # None
    BY <1>2, <1>5, <2>0 DEF AddVersion
  <2>2. /\ row.key = c.key /\ row.asset = c.asset /\ row.role = "original" /\ row.primary
        /\ row \in FileRows
    BY <1>2 DEF Row, Keys
  <2>3. new \in Details /\ new.version = c.seen.version + 1 /\ new # None
    BY <1>2, <2>0, LibraryAssumption DEF Details
  <2>4. /\ details' \in FontDetails
        /\ details'[c.asset] = new /\ \A f \in Fonts : f # c.asset => details'[f] = details[f]
    BY <1>2, <2>0, <2>1, <2>3 DEF Details
  <2>5. /\ Demoted(c.old) \subseteq FileRows
        /\ \A f \in Demoted(c.old) : \E g \in files :
             /\ g.key = f.key /\ g.asset = f.asset /\ g.role = f.role
             /\ (g.key \notin c.old => f = g) /\ (g.key \in c.old => ~f.primary)
        /\ \A g \in files : /\ g.key \notin c.old => g \in Demoted(c.old)
                            /\ \E f \in Demoted(c.old) : f.key = g.key /\ f.asset = g.asset /\ f.role = g.role
    BY <2>0, DemotedRows
  <2>6. /\ session' \in SessionRows
        /\ SessionsOK'
        /\ \A s \in Sessions : /\ session'[s].asset = session[s].asset /\ session'[s].role = session[s].role
                               /\ session[s].state = "finalized" => session'[s].state = "finalized"
    BY <1>0, <2>1, SessionsMove
  <2>7. session'[c.key].state = "finalized"
    BY <1>0, <1>2, <2>1 DEF Finalized, Typed, LibraryTypeOK
  <2>8. \A f, g \in files : f.key = g.key => f = g
    BY <1>0 DEF Sound
  <2>12. /\ \A f \in Demoted(c.old) : \E g \in files : g.key = f.key /\ g.asset = f.asset /\ g.role = f.role
         /\ \A g \in files : \E f \in Demoted(c.old) : f.key = g.key /\ f.asset = g.asset /\ f.role = g.role
    BY <2>5, Zenon
  <2>26. ASSUME NEW f \in Demoted(c.old) PROVE f.key # row.key
    <3>1. PICK g \in files : g.key = f.key
      BY <2>12
    <3> QED
      BY <1>3, <2>2, <3>1 DEF Catalogued
  <2>13. Sound'
    <3>1. ASSUME NEW f \in Demoted(c.old) PROVE SoundRow(f)'
      <4>1. PICK g \in files : g.key = f.key /\ g.asset = f.asset /\ g.role = f.role
        BY <2>12
      <4>2. SoundRow(g)
        BY <1>0 DEF Sound
      <4> QED
        BY <1>0, <2>6, <4>1, <4>2 DEF SoundRow, Fits
    <3>2. SoundRow(row)'
      <4>1. session'[c.key].asset = c.asset /\ session'[c.key].role = "original" /\ c.asset \notin Audios
        BY <1>1, <1>2, <2>6 DEF IsOriginal
      <4>2. Fits(stored[c.key], c.key)'
        BY <1>0, <1>2, <2>6 DEF Fits
      <4> QED
        BY <1>0, <1>2, <2>2, <2>7, <4>1, <4>2 DEF SoundRow
    <3>3. \A f, g \in files' : f.key = g.key => f = g
      <4>1. \A f, g \in Demoted(c.old) : f.key = g.key => f = g
        BY <2>0, <2>8, DemotedRows
      <4>2. \A f \in Demoted(c.old) : f.key # row.key
        BY <2>26
      <4> DEFINE rows == Demoted(c.old)
      <4>3. (\A f, g \in rows : f.key = g.key => f = g) /\ (\A f \in rows : f.key # row.key)
        BY <4>1, <4>2
      <4>4. files' = rows \cup {row}
        BY <2>1
      <4> HIDE DEF rows
      <4>5. \A f, g \in rows \cup {row} : f.key = g.key => f = g
        BY <4>3, OneKeyEach, ZenonT(30)
      <4> QED
        BY <4>4, <4>5, Zenon
    <3> QED
      BY <2>1, <3>1, <3>2, <3>3 DEF Sound
  <2>16. ASSUME NEW a \in Assets PROVE HasDetails(a)'
    BY <1>0, <2>1, <2>3, <2>4, DetailsAfter
  <2>17. Grows /\ \A g \in Handlers \ {h} : Spares(call[g])
    <3>1. \A f \in files' : (\E g \in files : g.key = f.key /\ g.asset = f.asset)
                            \/ (c.at \in Working \ {"ready"} /\ f.key = c.key)
      <4>1. ASSUME NEW f \in Demoted(c.old) PROVE \E g \in files : g.key = f.key /\ g.asset = f.asset
        <5>1. PICK g \in files : g.key = f.key /\ g.asset = f.asset
          BY <2>12
        <5> QED
          BY <5>1
      <4> QED
        BY <1>0, <2>1, <2>2, <4>1
    <3>5. \A a \in Fonts : \/ details'[a] = details[a]
                           \/ a = c.asset /\ c.at \in Working /\ IsOriginal(c.key, c.asset)
      BY <1>0, <1>2, <2>4
    <3>6. c.at \in Working \ {"ready"} /\ Finalized(c.key)
      BY <1>0, <2>1
    <3> QED
      BY <1>0, <3>1, <3>5, <3>6, RowsMove
  <2> DEFINE y == [c EXCEPT !.at = "draw"]
  <2>18. "draw" \in Steps
    BY DEF Steps
  <2>19. /\ call' = [call EXCEPT ![h] = y] /\ y \in Calls
         /\ y.at = "draw" /\ y.asset = c.asset /\ y.key = c.key /\ y.seen = c.seen
         /\ y.refused = c.refused /\ y.old = c.old
    BY <1>0, <2>1, <2>18, StepsTo
  <2> HIDE DEF y
  <2> SUFFICES ASSUME NEW x, x = y PROVE IInv'
    OBVIOUS
  <2>20. Local(x)'
    <3>1. OwnUpload(x)' /\ Checked(x)' /\ SawDetails(x)' /\ HasPreview(x)' /\ Loaded(x)'
      BY <1>2, <2>19 DEF OwnUpload, Checked, SawDetails, HasPreview, Loaded
    <3>2. SawRows(x)'
      BY <1>0, <2>6, <2>19 DEF SawRows
    <3> QED
      BY <3>1, <3>2 DEF Local
  <2>21. Follows(c, x)
    BY <1>0, <2>19 DEF Follows
  <2>22. \A g \in Handlers \ {h} : \A d : d = call[g] => Apart(x, d)' /\ Apart(d, x)'
    BY <2>17, <2>21, FollowsApart
  <2>23. files' \subseteq FileRows
    BY <2>1, <2>2, <2>5
  <2>24. status' \in AssetStatus
    BY <1>0 DEF Typed, LibraryTypeOK
  <2>25. Typed'
    BY <1>0, <2>0, <2>4, <2>6, <2>19, <2>23, <2>24, TypedMove
  <2> QED
    BY <2>6, <2>13, <2>16, <2>17, <2>19, <2>20, <2>22, <2>25, Keeps
<1> QED
  BY <1>4, <1>5

-----------------------------------------------------------------------------
(* The invariant *)

LEMMA InitOK ==
  ASSUME LibraryInit
  PROVE  IInv
<1> USE DEF LibraryInit
<1>1. None \notin Assets /\ Assets = Audios \cup Fonts /\ Keys = Sessions \cup Previews
  BY LibraryAssumption DEF Assets, Keys
<1>2. \A h \in Handlers : call[h] = Idle
  OBVIOUS
<1>3. Typed
  <2>1. /\ status \in AssetStatus /\ deleted \subseteq Assets
        /\ details \in FontDetails
        /\ stored \in [Keys -> Contents \cup {None}]
        /\ files \subseteq FileRows
    OBVIOUS
  <2>2. session \in SessionRows
    OBVIOUS
  <2>3. call \in [Handlers -> Calls]
    BY IdleIsLocal
  <2>4. \A h \in Handlers : call[h].asset \in Assets \cup {None} /\ call[h].old \subseteq Keys
    BY <1>2 DEF Idle
  <2> QED
    BY <2>1, <2>2, <2>3, <2>4 DEF Typed, LibraryTypeOK
<1>4. Sound
  BY DEF Sound
<1>5. SessionsOK
  BY <1>1 DEF SessionsOK, IsOriginal
<1>6. ASSUME NEW a \in Assets PROVE HasDetails(a)
  BY DEF HasDetails, Finished
<1>7. \A h \in Handlers : Local(call[h])
  BY <1>2, IdleIsLocal
<1>8. \A g, h \in Handlers : Apart(call[g], call[h])
  BY <1>2 DEF Apart, Idle, Working, OfFonts, OfAudios, OfCovers, Drawn
<1> QED
  BY <1>3, <1>4, <1>5, <1>6, <1>7, <1>8 DEF IInv

LEMMA NextKeeps ==
  ASSUME Dashboard, IInv, [LibraryNext]_vars
  PROVE  IInv'
<1>1. CASE UNCHANGED vars
  <2>1. UNCHANGED db /\ UNCHANGED call
    BY <1>1 DEF vars, db
  <2>2. LibraryTypeOK'
    BY <2>1 DEF IInv, Typed, LibraryTypeOK, db
  <2> QED
    BY <2>1, <2>2, QuietDb, NoneMoves
<1>2. ASSUME NEW s \in Sessions, NEW a \in Assets,
             CreateTicket(s, a) \/ CreateVersionTicket(s, a) \/ CreateCoverTicket(s, a)
      PROVE  IInv'
  BY <1>2, TicketsHold
<1>3. ASSUME NEW s \in Sessions, NEW content \in Contents, Upload(s, content) PROVE IInv'
  BY <1>3, UploadHolds
<1>4. ASSUME NEW h \in Handlers, FinalizeStep(h) PROVE IInv'
  <2>1. CASE \E s \in Sessions : Finalize(h, s)
    BY <2>1, FinalizeHolds
  <2>2. CASE ReadDetails(h) \/ VerifyFails(h) \/ VerifyRefuses(h) \/ Verify(h) \/ CheckFace(h)
    BY <2>2, VerifyHolds
  <2>3. CASE MarkFailed(h) \/ MakeReady(h)
    BY <2>3, StatusHolds
  <2>4. CASE Drop(h)
    BY <2>4, RemovalHolds
  <2>5. CASE ReadOriginals(h) \/ ReadCovers(h)
    BY <2>5, ReadsHold
  <2> QED
    BY <1>4, <2>1, <2>2, <2>3, <2>4, <2>5, CatalogueHolds, CloseHolds, AddFontHolds, AddVersionHolds,
      SwapsHold
       DEF FinalizeStep
<1>5. ASSUME NEW h \in Handlers, PreviewStep(h) PROVE IInv'
  BY <1>5, ReadsHold, DrawHolds, SwapsHold DEF PreviewStep
<1>6. ASSUME NEW h \in Handlers, AssetStep(h) PROVE IInv'
  <2>1. CASE \E a \in Assets : LoadToPublish(h, a) \/ LoadToUnpublish(h, a) \/ LoadToDelete(h, a)
    BY <2>1, LoadsHold
  <2>2. CASE \E a \in Assets : RemoveCover(h, a)
    BY <2>2, ReadsHold
  <2> QED
    BY <1>6, <2>1, <2>2, StatusHolds, DeleteHolds, SwapsHold, RemovalHolds DEF AssetStep
<1>7. ASSUME NEW h \in Handlers, Cut(h) PROVE IInv'
  BY <1>7, ReadsHold
<1> QED
  BY <1>1, <1>2, <1>3, <1>4, <1>5, <1>6, <1>7 DEF LibraryNext

\* The invariant holds of every run of finalizes, previews, covers and edits in
\* which no file's finalize is sent while one of it is in progress
\* (ingest.service.ts, fonts.service.ts, asset.service.ts).
THEOREM InvariantHolds ==
  ASSUME Dashboard
  PROVE  LibrarySpec => []IInv
<1>1. LibraryInit => IInv
  BY InitOK
<1>2. IInv /\ [LibraryNext]_vars => IInv'
  BY NextKeeps
<1> QED
  BY <1>1, <1>2, PTL DEF LibrarySpec

-----------------------------------------------------------------------------
(* Whatever finalizes cross *)

\* What a request works on, and what it holds of it.
Grounds(c) ==
  /\ c.at \in Working => c.key \in Sessions /\ c.asset \in Assets /\ session[c.key].asset = c.asset
  /\ c.at \in OfFonts => c.asset \in Fonts /\ session[c.key].role = "original"
  /\ c.at \in OfAudios => c.asset \in Audios /\ session[c.key].role = "original"
  /\ c.at \in OfCovers => session[c.key].role = "thumbnail"
  /\ c.at \in {"checkFace", "addFont"} => c.got \in Faces
  /\ c.at \in {"readOriginals", "addVersion"} => c.seen # None
  /\ c.at = "delete" => c.asset \in Assets
  /\ c.at = "freeFace" => c.asset \in deleted

\* What it will publish has a preview, what it draws has a file, and what it
\* replaces is of its own asset, or no file at all.
Showing(c) ==
  /\ c.at \in {"draw"} \cup Drawn => c.asset \in Fonts /\ Primaries(c.asset) # {}
  /\ c.at \in Drawn => c.got \in Previews /\ ~Catalogued(c.got)
  /\ c.at = "addVersion" => \A k \in c.old : k \in Sessions /\ session[k].asset = c.asset
  /\ c.at \in {"swapCover", "removeCover"} => \A k \in c.old : k \in Sessions /\ session[k].role = "thumbnail"
  /\ c.at = "swapPreview" => c.old \subseteq Previews /\ \A f \in files : f.key \in c.old => f.asset = c.asset
  /\ c.at = "publish" /\ c.asset \in Fonts => KeysOf(c.asset, "specimen") # {}

\* The preview the request c has drawn is not the one d has, nor one d replaces.
Private(c, d) ==
  c.at \in Drawn => /\ d.at \in Drawn => c.got # d.got
                    /\ d.at = "swapPreview" => c.got \notin d.old

RowOf(f) ==
  IF f.role = "specimen" THEN f.key \in Previews
  ELSE f.key \in Sessions /\ session[f.key].asset = f.asset /\ session[f.key].role = f.role

Rows ==
  /\ \A f \in files : RowOf(f)
  /\ \A f, g \in files : f.key = g.key => f.asset = g.asset
  /\ \A s \in Sessions : session[s].asset = None <=> session[s].role = None

\* Each thing a font shows has what it is made of.
FontShows(a) ==
  /\ KeysOf(a, "specimen") # {} => Primaries(a) # {}
  /\ Primaries(a) # {} => details[a] # None \/ a \in deleted
  /\ Live(a) /\ status[a] = "published" => KeysOf(a, "specimen") # {}

Base ==
  /\ Typed /\ Rows
  /\ \A a \in Fonts : FontShows(a)
  /\ \A h \in Handlers : Grounds(call[h]) /\ Showing(call[h])
  /\ \A g, h \in Handlers : g # h => Private(call[g], call[h])

\* What was opened or deleted stays so, and what a font has it keeps.
Extends ==
  /\ \A s \in Sessions : session[s].asset # None =>
       session'[s].asset = session[s].asset /\ session'[s].role = session[s].role
  /\ deleted \subseteq deleted'
  /\ \A a \in Fonts : /\ Primaries(a) # {} => Primaries(a)' # {}
                      /\ KeysOf(a, "specimen") # {} => KeysOf(a, "specimen")' # {}

LEMMA GroundsStay ==
  ASSUME Rows, Extends, NEW d \in Calls, Grounds(d), Showing(d),
         \A f \in files' : \/ \E g \in files : g.key = f.key /\ g.asset = f.asset
                           \/ /\ d.at \in Drawn => f.key # d.got
                              /\ d.at = "swapPreview" => f.key \notin d.old
  PROVE  Grounds(d)' /\ Showing(d)'
<1> USE DEF Working, OfFonts, OfAudios, OfCovers, Drawn
<1>1. /\ None \notin Assets
      /\ \A s \in Sessions : session[s].asset # None =>
           session'[s].asset = session[s].asset /\ session'[s].role = session[s].role
      /\ \A s \in Sessions : session[s].role # None => session[s].asset # None
      /\ deleted \subseteq deleted'
  BY LibraryAssumption DEF Extends, Rows
<1>2. Grounds(d)'
  BY <1>1 DEF Grounds
<1>3. d.at \in Drawn => ~Catalogued(d.got)'
  BY DEF Showing, Catalogued
<1>4. d.at = "swapPreview" => \A f \in files' : f.key \in d.old => f.asset = d.asset
  BY DEF Showing
<1>5. /\ d.at \in {"draw"} \cup Drawn => Primaries(d.asset)' # {}
      /\ d.at = "publish" /\ d.asset \in Fonts => KeysOf(d.asset, "specimen")' # {}
  BY DEF Showing, Extends
<1>6. d.at = "addVersion" => \A k \in d.old : k \in Sessions /\ session'[k].asset = d.asset
  BY <1>1 DEF Showing, Grounds
<1>7. d.at \in {"swapCover", "removeCover"} => \A k \in d.old : k \in Sessions /\ session'[k].role = "thumbnail"
  BY <1>1, LibraryAssumption DEF Showing
<1>8. Primaries(d.asset)' = {f \in files' : f.asset = d.asset /\ f.role = "original" /\ f.primary}
  BY DEF Primaries
<1>9. KeysOf(d.asset, "specimen")' = {f.key : f \in {g \in files' : g.asset = d.asset /\ g.role = "specimen"}}
  BY DEF KeysOf
<1> QED
  BY <1>2, <1>3, <1>4, <1>5, <1>6, <1>7, <1>8, <1>9 DEF Showing, Catalogued

\* A step of h adds rows of uploads, or of the preview it has drawn.
LEMMA BaseKeeps ==
  ASSUME Base, NEW h \in Handlers, NEW c, c = call[h], NEW x \in Calls, call' = [call EXCEPT ![h] = x],
         Typed', Rows', \A a \in Fonts : FontShows(a)', Extends,
         \A f \in files' : \/ \E g \in files : g.key = f.key /\ g.asset = f.asset
                           \/ f.key \in Sessions
                           \/ c.at = "swapPreview" /\ f.key = c.got,
         Grounds(x)' /\ Showing(x)',
         \A g \in Handlers \ {h} : Private(x, call[g]) /\ Private(call[g], x)
  PROVE  Base'
<1> USE DEF Drawn
<1>1. call \in [Handlers -> Calls] /\ call'[h] = x /\ \A g \in Handlers \ {h} : call'[g] = call[g]
  BY DEF Base, Typed
<1>2. ASSUME NEW g \in Handlers \ {h}, NEW d, d = call[g] PROVE Grounds(d)' /\ Showing(d)'
  <2>1. d \in Calls /\ Grounds(d) /\ Showing(d) /\ Private(c, d) /\ Showing(c) /\ Rows
    BY <1>1, <1>2 DEF Base
  <2>2. ASSUME NEW f \in files'
        PROVE  \/ \E e \in files : e.key = f.key /\ e.asset = f.asset
               \/ /\ d.at \in Drawn => f.key # d.got
                  /\ d.at = "swapPreview" => f.key \notin d.old
    BY <2>1, LibraryAssumption DEF Showing, Private
  <2> QED
    BY <2>1, <2>2, GroundsStay
<1>3. ASSUME NEW g \in Handlers, NEW d, d = call'[g] PROVE Grounds(d)' /\ Showing(d)'
  BY <1>1, <1>2, <1>3
<1>4. \A g \in Handlers : Grounds(call[g])' /\ Showing(call[g])'
  BY <1>3 DEF Grounds, Showing
<1>5. \A g, f \in Handlers : g # f => Private(call'[g], call'[f])
  BY <1>1 DEF Base
<1>6. \A g, f \in Handlers : g # f => Private(call[g], call[f])'
  BY <1>5 DEF Private
<1> QED
  BY <1>4, <1>6 DEF Base

\* A step that writes no row, and leaves h with no preview drawn.
LEMMA BaseStep ==
  ASSUME Base, NEW h \in Handlers, NEW x \in Calls, call' = [call EXCEPT ![h] = x], x.at \notin Drawn,
         UNCHANGED <<files, session>>, deleted \subseteq deleted', Typed', \A a \in Fonts : FontShows(a)',
         Grounds(x)', Showing(x)
  PROVE  Base'
<1>1. Rows'
  BY DEF Base, Rows, RowOf
<1>2. Extends
  BY DEF Extends, Primaries, KeysOf
<1>3. Showing(x)'
  BY DEF Showing, Catalogued, Primaries, KeysOf
<1>4. \A g \in Handlers \ {h} : Private(x, call[g]) /\ Private(call[g], x)
  BY DEF Private, Drawn
<1> QED
  BY <1>1, <1>2, <1>3, <1>4, BaseKeeps

\* A step that writes nothing but objects.
LEMMA BaseQuiet ==
  ASSUME Base, NEW h \in Handlers, NEW x \in Calls, call' = [call EXCEPT ![h] = x], x.at \notin Drawn,
         UNCHANGED <<status, deleted, details, files, session>>, stored' \in [Keys -> Contents \cup {None}],
         Grounds(x), Showing(x)
  PROVE  Base'
<1>1. Typed'
  BY TypedMove DEF Base, Typed, LibraryTypeOK
<1>2. \A a \in Fonts : FontShows(a)'
  BY DEF Base, FontShows, Live, KeysOf, Primaries
<1>3. Grounds(x)'
  BY DEF Grounds
<1> QED
  BY <1>1, <1>2, <1>3, BaseStep

LEMMA IdleGrounds ==
  Idle \in Calls /\ Grounds(Idle) /\ Showing(Idle) /\ Idle.at \notin Drawn
BY IdleIsLocal DEF Idle, Grounds, Showing, Working, OfFonts, OfAudios, OfCovers, Drawn

LEMMA BaseEnds ==
  ASSUME Base, NEW h \in Handlers, End(h), UNCHANGED <<status, deleted, details, files, session>>,
         stored' \in [Keys -> Contents \cup {None}]
  PROVE  Base'
BY IdleGrounds, BaseQuiet DEF End

\* A refusal of what was uploaded.
LEMMA BaseRefuses ==
  ASSUME Base, NEW h \in Handlers, NEW c, c = call[h], NEW step \in {"markFailed", "drop"},
         c.at \in {"verify", "checkFace", "addFont"}, call' = [call EXCEPT ![h].at = step, ![h].refused = TRUE],
         UNCHANGED <<status, deleted, details, files, session, stored>>
  PROVE  Base'
<1> USE DEF Working, OfFonts, OfAudios, OfCovers, Drawn
<1>0. /\ c \in Calls /\ Grounds(c) /\ stored \in [Keys -> Contents \cup {None}] /\ call \in [Handlers -> Calls]
  BY DEF Base, Typed, LibraryTypeOK
<1> DEFINE y == [c EXCEPT !.at = step, !.refused = TRUE]
<1>1. call' = [call EXCEPT ![h] = y] /\ step \in Steps
  BY <1>0 DEF Steps
<1>2. y \in Calls /\ y.at = step /\ y.asset = c.asset /\ y.key = c.key
  BY <1>0, <1>1 DEF Calls
<1> HIDE DEF y
<1>3. Grounds(y) /\ Showing(y) /\ y.at \notin Drawn
  BY <1>0, <1>2 DEF Grounds, Showing
<1> QED
  BY <1>0, <1>1, <1>2, <1>3, BaseQuiet

\* What a finalize reads before it writes.
LEMMA BaseVerifies ==
  ASSUME Base, NEW h \in Handlers,
         \/ \E s \in Sessions : Finalize(h, s)
         \/ ReadDetails(h) \/ VerifyFails(h) \/ VerifyRefuses(h) \/ Verify(h) \/ CheckFace(h)
         \/ ReadOriginals(h) \/ ReadCovers(h)
  PROVE  Base'
<1> USE DEF Working, OfFonts, OfAudios, OfCovers, Drawn
<1> SUFFICES ASSUME NEW c, c = call[h] PROVE Base'
  OBVIOUS
<1>0. /\ c \in Calls /\ Typed /\ Rows /\ Grounds(c) /\ Showing(c)
      /\ UNCHANGED <<status, deleted, details, files, session, stored>>
      /\ stored \in [Keys -> Contents \cup {None}] /\ details \in FontDetails /\ session \in SessionRows
      /\ None \notin Assets /\ Assets = Audios \cup Fonts /\ Keys = Sessions \cup Previews
  BY LibraryAssumption DEF Base, Typed, LibraryTypeOK, Assets, Keys, Finalize, ReadDetails, VerifyFails, VerifyRefuses,
     Verify, CheckFace, ReadOriginals, ReadCovers
<1>1. ASSUME NEW x \in Calls, call' = [call EXCEPT ![h] = x], x.at \notin Drawn, Grounds(x), Showing(x)
      PROVE  Base'
  BY <1>0, <1>1, BaseQuiet
<1>2. CASE \E s \in Sessions : Finalize(h, s)
  <2>1. PICK s \in Sessions : Finalize(h, s)
    BY <1>2
  <2>2. PICK step \in {"details", "verify"} :
          /\ call' = [call EXCEPT ![h].at = step, ![h].asset = session[s].asset, ![h].key = s]
          /\ step = "details" => session[s].role = "original" /\ session[s].asset \in Fonts
    BY <2>1 DEF Finalize
  <2>3. session[s].asset \in Assets
    BY <1>0, <2>1 DEF Finalize
  <2>4. c = Idle
    BY <2>1 DEF Finalize
  <2> DEFINE y == [c EXCEPT !.at = step, !.asset = session[s].asset, !.key = s]
  <2>5. call' = [call EXCEPT ![h] = y]
    BY <1>0, <2>2
  <2>6. y \in Calls /\ y.at = step /\ y.asset = session[s].asset /\ y.key = s
    BY <1>0, <2>3 DEF Calls, Steps
  <2> HIDE DEF y
  <2>7. Grounds(y) /\ Showing(y)
    BY <2>2, <2>3, <2>6 DEF Grounds, Showing
  <2> QED
    BY <1>1, <2>5, <2>6, <2>7
<1>3. CASE ReadDetails(h)
  <2> DEFINE y == [c EXCEPT !.at = "verify", !.seen = details[c.asset]]
  <2>1. call' = [call EXCEPT ![h] = y] /\ c.at = "details"
    BY <1>0, <1>3 DEF ReadDetails
  <2>2. c.asset \in Fonts
    BY <1>0, <2>1 DEF Grounds
  <2>5. details[c.asset] \in Details \cup {None} /\ "verify" \in Steps
    BY <1>0, <2>2 DEF Details, Steps
  <2>3. y \in Calls /\ y.at = "verify" /\ y.asset = c.asset /\ y.key = c.key
    BY <1>0, <2>5 DEF Calls
  <2> HIDE DEF y
  <2>4. Grounds(y) /\ Showing(y)
    BY <1>0, <2>1, <2>3 DEF Grounds, Showing
  <2> QED
    BY <1>1, <2>1, <2>3, <2>4
<1>4. CASE VerifyFails(h)
  <2>1. CASE End(h)
    BY <1>0, <2>1, BaseEnds
  <2>2. CASE Step(h, "markFailed")
    <3> DEFINE y == [c EXCEPT !.at = "markFailed"]
    <3>1. "markFailed" \in Steps /\ c.at = "verify"
      BY <1>4 DEF VerifyFails, Steps
    <3>2. call' = [call EXCEPT ![h] = y] /\ y \in Calls /\ y.at = "markFailed" /\ y.asset = c.asset /\ y.key = c.key
      BY <1>0, <2>2, <3>1, StepsTo
    <3> HIDE DEF y
    <3>3. Grounds(y) /\ Showing(y)
      BY <1>0, <3>1, <3>2 DEF Grounds, Showing
    <3> QED
      BY <1>1, <3>2, <3>3
  <2> QED
    BY <1>4, <2>1, <2>2 DEF VerifyFails
<1>5. CASE VerifyRefuses(h)
  BY <1>5, BaseRefuses DEF VerifyRefuses, Refuse
<1>6. CASE Verify(h)
  <2> SUFFICES ASSUME NEW step, step = AfterVerify(c), NEW found, found = stored[c.key],
                      NEW got, got = IF c.asset \in Fonts THEN found ELSE None
               PROVE  Base'
    OBVIOUS
  <2>1. /\ c.at = "verify" /\ found # None /\ Fits(found, c.key)
        /\ call' = [call EXCEPT ![h].got = got, ![h].at = step]
    BY <1>6 DEF Verify
  <2>2. c.key \in Sessions /\ c.asset \in Assets /\ session[c.key].asset = c.asset /\ session[c.key].role # None
    BY <1>0, <2>1 DEF Grounds, Rows
  <2>3. session[c.key].role \in {"original", "thumbnail"} /\ found \in Contents
    BY <1>0, <2>1, <2>2
  <2>4. step \in Steps /\ step \in Verified \ {"addFont", "addVersion", "swapCover"}
    BY DEF AfterVerify, Steps, Verified
  <2> DEFINE y == [c EXCEPT !.got = got, !.at = step]
  <2>10. call' = [call EXCEPT ![h] = y]
    BY <1>0, <2>1
  <2>11. got \in Contents \cup {None}
    BY <2>3
  <2>5. /\ y \in Calls
        /\ y.at = step /\ y.asset = c.asset /\ y.key = c.key /\ y.seen = c.seen
        /\ y.got = got
    BY <1>0, <2>4, <2>11 DEF Calls
  <2> HIDE DEF y
  <2>6. /\ step \in OfFonts => c.asset \in Fonts /\ session[c.key].role = "original"
        /\ step \in OfAudios => c.asset \in Audios /\ session[c.key].role = "original"
        /\ step \in OfCovers => session[c.key].role = "thumbnail"
        /\ step = "readOriginals" => c.seen # None
    BY <1>0, <2>2, <2>3 DEF AfterVerify
  <2>7. c.asset \in Fonts /\ session[c.key].role = "original" => found \in Faces
    BY <2>1, <2>2, LibraryAssumption DEF Fits
  <2>8. Grounds(y)
    BY <2>2, <2>4, <2>5, <2>6, <2>7 DEF Grounds, Verified
  <2>9. Showing(y)
    BY <2>4, <2>5 DEF Showing, Verified
  <2> QED
    BY <1>1, <2>4, <2>5, <2>8, <2>9, <2>10 DEF Verified
<1>7. CASE CheckFace(h)
  <2>1. CASE Refuse(h, TRUE)
    BY <1>7, <2>1, BaseRefuses DEF CheckFace, Refuse
  <2>2. CASE Step(h, "addFont")
    <3> DEFINE y == [c EXCEPT !.at = "addFont"]
    <3>1. "addFont" \in Steps /\ c.at = "checkFace"
      BY <1>7 DEF CheckFace, Steps
    <3>2. /\ call' = [call EXCEPT ![h] = y] /\ y \in Calls
          /\ y.at = "addFont" /\ y.asset = c.asset /\ y.key = c.key /\ y.got = c.got
      BY <1>0, <2>2, <3>1, StepsTo
    <3> HIDE DEF y
    <3>3. Grounds(y) /\ Showing(y)
      BY <1>0, <3>1, <3>2 DEF Grounds, Showing
    <3> QED
      BY <1>1, <3>2, <3>3
  <2> QED
    BY <1>7, <2>1, <2>2 DEF CheckFace
<1>8. ASSUME NEW role \in {"original", "thumbnail"}, NEW step \in {"addVersion", "swapCover"},
             call' = [call EXCEPT ![h].at = step, ![h].old = KeysOf(c.asset, role)],
             \/ c.at = "readOriginals" /\ step = "addVersion" /\ role = "original"
             \/ c.at = "readCovers" /\ step = "swapCover" /\ role = "thumbnail"
      PROVE  Base'
  <2>1. \A k \in KeysOf(c.asset, role) : k \in Sessions /\ session[k].asset = c.asset /\ session[k].role = role
    BY <1>0, <1>8 DEF KeysOf, Rows, RowOf
  <2> DEFINE y == [c EXCEPT !.at = step, !.old = KeysOf(c.asset, role)]
  <2>4. call' = [call EXCEPT ![h] = y] /\ step \in Steps /\ KeysOf(c.asset, role) \subseteq Keys
    BY <1>0, <1>8, <2>1 DEF Steps
  <2>2. /\ y \in Calls
        /\ y.at = step /\ y.asset = c.asset /\ y.key = c.key /\ y.seen = c.seen /\ y.old = KeysOf(c.asset, role)
    BY <1>0, <2>4 DEF Calls
  <2> HIDE DEF y
  <2>3. Grounds(y) /\ Showing(y)
    BY <1>0, <1>8, <2>1, <2>2 DEF Grounds, Showing
  <2> QED
    BY <1>1, <1>8, <2>2, <2>3, <2>4
<1>9. CASE ReadOriginals(h)
  BY <1>8, <1>9 DEF ReadOriginals
<1>10. CASE ReadCovers(h)
  BY <1>8, <1>10 DEF ReadCovers
<1> QED
  BY <1>2, <1>3, <1>4, <1>5, <1>6, <1>7, <1>9, <1>10

\* What an edit or a redraw loads.
LEMMA BaseLoads ==
  ASSUME Base, NEW h \in Handlers, NEW a \in Assets,
         LoadToPublish(h, a) \/ LoadToUnpublish(h, a) \/ LoadToDelete(h, a) \/ RemoveCover(h, a) \/ RefreshPreview(h, a)
  PROVE  Base'
<1> USE DEF Working, OfFonts, OfAudios, OfCovers, Drawn, OfAssets
<1> SUFFICES ASSUME NEW c, c = call[h] PROVE Base'
  OBVIOUS
<1>0. /\ c \in Calls /\ Typed /\ call \in [Handlers -> Calls] /\ Rows /\ call[h] = Idle
      /\ UNCHANGED <<status, deleted, details, files, session, stored>>
      /\ stored \in [Keys -> Contents \cup {None}] /\ details \in FontDetails /\ files \subseteq FileRows
  BY DEF Base, Typed, LibraryTypeOK, LoadToPublish, LoadToUnpublish, LoadToDelete, RemoveCover, RefreshPreview
<1>1. ASSUME NEW x \in Calls, call' = [call EXCEPT ![h] = x], x.at \notin Drawn, Grounds(x), Showing(x)
      PROVE  Base'
  BY <1>0, <1>1, BaseQuiet
<1>2. ASSUME NEW step \in {"publish", "unpublish", "delete"}, NEW seen \in Details \cup {None},
             call' = [call EXCEPT ![h].at = step, ![h].asset = a, ![h].seen = seen],
             step = "publish" => Shows(a)
      PROVE  Base'
  <2> DEFINE y == [c EXCEPT !.at = step, !.asset = a, !.seen = seen]
  <2>3. call' = [call EXCEPT ![h] = y]
    BY <1>2
  <2>4. step \in Steps
    BY DEF Steps
  <2>1. y \in Calls /\ y.at = step /\ y.asset = a
    BY <1>0, <2>4 DEF Calls
  <2> HIDE DEF y
  <2>2. Grounds(y) /\ Showing(y)
    BY <1>2, <2>1 DEF Grounds, Showing, Shows
  <2> QED
    BY <1>1, <1>2, <2>1, <2>2, <2>3
<1>3. (IF a \in Fonts THEN details[a] ELSE None) \in Details \cup {None}
  BY <1>0 DEF Details
<1>4. CASE LoadToPublish(h, a)
  BY <1>2, <1>3, <1>4 DEF LoadToPublish
<1>5. CASE LoadToDelete(h, a)
  BY <1>2, <1>3, <1>5 DEF LoadToDelete
<1>6. CASE LoadToUnpublish(h, a)
  <2> DEFINE y == [c EXCEPT !.at = "unpublish", !.asset = a]
  <2>3. call' = [call EXCEPT ![h] = y]
    BY <1>6 DEF LoadToUnpublish
  <2>4. "unpublish" \in Steps
    BY DEF Steps
  <2>1. y \in Calls /\ y.at = "unpublish" /\ y.asset = a
    BY <1>0, <2>4 DEF Calls
  <2> HIDE DEF y
  <2>2. Grounds(y) /\ Showing(y)
    BY <2>1 DEF Grounds, Showing
  <2> QED
    BY <1>1, <2>1, <2>2, <2>3
<1>7. CASE RemoveCover(h, a)
  <2>1. \A k \in KeysOf(a, "thumbnail") : k \in Sessions /\ k \in Keys /\ session[k].role = "thumbnail"
    BY <1>0 DEF KeysOf, Rows, RowOf
  <2> DEFINE y == [c EXCEPT !.at = "removeCover", !.asset = a, !.old = KeysOf(a, "thumbnail")]
  <2>5. call' = [call EXCEPT ![h] = y]
    BY <1>7 DEF RemoveCover
  <2>4. "removeCover" \in Steps /\ KeysOf(a, "thumbnail") \subseteq Keys
    BY <2>1 DEF Steps
  <2>2. y \in Calls /\ y.at = "removeCover" /\ y.old = KeysOf(a, "thumbnail")
    BY <1>0, <2>4 DEF Calls
  <2> HIDE DEF y
  <2>3. Grounds(y) /\ Showing(y)
    BY <2>1, <2>2 DEF Grounds, Showing
  <2> QED
    BY <1>1, <2>2, <2>3, <2>5
<1>8. CASE RefreshPreview(h, a)
  <2>1. PICK f \in Primaries(a) : call' = [call EXCEPT ![h].at = "draw", ![h].asset = a, ![h].key = f.key]
    BY <1>8 DEF RefreshPreview
  <2>2. f.key \in Keys /\ a \in Fonts /\ Primaries(a) # {}
    BY <1>0, <1>8, <2>1 DEF RefreshPreview, Primaries
  <2> DEFINE y == [c EXCEPT !.at = "draw", !.asset = a, !.key = f.key]
  <2>3. call' = [call EXCEPT ![h] = y] /\ y \in Calls /\ y.at = "draw" /\ y.asset = a
    BY <1>0, <2>1, <2>2 DEF Calls, Steps
  <2> HIDE DEF y
  <2>4. Grounds(y) /\ Showing(y)
    BY <2>2, <2>3 DEF Grounds, Showing
  <2> QED
    BY <1>1, <2>3, <2>4
<1> QED
  BY <1>4, <1>5, <1>6, <1>7, <1>8

\* What only ends, or deletes objects first.
LEMMA BaseCloses ==
  ASSUME Base, NEW h \in Handlers, Drop(h) \/ DeleteOld(h) \/ DrawFails(h) \/ Cut(h)
  PROVE  Base'
<1>1. stored \in [Keys -> Contents \cup {None}]
  BY DEF Base, Typed, LibraryTypeOK
<1>2. stored' \in [Keys -> Contents \cup {None}]
  BY <1>1 DEF Drop, DeleteOld, DrawFails, Cut, Store
<1> QED
  BY <1>2, BaseEnds DEF Drop, DeleteOld, DrawFails, Cut

\* Only a publication publishes, of a font that has a preview.
LEMMA BaseStatus ==
  ASSUME Base, NEW h \in Handlers, MarkFailed(h) \/ MakeReady(h) \/ Publish(h) \/ Unpublish(h)
  PROVE  Base'
<1> USE DEF Working, OfFonts, OfAudios, OfCovers, Drawn
<1> SUFFICES ASSUME NEW c, c = call[h] PROVE Base'
  OBVIOUS
<1>0. /\ c \in Calls /\ Typed /\ Grounds(c) /\ Showing(c) /\ status \in AssetStatus
      /\ UNCHANGED <<deleted, details, files, session, stored>>
  BY DEF Base, Typed, LibraryTypeOK, MarkFailed, MakeReady, Publish, Unpublish
<1>1. /\ \/ UNCHANGED status
         \/ \E new \in {"failed", "ready", "published"} :
              /\ status' = [status EXCEPT ![c.asset] = new]
              /\ new = "published" => c.at = "publish"
      /\ End(h) \/ (c.at = "markFailed" /\ Step(h, "drop"))
  BY DEF MarkFailed, MakeReady, Publish, Unpublish, SetStatus
<1>2. /\ status' \in AssetStatus
      /\ \A a \in Assets : status'[a] = "published" => status[a] = "published" \/ (a = c.asset /\ c.at = "publish")
  BY <1>0, <1>1
<1>3. ASSUME NEW a \in Fonts PROVE FontShows(a)'
  <2>1. FontShows(a) /\ a \in Assets /\ None # "published"
    BY LibraryAssumption DEF Base, Assets
  <2>2. Live(a)' /\ status'[a] = "published" => KeysOf(a, "specimen") # {}
    BY <1>0, <1>2, <2>1 DEF FontShows, Live, Showing
  <2> QED
    BY <1>0, <2>1, <2>2 DEF FontShows, KeysOf, Primaries
<1>4. PICK x \in Calls : call' = [call EXCEPT ![h] = x] /\ x.at \notin Drawn /\ Grounds(x) /\ Showing(x)
  <2>1. CASE End(h)
    BY <2>1, IdleGrounds DEF End
  <2>2. CASE c.at = "markFailed" /\ Step(h, "drop")
    <3> DEFINE y == [c EXCEPT !.at = "drop"]
    <3>1. "drop" \in Steps
      BY DEF Steps
    <3>2. call' = [call EXCEPT ![h] = y] /\ y \in Calls /\ y.at = "drop" /\ y.asset = c.asset /\ y.key = c.key
      BY <1>0, <2>2, <3>1, StepsTo
    <3> HIDE DEF y
    <3>3. Grounds(y) /\ Showing(y)
      BY <1>0, <2>2, <3>2 DEF Grounds, Showing
    <3> QED
      BY <3>2, <3>3
  <2> QED
    BY <1>1, <2>1, <2>2
<1>5. Typed'
  BY <1>0, <1>2, <1>4, TypedMove DEF Typed, LibraryTypeOK
<1>6. Grounds(x)'
  BY <1>0, <1>4 DEF Grounds
<1> QED
  BY <1>0, <1>3, <1>4, <1>5, <1>6, BaseStep

\* Details go only once their font is deleted.
LEMMA BaseDeletes ==
  ASSUME Base, NEW h \in Handlers, SoftDelete(h) \/ FreeFace(h)
  PROVE  Base'
<1> USE DEF Working, OfFonts, OfAudios, OfCovers, Drawn, OfAssets
<1> SUFFICES ASSUME NEW c, c = call[h] PROVE Base'
  OBVIOUS
<1>0. /\ c \in Calls /\ Typed /\ Grounds(c) /\ details \in FontDetails /\ deleted \subseteq Assets
      /\ UNCHANGED <<status, files, session, stored>>
  BY DEF Base, Typed, LibraryTypeOK, SoftDelete, FreeFace
<1>1. CASE SoftDelete(h)
  <2>1. /\ deleted' = deleted \cup {c.asset} /\ UNCHANGED details /\ c.at = "delete"
        /\ Step(h, "freeFace") \/ End(h)
    BY <1>1 DEF SoftDelete
  <2>2. c.asset \in Assets
    BY <1>0, <2>1 DEF Grounds
  <2>3. PICK x \in Calls : /\ call' = [call EXCEPT ![h] = x] /\ x.at \notin Drawn
                           /\ x = Idle \/ (x.at = "freeFace" /\ x.asset = c.asset)
    <3>1. CASE End(h)
      BY <3>1, IdleGrounds DEF End
    <3>2. CASE Step(h, "freeFace")
      <4> DEFINE y == [c EXCEPT !.at = "freeFace"]
      <4>1. "freeFace" \in Steps
        BY DEF Steps
      <4>2. call' = [call EXCEPT ![h] = y] /\ y \in Calls /\ y.at = "freeFace" /\ y.asset = c.asset
        BY <1>0, <3>2, <4>1, StepsTo
      <4> HIDE DEF y
      <4> QED
        BY <4>2
    <3> QED
      BY <2>1, <3>1, <3>2
  <2>4. Typed'
    BY <1>0, <2>1, <2>2, <2>3, TypedMove DEF Typed, LibraryTypeOK
  <2>5. ASSUME NEW a \in Fonts PROVE FontShows(a)'
    BY <1>0, <2>1 DEF Base, FontShows, Live, KeysOf, Primaries
  <2>6. Grounds(x)' /\ Showing(x)
    BY <2>1, <2>3 DEF Grounds, Showing, Idle
  <2> QED
    BY <1>0, <2>1, <2>3, <2>4, <2>5, <2>6, BaseStep
<1>2. CASE FreeFace(h)
  <2>1. /\ details' = [details EXCEPT ![c.asset] = None] /\ UNCHANGED deleted /\ End(h)
        /\ c.asset \in deleted
    BY <1>0, <1>2 DEF FreeFace, Grounds
  <2>2. details' \in FontDetails /\ \A a \in Fonts : a \notin deleted => details'[a] = details[a]
    BY <1>0, <2>1
  <2>3. ASSUME NEW a \in Fonts PROVE FontShows(a)'
    BY <1>0, <2>1, <2>2 DEF Base, FontShows, Live, KeysOf, Primaries
  <2>4. Typed'
    BY <1>0, <2>1, <2>2, IdleGrounds, TypedMove DEF Typed, LibraryTypeOK, End
  <2>5. Grounds(Idle)'
    BY DEF Grounds, Idle
  <2> QED
    BY <1>0, <2>1, <2>3, <2>4, <2>5, IdleGrounds, BaseStep DEF End
<1> QED
  BY <1>1, <1>2

\* A preview is drawn under a key no other request has.
LEMMA BaseDraws ==
  ASSUME Base, NEW h \in Handlers, Draw(h) \/ ReadPreviews(h)
  PROVE  Base'
<1> USE DEF Working, OfFonts, OfAudios, OfCovers, Drawn
<1> SUFFICES ASSUME NEW c, c = call[h] PROVE Base'
  OBVIOUS
<1>0. /\ c \in Calls /\ Typed /\ Rows /\ Showing(c) /\ \A g \in Handlers \ {h} : Private(c, call[g]) /\ Private(call[g], c)
      /\ stored \in [Keys -> Contents \cup {None}] /\ call \in [Handlers -> Calls]
      /\ UNCHANGED <<status, deleted, details, files, session>>
  BY DEF Base, Typed, LibraryTypeOK, Draw, ReadPreviews
<1>1. ASSUME NEW x \in Calls, call' = [call EXCEPT ![h] = x], x.at \in Drawn, Showing(x),
             stored' \in [Keys -> Contents \cup {None}],
             \A g \in Handlers \ {h} : Private(x, call[g]) /\ Private(call[g], x)
      PROVE  Base'
  <2>1. Typed'
    BY <1>0, <1>1, TypedMove DEF Typed, LibraryTypeOK
  <2>2. Rows' /\ \A a \in Fonts : FontShows(a)'
    BY <1>0 DEF Base, Rows, RowOf, FontShows, Live, KeysOf, Primaries
  <2>3. Extends
    BY <1>0 DEF Extends, KeysOf, Primaries
  <2>4. Grounds(x)' /\ Showing(x)'
    BY <1>0, <1>1 DEF Grounds, Showing, Catalogued, KeysOf, Primaries
  <2> QED
    BY <1>0, <1>1, <2>1, <2>2, <2>3, <2>4, BaseKeeps
<1>2. CASE Draw(h)
  <2>1. PICK p \in Previews : Fresh(p) /\ Store(p, "image") /\ call' = [call EXCEPT ![h].at = "readPreviews", ![h].got = p]
    <3>1. PICK p \in Previews : p = CHOOSE q \in Previews : Fresh(q)
      BY <1>2 DEF Draw
    <3>2. Fresh(p)
      BY <1>2, <3>1 DEF Draw
    <3> QED
      BY <1>2, <3>1, <3>2 DEF Draw
  <2> DEFINE y == [c EXCEPT !.at = "readPreviews", !.got = p]
  <2>2. call' = [call EXCEPT ![h] = y]
    BY <2>1
  <2>3. "readPreviews" \in Steps
    BY DEF Steps
  <2>4. y \in Calls /\ y.at = "readPreviews" /\ y.asset = c.asset /\ y.got = p
    BY <1>0, <2>3 DEF Calls
  <2> HIDE DEF y
  <2>5. c.at = "draw"
    BY <1>2 DEF Draw
  <2>6. Showing(y)
    BY <1>0, <2>1, <2>4, <2>5 DEF Showing, Fresh
  <2>7. stored' \in [Keys -> Contents \cup {None}]
    BY <1>0, <2>1 DEF Store, Contents
  <2>8. ASSUME NEW g \in Handlers \ {h} PROVE Private(y, call[g]) /\ Private(call[g], y)
    BY <2>1, <2>4 DEF Private, Fresh
  <2> QED
    BY <1>1, <2>2, <2>4, <2>6, <2>7, <2>8
<1>3. CASE ReadPreviews(h)
  <2>1. \A k \in KeysOf(c.asset, "specimen") : k \in Previews /\ Catalogued(k) /\ \A f \in files : f.key = k => f.asset = c.asset
    BY <1>0 DEF KeysOf, Rows, RowOf, Catalogued
  <2>2. c.at = "readPreviews" /\ UNCHANGED stored /\ call' = [call EXCEPT ![h].at = "swapPreview", ![h].old = KeysOf(c.asset, "specimen")]
    BY <1>3 DEF ReadPreviews
  <2> DEFINE y == [c EXCEPT !.at = "swapPreview", !.old = KeysOf(c.asset, "specimen")]
  <2>3. call' = [call EXCEPT ![h] = y]
    BY <2>2
  <2>4. "swapPreview" \in Steps /\ KeysOf(c.asset, "specimen") \subseteq Keys
    BY <2>1 DEF Steps, Keys
  <2>5. y \in Calls /\ y.at = "swapPreview" /\ y.asset = c.asset /\ y.got = c.got /\ y.old = KeysOf(c.asset, "specimen")
    BY <1>0, <2>4 DEF Calls
  <2> HIDE DEF y
  <2>6. Showing(y)
    BY <1>0, <2>1, <2>2, <2>5 DEF Showing
  <2>7. ASSUME NEW g \in Handlers \ {h} PROVE Private(y, call[g]) /\ Private(call[g], y)
    <3>1. Showing(call[g])
      BY DEF Base
    <3> QED
      BY <1>0, <2>1, <2>2, <2>5, <3>1 DEF Private, Showing
  <2> QED
    BY <1>0, <1>1, <2>2, <2>3, <2>5, <2>6, <2>7
<1> QED
  BY <1>2, <1>3

\* Steps of no request.
LEMMA BaseStays ==
  ASSUME Base, UNCHANGED <<call, files>>, Typed', Rows', \A a \in Fonts : FontShows(a)', Extends
  PROVE  Base'
<1>1. ASSUME NEW g \in Handlers, NEW d, d = call[g] PROVE Grounds(d)' /\ Showing(d)'
  BY <1>1, GroundsStay DEF Base, Typed
<1>2. ASSUME NEW g \in Handlers, NEW d, d = call'[g] PROVE Grounds(d)' /\ Showing(d)'
  BY <1>1, <1>2
<1>3. \A g \in Handlers : Grounds(call[g])' /\ Showing(call[g])'
  BY <1>2 DEF Grounds, Showing
<1>4. \A g, f \in Handlers : g # f => Private(call[g], call[f])'
  BY DEF Base, Private
<1> QED
  BY <1>3, <1>4 DEF Base

LEMMA BaseOpens ==
  ASSUME Base, NEW s \in Sessions, NEW a \in Assets,
         CreateTicket(s, a) \/ CreateVersionTicket(s, a) \/ CreateCoverTicket(s, a)
  PROVE  Base'
<1>0. /\ UNCHANGED <<deleted, details, files, stored, call>>
      /\ Typed /\ Rows /\ status \in AssetStatus /\ session \in SessionRows /\ None \notin Assets
  BY LibraryAssumption DEF Base, Typed, LibraryTypeOK, Assets, CreateTicket, CreateVersionTicket, CreateCoverTicket
<1>1. PICK role \in {"original", "thumbnail"} : Open(s, a, role)
  BY DEF CreateTicket, CreateVersionTicket, CreateCoverTicket
<1>2. UNCHANGED status \/ status' = [status EXCEPT ![a] = "draft"]
  BY DEF CreateTicket, CreateVersionTicket, CreateCoverTicket, SetStatus
<1>3. /\ status' \in AssetStatus
      /\ \A b \in Assets : status'[b] = "published" => status[b] = "published"
  BY <1>0, <1>2
<1>4. /\ session' \in SessionRows
      /\ session[s].asset = None /\ session'[s].asset = a /\ session'[s].role = role
      /\ \A t \in Sessions : t # s => session'[t] = session[t]
  BY <1>0, <1>1 DEF Open
<1>5. \A t \in Sessions : session[t].asset # None => session'[t] = session[t]
  BY <1>4
<1>6. Rows'
  <2>1. ASSUME NEW f \in files PROVE RowOf(f)'
    <3>1. RowOf(f) /\ f.asset \in Assets
      BY <1>0 DEF Rows, Typed, LibraryTypeOK
    <3> QED
      BY <1>0, <1>5, <3>1 DEF RowOf
  <2>2. \A t \in Sessions : session'[t].asset = None <=> session'[t].role = None
    BY <1>0, <1>4, LibraryAssumption DEF Rows
  <2> QED
    BY <1>0, <2>1, <2>2 DEF Rows
<1>7. ASSUME NEW b \in Fonts PROVE FontShows(b)'
  <2>1. FontShows(b) /\ b \in Assets /\ None # "published"
    BY LibraryAssumption DEF Base, Assets
  <2> QED
    BY <1>0, <1>3, <2>1 DEF FontShows, Live, KeysOf, Primaries
<1>8. Extends
  BY <1>0, <1>5 DEF Extends, KeysOf, Primaries
<1>9. Typed'
  BY <1>0, <1>3, <1>4 DEF Typed, LibraryTypeOK
<1> QED
  BY <1>0, <1>6, <1>7, <1>8, <1>9, BaseStays

\* An upload, or no step at all.
LEMMA BaseUploads ==
  ASSUME Base, UNCHANGED <<status, deleted, details, files, session, call>>,
         stored' \in [Keys -> Contents \cup {None}]
  PROVE  Base'
<1>1. Typed'
  BY DEF Base, Typed, LibraryTypeOK
<1>2. Rows' /\ \A a \in Fonts : FontShows(a)'
  BY DEF Base, Rows, RowOf, FontShows, Live, KeysOf, Primaries
<1>3. Extends
  BY DEF Extends, KeysOf, Primaries
<1> QED
  BY <1>1, <1>2, <1>3, BaseStays

-----------------------------------------------------------------------------
(* Rows, written while other finalizes cross *)

LEMMA Closing ==
  ASSUME session \in SessionRows, NEW k, session' = session \/ Finalized(k)
  PROVE  /\ session' \in SessionRows
         /\ \A s \in Sessions : session'[s].asset = session[s].asset /\ session'[s].role = session[s].role
<1>1. CASE session' = session
  BY <1>1
<1>2. CASE Finalized(k)
  BY <1>2 DEF Finalized
<1> QED
  BY <1>1, <1>2

\* The rows a step leaves are rows there were or the request's own.
LEMMA BaseWrites ==
  ASSUME Base, NEW h \in Handlers, NEW c, c = call[h],
         NEW step \in {"close", "ready", "draw", "deleteOld"}, Step(h, step),
         step \in {"close", "ready"} => c.at \in OfAudios,
         step = "draw" => c.asset \in Fonts /\ Primaries(c.asset)' # {},
         UNCHANGED <<deleted, stored>>, status' \in AssetStatus, details' \in FontDetails, files' \subseteq FileRows,
         session' = session \/ Finalized(c.key),
         \A f \in files' : \/ \E g \in files : g.key = f.key /\ g.asset = f.asset /\ g.role = f.role
                           \/ f.key \in Sessions /\ f.role # "specimen" /\ RowOf(f)
                           \/ c.at = "swapPreview" /\ f.key = c.got /\ f.asset = c.asset /\ f.role = "specimen",
         \A a \in Fonts : /\ Primaries(a) # {} => Primaries(a)' # {}
                          /\ KeysOf(a, "specimen") # {} => KeysOf(a, "specimen")' # {}
                          /\ Primaries(a)' # {} => Primaries(a) # {} \/ details'[a] # None
                          /\ details[a] # None => details'[a] # None
                          /\ status'[a] = "published" => status[a] = "published"
  PROVE  Base'
<1> USE DEF Working, OfFonts, OfAudios, OfCovers, Drawn
<1>0. /\ c \in Calls /\ Typed /\ Rows /\ Grounds(c) /\ Showing(c) /\ session \in SessionRows
      /\ deleted' \subseteq Assets /\ stored' \in [Keys -> Contents \cup {None}]
      /\ Sessions \cap Previews = {}
  BY LibraryAssumption DEF Base, Typed, LibraryTypeOK
<1>1. /\ session' \in SessionRows
      /\ \A s \in Sessions : session'[s].asset = session[s].asset /\ session'[s].role = session[s].role
  BY <1>0, Closing
<1> DEFINE y == [c EXCEPT !.at = step]
<1>2. step \in Steps
  BY DEF Steps
<1>3. /\ call' = [call EXCEPT ![h] = y] /\ y \in Calls
      /\ y.at = step /\ y.asset = c.asset /\ y.key = c.key
  BY <1>0, <1>2, StepsTo
<1> HIDE DEF y
<1> SUFFICES ASSUME NEW x, x = y PROVE Base'
  OBVIOUS
<1>4. Typed'
  BY <1>0, <1>1, <1>3, TypedMove
<1>5. ASSUME NEW f \in files' PROVE RowOf(f)'
  BY <1>0, <1>1, <1>5 DEF Rows, RowOf, Showing
<1>6. ASSUME NEW f \in files', NEW g \in files', f.key = g.key PROVE f.asset = g.asset
  <2>1. CASE c.at = "swapPreview" /\ f.key = c.got
    <3>1. \A e \in files : e.key # c.got
      BY <1>0, <2>1 DEF Showing, Catalogued
    <3>2. c.got \notin Sessions
      BY <1>0, <2>1 DEF Showing
    <3>3. ASSUME NEW e \in files', e.key = c.got PROVE e.asset = c.asset
      BY <3>1, <3>2, <3>3
    <3> QED
      BY <1>6, <2>1, <3>3
  <2>2. CASE ~(c.at = "swapPreview" /\ f.key = c.got)
    <3>1. ASSUME NEW e \in {f, g} PROVE \/ \E d \in files : d.key = e.key /\ d.asset = e.asset
                                        \/ e.key \in Sessions
      BY <1>6, <2>2
    <3>2. ASSUME NEW e \in {f, g}, e.key \in Sessions PROVE e.asset = session'[e.key].asset
      BY <1>0, <1>5, <3>2 DEF RowOf
    <3> QED
      BY <1>0, <1>6, <3>1, <3>2 DEF Rows
  <2> QED
    BY <2>1, <2>2
<1>7. Rows'
  BY <1>0, <1>1, <1>5, <1>6 DEF Rows
<1>8. ASSUME NEW a \in Fonts PROVE FontShows(a)'
  <2>1. FontShows(a) /\ a \in Assets /\ None # "published"
    BY LibraryAssumption DEF Base, Assets
  <2>2. ASSUME KeysOf(a, "specimen")' # {} PROVE Primaries(a)' # {}
    <3>1. PICK f \in files' : f.asset = a /\ f.role = "specimen"
      BY <2>2 DEF KeysOf
    <3>2. KeysOf(a, "specimen") # {} \/ (c.at = "swapPreview" /\ a = c.asset)
      BY <3>1 DEF KeysOf
    <3> QED
      BY <1>0, <2>1, <3>2 DEF FontShows, Showing
  <2>3. Primaries(a)' # {} => details'[a] # None \/ a \in deleted'
    BY <2>1 DEF FontShows
  <2>4. Live(a)' /\ status'[a] = "published" => KeysOf(a, "specimen")' # {}
    BY <2>1 DEF FontShows, Live
  <2> QED
    BY <2>2, <2>3, <2>4 DEF FontShows
<1>9. Extends
  BY <1>1 DEF Extends
<1>10. Grounds(x)' /\ Showing(x)'
  <2>1. Grounds(x)'
    BY <1>0, <1>1, <1>3 DEF Grounds
  <2>2. x.at = "draw" => x.asset \in Fonts /\ Primaries(x.asset)' # {}
    BY <1>3
  <2>3. Showing(x)'
    BY <1>3, <2>2 DEF Showing, Primaries
  <2> QED
    BY <2>1, <2>3
<1>11. \A g \in Handlers \ {h} : Private(x, call[g]) /\ Private(call[g], x)
  BY <1>3 DEF Private
<1>12. \A f \in files' : \/ \E g \in files : g.key = f.key /\ g.asset = f.asset
                         \/ f.key \in Sessions
                         \/ c.at = "swapPreview" /\ f.key = c.got
  OBVIOUS
<1>13. call' = [call EXCEPT ![h] = x] /\ x \in Calls
  BY <1>3
<1> QED
  BY ONLY Base, h \in Handlers, c = call[h], <1>4, <1>7, <1>8, <1>9, <1>10, <1>11, <1>12, <1>13, BaseKeeps

LEMMA BaseSounds ==
  ASSUME Base, NEW h \in Handlers, Catalogue(h) \/ Close(h)
  PROVE  Base'
<1> USE DEF OfAudios
<1> SUFFICES ASSUME NEW c, c = call[h] PROVE Base'
  OBVIOUS
<1>0. /\ c \in Calls /\ Typed /\ Grounds(c) /\ status \in AssetStatus /\ details \in FontDetails
      /\ files \subseteq FileRows /\ stored \in [Keys -> Contents \cup {None}]
      /\ UNCHANGED <<status, deleted, details, stored>> /\ c.at \in OfAudios
      /\ Audios \cap Fonts = {} /\ Sessions \subseteq Keys
  BY LibraryAssumption DEF Base, Typed, LibraryTypeOK, Catalogue, Close, Keys
<1>1. c.key \in Sessions /\ c.asset \in Assets /\ c.asset \in Audios /\ session[c.key].asset = c.asset /\ session[c.key].role = "original"
  BY <1>0 DEF Grounds, Working
<1>2. CASE Catalogue(h)
  <2>1. CASE End(h) /\ UNCHANGED files
    BY <1>0, <1>2, <2>1, BaseEnds DEF Catalogue
  <2>2. CASE ~(End(h) /\ UNCHANGED files)
    <3> SUFFICES ASSUME NEW row, row = Row(c.key, c.asset, "original", TRUE) PROVE Base'
      OBVIOUS
    <3>1. Step(h, "close") /\ files' = files \cup {row} /\ UNCHANGED session
      BY <1>2, <2>2 DEF Catalogue
    <3>2. row.key = c.key /\ row.asset = c.asset /\ row.role = "original" /\ row \in FileRows
      BY <1>0, <1>1 DEF Row
    <3>3. RowOf(row)
      BY <1>1, <3>2 DEF RowOf
    <3>4. ASSUME NEW a \in Fonts PROVE Primaries(a)' = Primaries(a) /\ KeysOf(a, "specimen")' = KeysOf(a, "specimen")
      <4>1. row.asset # a
        BY <1>0, <1>1, <3>2
      <4> QED
        BY <3>1, <4>1 DEF Primaries, KeysOf
    <3>5. files' \subseteq FileRows
      BY <1>0, <3>1, <3>2
    <3>6. \A f \in files' : \/ \E g \in files : g.key = f.key /\ g.asset = f.asset /\ g.role = f.role
                            \/ f.key \in Sessions /\ f.role # "specimen" /\ RowOf(f)
      BY <1>1, <3>1, <3>2, <3>3
    <3> QED
      BY <1>0, <3>1, <3>4, <3>5, <3>6, BaseWrites
  <2> QED
    BY <2>1, <2>2
<1>3. CASE Close(h)
  <2>1. Finalized(c.key) /\ Step(h, "ready") /\ UNCHANGED files
    BY <1>3 DEF Close
  <2>2. \A a \in Fonts : Primaries(a)' = Primaries(a) /\ KeysOf(a, "specimen")' = KeysOf(a, "specimen")
    BY <2>1 DEF Primaries, KeysOf
  <2> QED
    BY <1>0, <2>1, <2>2, BaseWrites
<1> QED
  BY <1>2, <1>3

\* A new font gets its details with its row, and one that has a file is left as it is.
LEMMA BaseFonts ==
  ASSUME Base, NEW h \in Handlers, AddFont(h) \/ AddVersion(h)
  PROVE  Base'
<1> USE DEF OfFonts
<1> SUFFICES ASSUME NEW c, c = call[h] PROVE Base'
  OBVIOUS
<1>0. /\ c \in Calls /\ Typed /\ Rows /\ Grounds(c) /\ Showing(c)
      /\ status \in AssetStatus /\ details \in FontDetails
      /\ files \subseteq FileRows /\ stored \in [Keys -> Contents \cup {None}]
      /\ UNCHANGED <<deleted, stored>> /\ c.at \in {"addFont", "addVersion"}
      /\ Sessions \subseteq Keys /\ Fonts \subseteq Assets
  BY LibraryAssumption DEF Base, Typed, LibraryTypeOK, AddFont, AddVersion, Keys, Assets
<1>1. c.key \in Sessions /\ c.asset \in Fonts /\ session[c.key].asset = c.asset /\ session[c.key].role = "original"
  BY <1>0 DEF Grounds, Working
<1> SUFFICES ASSUME NEW row, row = Row(c.key, c.asset, "original", TRUE) PROVE Base'
  OBVIOUS
<1>2. /\ row.key = c.key /\ row.asset = c.asset /\ row.role = "original" /\ row.primary /\ row \in FileRows
      /\ row.key \in Sessions /\ row.role # "specimen" /\ RowOf(row)
  BY <1>0, <1>1 DEF Row, RowOf
<1>3. CASE AddFont(h)
  <2>1. CASE Taken(c.got) \/ details[c.asset] # None \/ Catalogued(c.key)
    BY <1>0, <1>3, <2>1, BaseRefuses DEF AddFont, Refuse
  <2>2. CASE ~(Taken(c.got) \/ details[c.asset] # None \/ Catalogued(c.key))
    <3> SUFFICES ASSUME NEW new, new = [face |-> c.got, version |-> 1] PROVE Base'
      OBVIOUS
    <3>1. /\ details' = [details EXCEPT ![c.asset] = new] /\ files' = files \cup {row}
          /\ status' = [status EXCEPT ![c.asset] = "ready"] /\ Finalized(c.key) /\ Step(h, "draw")
      BY <1>3, <2>2 DEF AddFont, SetStatus
    <3>2. c.got \in Faces
      BY <1>0, <1>3 DEF Grounds, AddFont
    <3>3. new \in Details /\ new # None
      BY <3>2, LibraryAssumption DEF Details
    <3>4. /\ details' \in FontDetails /\ details'[c.asset] # None
          /\ \A a \in Fonts : a # c.asset => details'[a] = details[a]
      BY <1>0, <1>1, <3>1, <3>3 DEF Details
    <3>5. status' \in AssetStatus /\ \A a \in Fonts : status'[a] = "published" => status[a] = "published"
      BY <1>0, <3>1
    <3>6. files' \subseteq FileRows
      BY <1>0, <1>2, <3>1
    <3>7. \A f \in files' : \/ \E g \in files : g.key = f.key /\ g.asset = f.asset /\ g.role = f.role
                            \/ f.key \in Sessions /\ f.role # "specimen" /\ RowOf(f)
      BY <1>2, <3>1
    <3>8. ASSUME NEW a \in Fonts
          PROVE  /\ Primaries(a) # {} => Primaries(a)' # {}
                 /\ KeysOf(a, "specimen") # {} => KeysOf(a, "specimen")' # {}
                 /\ Primaries(a)' # {} => Primaries(a) # {} \/ details'[a] # None
                 /\ details[a] # None => details'[a] # None
      <4>1. Primaries(a) \subseteq Primaries(a)'
        BY <3>1 DEF Primaries
      <4>2. KeysOf(a, "specimen") \subseteq KeysOf(a, "specimen")'
        BY <3>1 DEF KeysOf
      <4>3. a # c.asset => Primaries(a)' \subseteq Primaries(a)
        BY <1>2, <3>1 DEF Primaries
      <4> QED
        BY <3>4, <4>1, <4>2, <4>3
    <3>9. row \in Primaries(c.asset)'
      BY <1>2, <3>1 DEF Primaries
    <3> QED
      BY <1>0, <1>1, <3>1, <3>4, <3>5, <3>6, <3>7, <3>8, <3>9, BaseWrites
  <2> QED
    BY <2>1, <2>2
<1>4. CASE AddVersion(h)
  <2>1. CASE Catalogued(c.key) \/ details[c.asset] = None
    BY <1>0, <1>4, <2>1, BaseEnds DEF AddVersion
  <2>2. CASE ~(Catalogued(c.key) \/ details[c.asset] = None)
    <3> SUFFICES ASSUME NEW new, new = [details[c.asset] EXCEPT !.version = c.seen.version + 1] PROVE Base'
      OBVIOUS
    <3>1. /\ files' = Demoted(c.old) \cup {row} /\ details' = [details EXCEPT ![c.asset] = new]
          /\ UNCHANGED status /\ Finalized(c.key) /\ Step(h, "draw") /\ c.at = "addVersion"
          /\ c.seen.version < MaxVersion
      BY <1>0, <1>1, <1>4, <2>2 DEF AddVersion
    <3>2. c.seen \in Details /\ details[c.asset] \in Details
      BY <1>0, <1>1, <2>2, <3>1 DEF Calls, Grounds, Details
    <3>3. new \in Details /\ new # None
      BY <3>1, <3>2, LibraryAssumption DEF Details
    <3>4. /\ details' \in FontDetails /\ details'[c.asset] # None
          /\ \A a \in Fonts : a # c.asset => details'[a] = details[a]
      BY <1>0, <1>1, <3>1, <3>3 DEF Details
    <3>5. /\ Demoted(c.old) \subseteq FileRows
          /\ \A f \in Demoted(c.old) : \E g \in files :
               /\ g.key = f.key /\ g.asset = f.asset /\ g.role = f.role
               /\ (g.key \notin c.old => f = g) /\ (g.key \in c.old => ~f.primary)
          /\ \A g \in files : /\ g.key \notin c.old => g \in Demoted(c.old)
                              /\ \E f \in Demoted(c.old) : f.key = g.key /\ f.asset = g.asset /\ f.role = g.role
      BY <1>0, DemotedRows
    <3>6. files' \subseteq FileRows
      BY <1>2, <3>1, <3>5
    <3>7. \A f \in files' : \/ \E g \in files : g.key = f.key /\ g.asset = f.asset /\ g.role = f.role
                            \/ f.key \in Sessions /\ f.role # "specimen" /\ RowOf(f)
      <4>1. ASSUME NEW f \in Demoted(c.old) PROVE \E g \in files : g.key = f.key /\ g.asset = f.asset /\ g.role = f.role
        <5>1. PICK g \in files : g.key = f.key /\ g.asset = f.asset /\ g.role = f.role
          BY <3>5
        <5> QED
          BY <5>1
      <4> QED
        BY <1>2, <3>1, <4>1
    <3>8. row \in Primaries(c.asset)'
      BY <1>2, <3>1 DEF Primaries
    <3>9. ASSUME NEW a \in Fonts
          PROVE  /\ Primaries(a) # {} => Primaries(a)' # {}
                 /\ KeysOf(a, "specimen") # {} => KeysOf(a, "specimen")' # {}
                 /\ Primaries(a)' # {} => Primaries(a) # {} \/ details'[a] # None
                 /\ details[a] # None => details'[a] # None
      <4>1. ASSUME NEW g \in Primaries(a), a # c.asset PROVE g \in Primaries(a)'
        <5>1. g \in files /\ g.asset = a /\ g.role = "original" /\ g.primary
          BY DEF Primaries
        <5>2. g.key \in Sessions /\ session[g.key].asset = a
          BY <1>0, <5>1 DEF Rows, RowOf
        <5>3. g.key \notin c.old
          BY <1>0, <3>1, <4>1, <5>2 DEF Showing
        <5> QED
          BY <3>1, <3>5, <5>1, <5>3 DEF Primaries
      <4>2. ASSUME NEW g \in files, g.asset = a, g.role = "specimen" PROVE KeysOf(a, "specimen")' # {}
        <5>1. PICK f \in Demoted(c.old) : f.asset = g.asset /\ f.role = g.role
          BY <3>5
        <5> QED
          BY <3>1, <4>2, <5>1 DEF KeysOf
      <4>3. ASSUME NEW f \in Primaries(a)', a # c.asset PROVE f \in Primaries(a)
        <5>1. f \in Demoted(c.old) /\ f.asset = a /\ f.role = "original" /\ f.primary
          BY <1>2, <3>1, <4>3 DEF Primaries
        <5>2. PICK g \in files : (g.key \notin c.old => f = g) /\ (g.key \in c.old => ~f.primary)
          BY <3>5, <5>1
        <5> QED
          BY <5>1, <5>2 DEF Primaries
      <4>4. KeysOf(a, "specimen") # {} => KeysOf(a, "specimen")' # {}
        BY <4>2 DEF KeysOf
      <4> QED
        BY <3>4, <3>8, <4>1, <4>3, <4>4
    <3>10. status' \in AssetStatus /\ \A a \in Fonts : status'[a] = status[a]
      BY <1>0, <3>1
    <3> QED
      BY <1>0, <1>1, <3>1, <3>4, <3>6, <3>7, <3>8, <3>9, <3>10, BaseWrites
  <2> QED
    BY <2>1, <2>2
<1> QED
  BY <1>3, <1>4

\* A swap puts a preview in the place of others of its font, and touches no other.
LEMMA BaseSwaps ==
  ASSUME Base, NEW h \in Handlers, SwapPreview(h) \/ SwapCover(h) \/ RemoveCoverRows(h)
  PROVE  Base'
<1> USE DEF OfCovers, Drawn
<1> SUFFICES ASSUME NEW c, c = call[h] PROVE Base'
  OBVIOUS
<1>0. /\ c \in Calls /\ Typed /\ Rows /\ Grounds(c) /\ Showing(c)
      /\ status \in AssetStatus /\ details \in FontDetails
      /\ files \subseteq FileRows /\ stored \in [Keys -> Contents \cup {None}]
      /\ UNCHANGED <<status, deleted, details, stored>>
      /\ Keys = Sessions \cup Previews /\ Sessions \cap Previews = {} /\ Fonts \subseteq Assets
  BY LibraryAssumption DEF Base, Typed, LibraryTypeOK, SwapPreview, SwapCover, RemoveCoverRows, Keys, Assets
<1>1. ASSUME Step(h, "deleteOld"), session' = session \/ Finalized(c.key), files' \subseteq FileRows,
             \A f \in files : f.key \notin c.old => f \in files',
             \A f \in files' : \/ f \in files
                               \/ f.key \in Sessions /\ f.role = "thumbnail" /\ RowOf(f)
                               \/ c.at = "swapPreview" /\ f.key = c.got /\ f.asset = c.asset /\ f.role = "specimen",
             \/ \A k \in c.old : k \in Sessions /\ session[k].role = "thumbnail"
             \/ /\ c.at = "swapPreview" /\ c.old \subseteq Previews
                /\ \E f \in files' : f.asset = c.asset /\ f.role = "specimen"
      PROVE  Base'
  <2>1. ASSUME NEW g \in files, g.role = "original" PROVE g \in files'
    BY <1>0, <1>1, <2>1 DEF Rows, RowOf
  <2>2. ASSUME NEW g \in files, g.role = "specimen" PROVE \E f \in files' : f.asset = g.asset /\ f.role = "specimen"
    <3>1. RowOf(g)
      BY <1>0 DEF Rows
    <3>2. CASE g.key \in c.old
      BY <1>0, <1>1, <2>2, <3>1, <3>2 DEF RowOf, Showing
    <3>3. CASE g.key \notin c.old
      BY <1>1, <2>2, <3>3
    <3> QED
      BY <3>2, <3>3
  <2>3. ASSUME NEW a \in Fonts
        PROVE  /\ Primaries(a)' = Primaries(a)
               /\ KeysOf(a, "specimen") # {} => KeysOf(a, "specimen")' # {}
    <3>1. \A f : f.role = "original" => (f \in files <=> f \in files')
      BY <1>1, <2>1
    <3>2. Primaries(a)' = Primaries(a)
      BY <3>1 DEF Primaries
    <3>3. KeysOf(a, "specimen") # {} => KeysOf(a, "specimen")' # {}
      BY <2>2 DEF KeysOf
    <3> QED
      BY <3>2, <3>3
  <2>4. \A f \in files' : \/ \E g \in files : g.key = f.key /\ g.asset = f.asset /\ g.role = f.role
                          \/ f.key \in Sessions /\ f.role # "specimen" /\ RowOf(f)
                          \/ c.at = "swapPreview" /\ f.key = c.got /\ f.asset = c.asset /\ f.role = "specimen"
    BY <1>1
  <2> QED
    BY <1>0, <1>1, <2>3, <2>4, BaseWrites
<1>2. CASE SwapPreview(h)
  <2> SUFFICES ASSUME NEW row, row = Row(c.got, c.asset, "specimen", FALSE) PROVE Base'
    OBVIOUS
  <2>1. /\ files' = {f \in files : f.key \notin c.old} \cup {row}
        /\ Step(h, "deleteOld") /\ UNCHANGED session /\ c.at = "swapPreview"
    BY <1>2 DEF SwapPreview, Swapped
  <2>2. c.got \in Previews /\ c.asset \in Assets /\ c.old \subseteq Previews
    BY <1>0, <2>1 DEF Showing
  <2>3. row.key = c.got /\ row.asset = c.asset /\ row.role = "specimen" /\ row \in FileRows
    BY <1>0, <2>2 DEF Row
  <2>4. files' \subseteq FileRows /\ row \in files'
    BY <1>0, <2>1, <2>3
  <2> QED
    BY <1>1, <2>1, <2>2, <2>3, <2>4
<1>3. CASE SwapCover(h)
  <2>1. CASE \E f \in files : f.key = c.key /\ f.key \notin c.old
    BY <1>0, <1>3, <2>1, BaseEnds DEF SwapCover
  <2>2. CASE ~\E f \in files : f.key = c.key /\ f.key \notin c.old
    <3> SUFFICES ASSUME NEW row, row = Row(c.key, c.asset, "thumbnail", FALSE) PROVE Base'
      OBVIOUS
    <3>1. /\ files' = {f \in files : f.key \notin c.old} \cup {row}
          /\ Step(h, "deleteOld") /\ Finalized(c.key) /\ c.at = "swapCover"
      BY <1>3, <2>2 DEF SwapCover, Swapped
    <3>2. /\ c.key \in Sessions /\ c.asset \in Assets /\ session[c.key].asset = c.asset
          /\ session[c.key].role = "thumbnail"
          /\ \A k \in c.old : k \in Sessions /\ session[k].role = "thumbnail"
      BY <1>0, <3>1 DEF Grounds, Showing, Working
    <3>3. row.key = c.key /\ row.asset = c.asset /\ row.role = "thumbnail" /\ row \in FileRows /\ RowOf(row)
      BY <1>0, <3>2 DEF Row, RowOf
    <3>4. files' \subseteq FileRows
      BY <1>0, <3>1, <3>3
    <3> QED
      BY <1>1, <3>1, <3>2, <3>3, <3>4
  <2> QED
    BY <2>1, <2>2
<1>4. CASE RemoveCoverRows(h)
  <2>1. /\ files' = {f \in files : f.key \notin c.old}
        /\ Step(h, "deleteOld") /\ UNCHANGED session /\ c.at = "removeCover"
    BY <1>4 DEF RemoveCoverRows
  <2>2. \A k \in c.old : k \in Sessions /\ session[k].role = "thumbnail"
    BY <1>0, <2>1 DEF Showing
  <2> QED
    BY <1>0, <1>1, <2>1, <2>2
<1> QED
  BY <1>2, <1>3, <1>4

LEMMA BaseInit ==
  ASSUME LibraryInit
  PROVE  Base
<1>1. IInv
  BY InitOK
<1>2. Rows
  BY <1>1 DEF LibraryInit, Rows, IInv, SessionsOK
<1>3. \A a \in Fonts : FontShows(a)
  BY LibraryAssumption DEF Assets, LibraryInit, FontShows, Live, KeysOf, Primaries
<1>4. \A h \in Handlers : call[h] = Idle
  BY DEF LibraryInit
<1>5. \A g, h \in Handlers : Private(call[g], call[h])
  BY <1>4, IdleGrounds DEF Private
<1> QED
  BY <1>1, <1>2, <1>3, <1>4, <1>5, IdleGrounds DEF Base, IInv

LEMMA BaseNext ==
  ASSUME Base, [LibraryNext]_vars
  PROVE  Base'
<1>0. stored \in [Keys -> Contents \cup {None}]
  BY DEF Base, Typed, LibraryTypeOK
<1>1. CASE UNCHANGED vars
  BY <1>0, <1>1, BaseUploads DEF vars
<1>2. ASSUME NEW s \in Sessions, NEW a \in Assets,
             CreateTicket(s, a) \/ CreateVersionTicket(s, a) \/ CreateCoverTicket(s, a)
      PROVE  Base'
  BY <1>2, BaseOpens
<1>3. ASSUME NEW s \in Sessions, NEW content \in Contents, Upload(s, content) PROVE Base'
  BY <1>0, <1>3, BaseUploads DEF Upload, Store
<1>4. ASSUME NEW h \in Handlers, FinalizeStep(h) PROVE Base'
  BY <1>4, BaseVerifies, BaseStatus, BaseCloses, BaseSounds, BaseFonts, BaseSwaps DEF FinalizeStep
<1>5. ASSUME NEW h \in Handlers, PreviewStep(h) PROVE Base'
  BY <1>5, BaseLoads, BaseDraws, BaseCloses, BaseSwaps DEF PreviewStep
<1>6. ASSUME NEW h \in Handlers, AssetStep(h) PROVE Base'
  BY <1>6, BaseLoads, BaseStatus, BaseDeletes, BaseCloses, BaseSwaps DEF AssetStep
<1>7. ASSUME NEW h \in Handlers, Cut(h) PROVE Base'
  BY <1>7, BaseCloses
<1> QED
  BY <1>1, <1>2, <1>3, <1>4, <1>5, <1>6, <1>7 DEF LibraryNext

\* Base holds of every run, whatever finalizes cross or are repeated.
THEOREM BaseHolds ==
  LibrarySpec => []Base
<1>1. LibraryInit => Base
  BY BaseInit
<1>2. Base /\ [LibraryNext]_vars => Base'
  BY BaseNext
<1> QED
  BY <1>1, <1>2, PTL DEF LibrarySpec

-----------------------------------------------------------------------------
(* What it shows *)

\* Every row, object and request has its type, and no asset waits in "processing"
\* for a processor that never runs (ingest.service.ts, processors.ts).
THEOREM TypeCorrect ==
  LibrarySpec => []LibraryTypeOK
<1>1. Base => LibraryTypeOK
  BY DEF Base, Typed
<1> QED
  BY <1>1, BaseHolds, PTL

\* A published font has a preview, a current file and its details, however its
\* uploads, edits, redraws and deletions cross and whatever of them is cut short
\* (asset.service.ts, publish; fonts.service.ts).
THEOREM FontsShowThroughout ==
  LibrarySpec => []PublishedFontsShow
<1>1. ASSUME Base, NEW a \in Fonts, Live(a), status[a] = "published"
      PROVE  KeysOf(a, "specimen") # {} /\ Primaries(a) # {} /\ details[a] # None
  BY <1>1 DEF Base, FontShows, Live
<1>2. Base => PublishedFontsShow
  BY <1>1 DEF PublishedFontsShow
<1> QED
  BY <1>2, BaseHolds, PTL

\* A refusal, a swap and a removal delete only objects no row has, whatever else
\* is being catalogued meanwhile, where no file's finalize is sent while one of it
\* is in progress.
THEOREM StoredThroughout ==
  ASSUME Dashboard
  PROVE  LibrarySpec => []FilesAreStored
<1>1. IInv => FilesAreStored
  BY DEF IInv, Sound, SoundRow, FilesAreStored
<1> QED
  BY <1>1, InvariantHolds, PTL

\* Besides MarkFailed no step writes a status of "failed".
LEMMA OthersSpare ==
  ASSUME IInv, LibraryNext, NEW a \in Assets, status[a] # "failed", status'[a] = "failed"
  PROVE  \E h \in Handlers : MarkFailed(h)
<1> SUFFICES ASSUME \A h \in Handlers : ~MarkFailed(h) PROVE FALSE
  OBVIOUS
<1>1. \/ UNCHANGED status
      \/ \E b \in Assets \cup {None} : \E new \in {"draft", "ready", "published"} :
           status' = [status EXCEPT ![b] = new]
  <2>1. \A h \in Handlers : call[h].asset \in Assets \cup {None}
    BY DEF IInv, Typed, LibraryTypeOK
  <2>2. ASSUME NEW s \in Sessions, NEW b \in Assets,
               CreateTicket(s, b) \/ CreateVersionTicket(s, b) \/ CreateCoverTicket(s, b)
        PROVE  UNCHANGED status \/ status' = [status EXCEPT ![b] = "draft"]
    BY <2>2 DEF CreateTicket, CreateVersionTicket, CreateCoverTicket, SetStatus
  <2>3. ASSUME NEW s \in Sessions, NEW content \in Contents, Upload(s, content) PROVE UNCHANGED status
    BY <2>3 DEF Upload
  <2>4. ASSUME NEW h \in Handlers, FinalizeStep(h)
        PROVE  UNCHANGED status \/ status' = [status EXCEPT ![call[h].asset] = "ready"]
    BY <2>4 DEF FinalizeStep, Finalize, ReadDetails, Verify, VerifyFails, VerifyRefuses, Drop,
      Catalogue, Close,
                MakeReady, CheckFace, AddFont, ReadOriginals, AddVersion, ReadCovers, SwapCover, SetStatus
  <2>5. ASSUME NEW h \in Handlers, PreviewStep(h) PROVE UNCHANGED status
    BY <2>5 DEF PreviewStep, RefreshPreview, Draw, DrawFails, ReadPreviews, SwapPreview
  <2>6. ASSUME NEW h \in Handlers, AssetStep(h)
        PROVE  \/ UNCHANGED status
               \/ \E new \in {"ready", "published"} : status' = [status EXCEPT ![call[h].asset] = new]
    BY <2>6 DEF AssetStep, LoadToPublish, LoadToUnpublish, LoadToDelete, RemoveCover, Publish, Unpublish,
                SoftDelete, FreeFace, RemoveCoverRows, DeleteOld, SetStatus
  <2>7. ASSUME NEW h \in Handlers, Cut(h) PROVE UNCHANGED status
    BY <2>7 DEF Cut
  <2> QED
    BY <2>1, <2>2, <2>3, <2>4, <2>5, <2>6, <2>7 DEF LibraryNext
<1>2. status \in AssetStatus
  BY DEF IInv, Typed, LibraryTypeOK
<1> QED
  BY <1>1, <1>2

\* A finalize that fails late, or fails on a cover or a version, takes down
\* nothing that has its file (ingest.service.ts, markFailed), where no file's
\* finalize is sent while one of it is in progress.
THEOREM FailuresSpare ==
  ASSUME Dashboard
  PROVE  LibrarySpec => FailureSpares
<1>1. ASSUME IInv, [LibraryNext]_vars, NEW a \in Assets, Live(a), Finished(a), status[a] # "failed",
             status'[a] = "failed"
      PROVE  FALSE
  <2>1. LibraryNext
    BY <1>1 DEF vars
  <2>2. PICK h \in Handlers : MarkFailed(h)
    BY <1>1, <2>1, OthersSpare
  <2> SUFFICES ASSUME NEW c, c = call[h] PROVE FALSE
    OBVIOUS
  <2>3. c.at = "markFailed" /\ status' = [status EXCEPT ![c.asset] = "failed"]
    BY <2>2 DEF MarkFailed, SetStatus
  <2>4. a = c.asset
    BY <1>1, <2>1, <2>3 DEF IInv, Typed, LibraryTypeOK
  <2>5. OwnUpload(c) /\ SawDetails(c) /\ HasDetails(a) /\ SessionsOK /\ a \notin deleted
    BY <1>1 DEF IInv, Local, Live
  <2>6. c.key \in Sessions /\ IsOriginal(c.key, a) /\ c.seen = None /\ session[c.key].state # "finalized"
    BY <2>3, <2>4, <2>5 DEF OwnUpload, Working
  <2>7. CASE a \in Audios
    <3>1. PICK s \in Sessions : session[s] = [asset |-> a, role |-> "original", state |-> "finalized"]
      BY <1>1 DEF Finished
    <3>2. IsOriginal(s, a) /\ session[s].state = "finalized"
      BY <3>1 DEF IsOriginal
    <3> QED
      BY <2>5, <2>6, <2>7, <3>2 DEF SessionsOK
  <2>8. CASE a \in Fonts
    BY <1>1, <2>3, <2>4, <2>5, <2>6, <2>8 DEF SawDetails, HasDetails
  <2> QED
    BY <2>7, <2>8 DEF Assets
<1>2. IInv /\ [LibraryNext]_vars =>
        [\A a \in Assets : Live(a) /\ Finished(a) /\ status[a] # "failed" => status'[a] # "failed"]_vars
  BY <1>1
<1> QED
  BY <1>2, InvariantHolds, PTL DEF LibrarySpec, FailureSpares
=============================================================================
