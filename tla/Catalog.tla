------------------------------- MODULE Catalog -------------------------------
(***************************************************************************)
(* What the app sees of one kind of asset (src/src/modules/catalog,        *)
(* taxonomy, core/cache): pages kept in Redis under a generation, which    *)
(* administrators bump after each change of an asset or a category, "so    *)
(* edits show at once".  A change is a commit and then a bump; a read is   *)
(* the generation, the page under it, and on a miss one query after        *)
(* another and the store.  All of these interleave.                        *)
(*                                                                         *)
(* `history' holds every content the database has had, the last one being  *)
(* its content now: the properties compare pages with it.  Names, order    *)
(* and paging are left out: a page is a set.                               *)
(***************************************************************************)
EXTENDS FiniteSets, Sequences, Naturals, SequencesExt, Absent

CONSTANTS Items, Categories,
          Root,          \* the category whose slug the app asks for
          Admins, Apps,  \* requests of either side in progress at once
          Starts,        \* contents the database may start with
          MaxEdits       \* bound: committed changes

VARIABLES
  history,     \* contents of the database, oldest first
  generation,  \* Redis: cache:gen:catalog:<kind>
  cache,       \* Redis: the pages, each under its generation
  edit,        \* each administrator's request
  read,        \* each app's request
  settled      \* how many of the contents the last bump came after

catalogVars == <<history, generation, cache, edit, read, settled>>

\* What the app asks for: the tree, all items, or those of a category.
Asked == {[list |-> "tree", category |-> Root], [list |-> "items", category |-> None]}
           \cup [list : {"items", "fonts"}, category : Categories]

NoEdit == [at |-> "idle", category |-> None]

NoRead == [at |-> "idle", asked |-> None, since |-> 1, gen |-> None, under |-> {}, page |-> {}]

\* The rows of the two tables: which categories there are, which are hidden, what
\* each hangs under, what each item is filed under, and which are published.
Tables == [categories : SUBSET Categories, hidden : SUBSET Categories,
           parent : [Categories -> Categories \cup {None}],
           filed : [Items -> Categories \cup {None}], published : SUBSET Items]

ASSUME CatalogAssumption ==
  Starts \subseteq Tables /\ Root \in Categories /\ IsFiniteSet(Admins) /\ MaxEdits \in Nat

CatalogInit ==
  /\ \E content \in Starts : history = <<content>>
  /\ generation = 0
  /\ cache = {}
  /\ edit = [e \in Admins |-> NoEdit]
  /\ read = [r \in Apps |-> NoRead]
  /\ settled = 1

-----------------------------------------------------------------------------

Db == Last(history)

Shown(db) == db.categories \ db.hidden

\* A walk up from c to top, or to a root, over the categories that are shown.
ShownUnder(db, top) ==
  {c \in Shown(db) : \E path \in SeqOf(Shown(db), Cardinality(Categories)) :
     /\ path # <<>> /\ path[1] = top /\ Last(path) = c
     /\ \A n \in 1 .. Len(path) - 1 : db.parent[path[n + 1]] = path[n]}

\* The categories whose items a list holds; fonts are listed by category alone.
Under(db, asked) ==
  IF asked.category = None THEN Categories \cup {None}
  ELSE IF asked.list = "fonts" THEN {asked.category} ELSE ShownUnder(db, asked.category)

Listed(db, under) == {i \in Items : i \in db.published /\ db.filed[i] \in under}

\* The tree asks for a root.
Exists(db, asked) ==
  asked.category # None =>
    asked.category \in Shown(db) /\ (asked.list = "tree" => db.parent[asked.category] = None)

-----------------------------------------------------------------------------
\* Administrators.  Each ends with its bump.

\* The request of e commits the content db.
Commit(e, db) ==
  /\ Len(history) <= MaxEdits
  /\ history' = Append(history, db)
  /\ edit' = [edit EXCEPT ![e] = [at |-> "bump", category |-> None]]
  /\ UNCHANGED <<generation, cache, read, settled>>

\* A parent gone since it was checked breaks the foreign key.
CreateCategory(e, c, parent) ==
  /\ edit[e] = NoEdit
  /\ c \notin Db.categories /\ parent \in Db.categories \cup {None}
  /\ Commit(e, [Db EXCEPT !.categories = @ \cup {c}, !.parent[c] = parent])

ShowOrHide(e, c) ==
  /\ edit[e] = NoEdit
  /\ c \in Db.categories
  /\ Commit(e, [Db EXCEPT !.hidden = IF c \in @ THEN @ \ {c} ELSE @ \cup {c}])

\* Removal checks children, then assets, then deletes; the foreign keys of what
\* was added since are set to null.
CheckChildren(e, c) ==
  /\ edit[e] = NoEdit
  /\ c \in Db.categories
  /\ \A d \in Db.categories : Db.parent[d] # c
  /\ edit' = [edit EXCEPT ![e].at = "checkItems", ![e].category = c]
  /\ UNCHANGED <<history, generation, cache, read, settled>>

CheckItems(e) ==
  /\ edit[e].at = "checkItems"
  /\ IF \E i \in Items : Db.filed[i] = edit[e].category
     THEN edit' = [edit EXCEPT ![e] = NoEdit]
     ELSE edit' = [edit EXCEPT ![e].at = "remove"]
  /\ UNCHANGED <<history, generation, cache, read, settled>>

RemoveCategory(e) ==
  /\ edit[e].at = "remove"
  /\ LET c == edit[e].category
         Cleared(f) == [x \in DOMAIN f |-> IF f[x] = c THEN None ELSE f[x]] IN
     /\ c \in Db.categories
     /\ Commit(e, [Db EXCEPT !.categories = @ \ {c}, !.hidden = @ \ {c},
                             !.parent = [Cleared(@) EXCEPT ![c] = None], !.filed = Cleared(@)])

File(e, i, c) ==
  /\ edit[e] = NoEdit
  /\ c \in Db.categories \cup {None} /\ Db.filed[i] # c
  /\ Commit(e, [Db EXCEPT !.filed[i] = c])

\* Publish or unpublish, as Library has them.
Publication(e, i) ==
  /\ edit[e] = NoEdit
  /\ Commit(e, [Db EXCEPT !.published = IF i \in @ THEN @ \ {i} ELSE @ \cup {i}])

\* Mutant: bumps twice.
BumpTwice(e) ==
  /\ edit[e].at = "bump"
  /\ generation' = generation + 2
  /\ settled' = Len(history)
  /\ edit' = [edit EXCEPT ![e] = NoEdit]
  /\ UNCHANGED <<history, cache, read>>

Bump(e) ==
  /\ edit[e].at = "bump"
  /\ generation' = generation + 1
  /\ settled' = Len(history)
  /\ edit' = [edit EXCEPT ![e] = NoEdit]
  /\ UNCHANGED <<history, cache, read>>

\* Redis does not answer, a check refuses, or the process dies: nothing is
\* settled, and pages may be stale until they expire.
EditEnds(e) ==
  /\ edit[e] # NoEdit
  /\ edit' = [edit EXCEPT ![e] = NoEdit]
  /\ UNCHANGED <<history, generation, cache, read, settled>>

-----------------------------------------------------------------------------
\* Apps: CacheService.wrap around a query.

Go(r, step) == read' = [read EXCEPT ![r].at = step]

Serve(r, page) == read' = [read EXCEPT ![r].at = "served", ![r].page = page, ![r].gen = None, ![r].under = {}]

\* buildKey reads the generation; on an outage the page is loaded and not kept.
Ask(r, asked) ==
  /\ read[r].at = "idle"
  /\ \E gen \in {generation, None} :
       read' = [read EXCEPT ![r] = [NoRead EXCEPT !.at = IF gen = None THEN "load" ELSE "lookUp",
                                                  !.asked = asked, !.since = settled, !.gen = gen]]
  /\ UNCHANGED <<history, generation, cache, edit, settled>>

Hit(r, entry) == entry.gen = read[r].gen /\ entry.asked = read[r].asked

\* A page may have expired, or been evicted, when it is looked up.
LookUp(r) ==
  /\ read[r].at = "lookUp"
  /\ \/ \E entry \in cache : Hit(r, entry) /\ Serve(r, entry.page)
     \/ Go(r, "load")
  /\ UNCHANGED <<history, generation, cache, edit, settled>>

\* The categories first, then the items: two queries.  404 is not kept.
LoadCategories(r) ==
  /\ read[r].at = "load"
  /\ LET asked == read[r].asked IN
     IF ~Exists(Db, asked) THEN read' = [read EXCEPT ![r] = NoRead]
     ELSE IF asked.list = "tree"
          THEN read' = [read EXCEPT ![r].at = "store", ![r].page = ShownUnder(Db, Root) \ {Root}]
          ELSE read' = [read EXCEPT ![r].at = "loadItems", ![r].under = Under(Db, asked)]
  /\ UNCHANGED <<history, generation, cache, edit, settled>>

LoadItems(r) ==
  /\ read[r].at = "loadItems"
  /\ read' = [read EXCEPT ![r].at = "store", ![r].page = Listed(Db, read[r].under)]
  /\ UNCHANGED <<history, generation, cache, edit, settled>>

\* Mutant: the key is built when the page is stored.
EntryNow(r, gen) == [gen |-> generation, asked |-> read[r].asked, page |-> read[r].page]

Entry(r, gen) == [gen |-> gen, asked |-> read[r].asked, page |-> read[r].page]

\* Kept under the generation read before the load; a failed write is ignored.
Keep(r) ==
  /\ read[r].at = "store"
  /\ LET kept == {entry \in cache : ~Hit(r, entry)} \cup {Entry(r, read[r].gen)} IN
     cache' = IF read[r].gen = None THEN cache ELSE kept
  /\ Serve(r, read[r].page)
  /\ UNCHANGED <<history, generation, edit, settled>>

Fetched(r) ==
  /\ read[r].at \in {"served", "store"}
  /\ read' = [read EXCEPT ![r] = NoRead]
  /\ UNCHANGED <<history, generation, cache, edit, settled>>

AdminStep(e) ==
  \/ \E c \in Categories, parent \in Categories \cup {None} : CreateCategory(e, c, parent)
  \/ \E c \in Categories : ShowOrHide(e, c) \/ CheckChildren(e, c)
  \/ \E i \in Items, c \in Categories \cup {None} : File(e, i, c)
  \/ \E i \in Items : Publication(e, i)
  \/ CheckItems(e) \/ RemoveCategory(e) \/ Bump(e) \/ EditEnds(e)

AppStep(r) ==
  \/ \E asked \in Asked : Ask(r, asked)
  \/ LookUp(r) \/ LoadCategories(r) \/ LoadItems(r) \/ Keep(r) \/ Fetched(r)

CatalogNext ==
  \/ \E e \in Admins : AdminStep(e)
  \/ \E r \in Apps : AppStep(r)

CatalogSpec == CatalogInit /\ [][CatalogNext]_catalogVars

-----------------------------------------------------------------------------
\* Properties.

\* Types, and one generation to a committed change.
CatalogTypeOK ==
  /\ history # <<>> /\ Len(history) <= MaxEdits + 1
  /\ generation \in 0 .. MaxEdits
  /\ settled \in 1 .. Len(history)
  /\ \A entry \in cache : entry.gen \in 0 .. generation /\ entry.asked \in Asked
  /\ \A r \in Apps : read[r].since \in 1 .. Len(history) /\ read[r].page \subseteq Items \cup Categories

\* "every admin change bumps, so edits show at once" (catalog.service.ts:68-69):
\* what an app is served, from the cache or not, is what the database held when
\* or after the last change bumped before it asked: the categories at one moment
\* and the items at that moment or later, and nothing of a hidden category.
EditsShow ==
  \A r \in Apps : read[r].at = "served" =>
    \E v \in read[r].since .. Len(history) : LET asked == read[r].asked IN
      /\ Exists(history[v], asked)
      /\ IF asked.list = "tree" THEN read[r].page = ShownUnder(history[v], Root) \ {Root}
         ELSE \E w \in v .. Len(history) : read[r].page = Listed(history[w], Under(history[v], asked))

=============================================================================
