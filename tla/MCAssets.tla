------------------------------- MODULE MCAssets -------------------------------
(***************************************************************************)
(* Library, Catalog and SignIn on small instances.  The first two meet     *)
(* only in the contents an administrator changes, which Catalog takes as   *)
(* any change, and neither shares a row with accounts: one run explores    *)
(* the three, each behaviour being of one of them.                         *)
(***************************************************************************)
EXTENDS Library, Catalog, SignIn, TLC

CONSTANT Filed

VARIABLE part

\* An empty library, and one with a published item in a child of the root.
MCStarts ==
  {[categories |-> {Root}, hidden |-> {}, parent |-> [c \in Categories |-> None],
    filed |-> [i \in Items |-> None], published |-> {}],
   [categories |-> Categories, hidden |-> {}, parent |-> [c \in Categories |-> IF c = Root THEN None ELSE Root],
    filed |-> [i \in Items |-> Filed], published |-> Items]}

\* An address, two Google accounts of it, and one of them under another address.
Proof(e, s) == [email |-> e, sub |-> s]

MCProofs == {Proof("e", None), Proof("e", "g"), Proof("e", "h"), Proof("f", "g")}

Init ==
  /\ part \in {"library", "catalog", "people"}
  /\ LibraryInit /\ SignInInit
  \* The other parts have one catalog.
  /\ CatalogInit /\ (part # "catalog" => Db.categories = {Root})

LibraryPart == part = "library" /\ LibraryNext /\ UNCHANGED <<part, catalogVars, signInVars>>

CatalogPart == part = "catalog" /\ CatalogNext /\ UNCHANGED <<part, vars, signInVars>>

PeoplePart == part = "people" /\ SignInNext /\ UNCHANGED <<part, vars, catalogVars>>

Next == LibraryPart \/ CatalogPart \/ PeoplePart

Spec == Init /\ [][Next]_<<vars, catalogVars, signInVars, part>>

\* The administrators of Catalog and the installs of SignIn are the requests of
\* Library.
Symmetry == Permutations(Sessions) \cup Permutations(Handlers)

\* Bound: sounds and fonts share no row, so they are explored one kind at a time:
\* a sound and two covers of it, two fonts, or a font and a version of it.
OneKind ==
  \/ \A f \in Fonts : status[f] = None
  \/ /\ \A a \in Audios : status[a] = None
     /\ \A s \in Sessions : session[s].role # "thumbnail"
     /\ \E s \in Sessions : session[s].asset = None

\* Bound: lists share no page, so they are explored one at a time, and three of
\* them: the tree, the items under the root, the fonts of its child.
OneList ==
  LET asked == {entry.asked : entry \in cache} \cup ({read[r].asked : r \in Apps} \ {None}) IN
  /\ Cardinality(asked) <= 1
  /\ \A q \in asked : q.list = "fonts" => q.category = Filed
  /\ \A q \in asked : q.list = "items" => q.category = Root

\* Bound: one of the two accounts is erased; a third could not be made.
OneErasure == Cardinality(erased) <= 1

Bounded == OneKind /\ OneList /\ OneErasure

=============================================================================
