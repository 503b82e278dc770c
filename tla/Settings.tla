------------------------------- MODULE Settings -------------------------------
(***************************************************************************)
(* The one row of credit settings and the copy a process keeps of it       *)
(* (src/src/modules/credits/credit-settings.service.ts).  update() begins  *)
(* with a get() of its own, for the audit, so it may fill the copy that it *)
(* clears in the end.  A content of the row is the number of its update.   *)
(***************************************************************************)
EXTENDS Naturals, Absent

CONSTANTS Readers,      \* requests: of the app, which read, and of admins
          MaxUpdates    \* bound: no update is begun after so many

VARIABLES
  updates,   \* committed updates of the row
  answered,  \* the last one whose request has cleared the copy
  cached,    \* None, or the content it was read from
  use        \* each request: its step, whether it updates, what it has read

settingsVars == <<updates, answered, cached, use>>

Unused == [at |-> "idle", admin |-> FALSE, of |-> None]

SettingsInit == updates = 0 /\ answered = 0 /\ cached = None /\ use = [r \in Readers |-> Unused]

\* What follows a get(): an admin's UPDATE, or nothing.
After(r, admin) == IF admin THEN [at |-> "update", admin |-> TRUE, of |-> None] ELSE Unused

\* get(), answered by the copy, or else a query.
GetCached(r, admin) ==
  /\ use[r].at = "idle" /\ cached # None
  /\ admin => updates < MaxUpdates
  /\ use' = [use EXCEPT ![r] = After(r, admin)]
  /\ UNCHANGED <<updates, answered, cached>>

GetRow(r, admin) ==
  /\ use[r].at = "idle" /\ cached = None
  /\ admin => updates < MaxUpdates
  /\ use' = [use EXCEPT ![r] = [at |-> "store", admin |-> admin, of |-> updates]]
  /\ UNCHANGED <<updates, answered, cached>>

StoreRow(r) ==
  /\ use[r].at = "store"
  /\ cached' = use[r].of
  /\ use' = [use EXCEPT ![r] = After(r, use[r].admin)]
  /\ UNCHANGED <<updates, answered>>

\* The UPDATE, of the patched columns only.
UpdateRow(r) ==
  /\ use[r].at = "update"
  /\ updates' = updates + 1
  /\ use' = [use EXCEPT ![r] = [at |-> "clear", admin |-> TRUE, of |-> updates + 1]]
  /\ UNCHANGED <<answered, cached>>

ClearCopy(r) ==
  /\ use[r].at = "clear"
  /\ cached' = None
  /\ answered' = IF use[r].of > answered THEN use[r].of ELSE answered
  /\ use' = [use EXCEPT ![r] = Unused]
  /\ UNCHANGED updates

\* CACHE_MS have passed.
CopyExpires ==
  /\ cached # None
  /\ cached' = None
  /\ UNCHANGED <<updates, answered, use>>

SettingsNext ==
  \/ \E r \in Readers :
       \/ \E admin \in BOOLEAN : GetCached(r, admin) \/ GetRow(r, admin)
       \/ StoreRow(r) \/ UpdateRow(r) \/ ClearCopy(r)
  \/ CopyExpires

SettingsSpec == SettingsInit /\ [][SettingsNext]_settingsVars

-----------------------------------------------------------------------------
\* Every variable holds a value the code can store.
SettingsTypeOK ==
  /\ updates \in Nat /\ answered \in 0..updates
  /\ cached \in (0..updates) \union {None}
  /\ \A r \in Readers :
       /\ use[r].at \in {"idle", "store", "update", "clear"} /\ use[r].admin \in BOOLEAN
       /\ use[r].of \in (0..updates) \union {None}
=============================================================================
