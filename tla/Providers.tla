------------------------------- MODULE Providers -------------------------------
(***************************************************************************)
(* Provider API keys and the provider that is active for one capability    *)
(* (src/src/modules/providers/provider-credentials.service.ts).  Admins    *)
(* set, remove, activate and deactivate; caption jobs ask which provider   *)
(* to use, through a cache of this process that every change clears after  *)
(* its commit and that forgets by itself after ACTIVE_CACHE_MS.            *)
(***************************************************************************)
EXTENDS Naturals, Absent

CONSTANTS Kinds,        \* ProviderKind
          Editors,      \* requests of administrators
          Callers,      \* calls of getActive by caption jobs
          MaxChanges    \* bound: committed changes, and rows a kind has had

ASSUME ProvidersAssumption == MaxChanges \in Nat

VARIABLES
  row,       \* ProviderCredential of a kind: its id, and whether it is there
  active,    \* the kinds whose row has isActive
  changes,   \* committed changes of the active provider or its key: what
             \* getActive reads is the content their number stands for
  cleared,   \* the last change whose request has cleared the cache
  cache,     \* activeCache: None, or the content it was read from
  edit,      \* each administrator's request
  fill       \* each getActive after a miss: None, or the content it has read

providerVars == <<row, active, changes, cleared, cache, edit, fill>>

At(step, k, id, rows, change) ==
  [at |-> step, kind |-> k, id |-> id, locked |-> rows, change |-> change]

Idle == At("idle", None, 0, {}, 0)

ProvidersInit ==
  /\ row = [k \in Kinds |-> [id |-> 0, there |-> FALSE]]
  /\ active = {}
  /\ changes = 0
  /\ cleared = 0
  /\ cache = None
  /\ edit = [e \in Editors |-> Idle]
  /\ fill = [j \in Callers |-> None]

-----------------------------------------------------------------------------
\* Rows an open transaction has deactivated: others wait for its end.
Locked(k) == \E e \in Editors : k \in edit[e].locked

Begin(e, step, k, id) ==
  /\ edit[e].at = "idle"
  /\ edit' = [edit EXCEPT ![e] = At(step, k, id, {}, 0)]

\* e's statement or transaction has committed, and changed what getActive reads
\* or not; its next step clears the cache.
Commits(e, matters) ==
  /\ changes < MaxChanges
  /\ changes' = IF matters THEN changes + 1 ELSE changes
  /\ edit' = [edit EXCEPT ![e] = At("clear", None, 0, {}, changes')]

\* setKey: the upsert gives a kind a row, or replaces the key its row has.
SetKey(e, k) ==
  /\ edit[e].at = "idle" /\ ~Locked(k)
  /\ row[k].there \/ row[k].id < MaxChanges
  /\ Commits(e, k \in active)
  /\ row' = [row EXCEPT ![k] = IF @.there THEN @ ELSE [id |-> @.id + 1, there |-> TRUE]]
  /\ UNCHANGED <<active, cleared, cache, fill>>

\* removeKey: the row goes, active or not.  (Without a row it only clears the
\* cache, which CacheExpires covers.)
RemoveKey(e, k) ==
  /\ edit[e].at = "idle" /\ row[k].there /\ ~Locked(k)
  /\ Commits(e, k \in active)
  /\ row' = [row EXCEPT ![k].there = FALSE]
  /\ active' = active \ {k}
  /\ UNCHANGED <<cleared, cache, fill>>

\* deactivate: one guarded UPDATE, which clears the cache only if it changed a row.
Deactivate(e, k) ==
  /\ edit[e].at = "idle" /\ k \in active /\ ~Locked(k)
  /\ Commits(e, TRUE)
  /\ active' = active \ {k}
  /\ UNCHANGED <<row, cleared, cache, fill>>

\* activate: looks the row up, and goes on only with one that is not active.
Activate(e, k) ==
  /\ row[k].there /\ k \notin active
  /\ Begin(e, "deactivate", k, row[k].id)
  /\ UNCHANGED <<row, active, changes, cleared, cache, fill>>

\* The transaction's first UPDATE locks the active rows, waiting for whoever has.
SwitchOff(e) ==
  /\ edit[e].at = "deactivate"
  /\ \A k \in active : ~Locked(k)
  /\ edit' = [edit EXCEPT ![e] = At("activate", edit[e].kind, edit[e].id, active, 0)]
  /\ UNCHANGED <<row, active, changes, cleared, cache, fill>>

\* Mutant: no partial unique index on isActive.
SwitchableAnyway(e) == row[edit[e].kind] = [id |-> edit[e].id, there |-> TRUE]

\* The second one finds its row by id; "the partial unique index refuses two
\* active rows", so a row that another activation has committed makes it fail.
Switchable(e) ==
  /\ row[edit[e].kind] = [id |-> edit[e].id, there |-> TRUE]
  /\ active \subseteq edit[e].locked

SwitchOn(e) ==
  /\ edit[e].at = "activate" /\ Switchable(e)
  /\ Commits(e, TRUE)
  /\ active' = (active \ edit[e].locked) \union {edit[e].kind}
  /\ UNCHANGED <<row, cleared, cache, fill>>

\* The transaction fails, or the process loses it: it rolls back.
SwitchFails(e) ==
  /\ edit[e].at = "activate"
  /\ edit' = [edit EXCEPT ![e] = Idle]
  /\ UNCHANGED <<row, active, changes, cleared, cache, fill>>

\* activeCache.clear(), and the answer.  A process that dies before loses the
\* cache too.
ClearCache(e) ==
  /\ edit[e].at = "clear"
  /\ cache' = None
  /\ cleared' = IF edit[e].change > cleared THEN edit[e].change ELSE cleared
  /\ edit' = [edit EXCEPT ![e] = Idle]
  /\ UNCHANGED <<row, active, changes, fill>>

-----------------------------------------------------------------------------
\* getActive on a miss: findFirst, then (decrypted) into the cache.  A hit
\* returns what the cache holds and changes nothing.
ReadActive(j) ==
  /\ cache = None /\ fill[j] = None
  /\ fill' = [fill EXCEPT ![j] = changes]
  /\ UNCHANGED <<row, active, changes, cleared, cache, edit>>

StoreActive(j) ==
  /\ fill[j] # None
  /\ cache' = fill[j]
  /\ fill' = [fill EXCEPT ![j] = None]
  /\ UNCHANGED <<row, active, changes, cleared, edit>>

\* Mutant: an entry whose time has passed is given more.
Renewed == cache # None /\ UNCHANGED providerVars

\* expiresAt has passed.
CacheExpires ==
  /\ cache # None
  /\ cache' = None
  /\ UNCHANGED <<row, active, changes, cleared, edit, fill>>

-----------------------------------------------------------------------------
EditStep(e) == SwitchOff(e) \/ SwitchOn(e) \/ ClearCache(e)

ProvidersNext ==
  \/ \E e \in Editors :
       \/ \E k \in Kinds : SetKey(e, k) \/ RemoveKey(e, k) \/ Deactivate(e, k) \/ Activate(e, k)
       \/ EditStep(e)
       \/ SwitchFails(e)
  \/ \E j \in Callers : ReadActive(j) \/ StoreActive(j)
  \/ CacheExpires

ProvidersSpec == ProvidersInit /\ [][ProvidersNext]_providerVars

-----------------------------------------------------------------------------
\* Every variable holds a value the code can store.
ProvidersTypeOK ==
  /\ row \in [Kinds -> [id : 0..MaxChanges, there : BOOLEAN]]
  /\ active \subseteq Kinds
  /\ changes \in 0..MaxChanges /\ cleared \in 0..changes
  /\ cache \in (0..changes) \union {None}
  /\ \A e \in Editors :
       /\ edit[e].at \in {"idle", "deactivate", "activate", "clear"}
       /\ edit[e].kind \in Kinds \union {None} /\ edit[e].id \in 0..MaxChanges
       /\ edit[e].locked \subseteq Kinds /\ edit[e].change \in 0..changes
  /\ fill \in [Callers -> (0..changes) \union {None}]

\* At most one provider is active for the capability, and only one that has a key,
\* whatever activations, deactivations and removals of keys overlap: what findFirst
\* of getActive finds is the provider, not one of several.
OneActive ==
  /\ \A k \in active : row[k].there
  /\ \A k, l \in active : k = l

\* "Every change below clears this, so a replaced key or a switched provider is
\* used by the very next job" (lines 34-36): a job that starts now is not served
\* what an answered change replaced.
NextJobSeesChange == cache # None => cache >= cleared
=============================================================================
