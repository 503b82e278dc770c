------------------------------ MODULE MCLedger ------------------------------
(***************************************************************************)
(* A small instance of Ledger: a user with one grant that a charge and an  *)
(* administrator's debit compete for, and another user whose post, inside  *)
(* a caller's transaction, races the grant for its key.  Each may be       *)
(* posted, again and again, by either request.                             *)
(*                                                                         *)
(* What administrators set for the posts (the prices, the provider, the    *)
(* settings) shares no row with the ledger or with each other: one run     *)
(* explores the four, each behaviour being of one of them.                 *)
(***************************************************************************)
EXTENDS Ledger, Pricing, Providers, Settings, TLC

CONSTANTS u1, u2, r1, r2, grant, charge, debit

MCUsers == {u1, u2}
MCKeys == {grant, charge, debit}
MCAmounts == {-2, -1, 2}

In(u, k, a, open, tx) ==
  [user |-> u, key |-> k, amount |-> a, requireActive |-> open, inTx |-> tx]

MCInputs == { In(u1, grant, 2, FALSE, FALSE), In(u1, charge, -2, TRUE, FALSE),
              In(u1, debit, -1, FALSE, FALSE),
              In(u2, grant, 2, TRUE, TRUE) }

-----------------------------------------------------------------------------
VARIABLE part

\* A rule of each mode that is accepted, and a list of tiers that is not.
PerSecond(length, credits, least) ==
  [mode |-> "per_second", blockSeconds |-> length, blockCredits |-> credits, minCredits |-> least]
Tiered(tiers) == [mode |-> "duration_tiers", tiers |-> tiers]
Tier(upTo, credits) == [upTo |-> upTo, credits |-> credits]

MCRules == {[mode |-> "per_job", perJobCredits |-> 3], PerSecond(2, 1, 2),
            Tiered(<<Tier(2, 1), Tier(3, 4), Tier(Open, 2)>>),
            Tiered(<<Tier(2, 1), Tier(2, 4), Tier(Open, 2)>>),
            Tiered(<<Tier(2, 1)>>)}

\* Four blocks and more, past every bound, with every part of a millisecond.
MCDurations == 0..52

all == <<vars, part, pricingVars, providerVars, settingsVars>>

MCInit ==
  /\ part \in {"ledger", "pricing", "providers", "settings"}
  /\ Init /\ PricingInit /\ ProvidersInit /\ SettingsInit

LedgerPart == part = "ledger" /\ Next /\ UNCHANGED <<part, pricingVars, providerVars, settingsVars>>
PricingPart == part = "pricing" /\ PricingNext /\ UNCHANGED <<part, vars, providerVars, settingsVars>>
ProvidersPart == part = "providers" /\ ProvidersNext /\ UNCHANGED <<part, vars, pricingVars, settingsVars>>
SettingsPart == part = "settings" /\ SettingsNext /\ UNCHANGED <<part, vars, pricingVars, providerVars>>

MCNext == LedgerPart \/ PricingPart \/ ProvidersPart \/ SettingsPart

\* A started post goes on, and a copy that a process keeps runs out.
MCSpec ==
  /\ MCInit /\ [][MCNext]_all
  /\ \A r \in Requests : SF_vars(Proceed(r))
  /\ WF_cache(part = "providers" /\ CacheExpires)
  /\ WF_cached(part = "settings" /\ CopyExpires)

-----------------------------------------------------------------------------
\* A key, a provider or a setting that was replaced may be used again by a fill
\* that crossed the change, but not for good (ACTIVE_CACHE_MS, CACHE_MS): when
\* changes have ended, as MaxChanges and MaxUpdates make them, the copies end up
\* current and stay so, whatever fills and clears were under way or never came.
CopiesCatchUp ==
  /\ <>[](cache \in {None, changes})
  /\ <>[](cached \in {None, updates})
=============================================================================
