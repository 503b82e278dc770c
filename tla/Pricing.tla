-------------------------------- MODULE Pricing --------------------------------
(***************************************************************************)
(* Pricing rules of one feature (src/src/modules/credits/pricing.ts,       *)
(* pricing.service.ts): what a rule may be, what it charges for a          *)
(* duration, and the versions administrators create and activate at once.  *)
(* A tier has an upTo in seconds, or Open; a per_second rule without a     *)
(* minimum has minCredits 0.  A duration is any number of seconds: it is   *)
(* counted in ticks, TicksPerMs to a millisecond, MsPerSecond of those to  *)
(* a second, so that it can lie between two milliseconds.                  *)
(***************************************************************************)
EXTENDS Integers, Sequences, FiniteSets, Absent

CONSTANTS Rules,        \* rules administrators may ask for, valid or not
          Managers,     \* their requests
          Durations,    \* in ticks
          TicksPerMs, MsPerSecond,
          MaxVersion,   \* bound: versions of the feature
          Open

\* A rule has the fields its mode needs, as the DTO checks, but may still be wrong.
ASSUME PricingAssumption ==
  /\ \A r \in Rules :
       \/ r.mode = "per_job" /\ r.perJobCredits \in Int
       \/ /\ r.mode = "per_second"
          /\ r.blockSeconds \in Int /\ r.blockCredits \in Int /\ r.minCredits \in Int
       \/ /\ r.mode = "duration_tiers" /\ DOMAIN r.tiers = 1..Len(r.tiers) /\ Len(r.tiers) \in Nat
          /\ \A i \in DOMAIN r.tiers : r.tiers[i].upTo \in Int \union {Open} /\ r.tiers[i].credits \in Int
  /\ Durations \subseteq Nat /\ {TicksPerMs, MsPerSecond} \subseteq Nat \ {0} /\ MaxVersion \in Nat
  /\ \A r \in Rules : None # r

VARIABLES
  version,   \* PricingRule rows: the rules of versions 1, 2, ...
  inUse,     \* the versions whose row has isActive
  task       \* each administrator's request

pricingVars == <<version, inUse, task>>

\* Larger is the larger of two numbers, Math.max.
Larger(m, n) == IF m > n THEN m ELSE n

MaxBlockSeconds == 86400

\* blockProblems is empty.
BlocksAreValid(r) == r.blockSeconds \in 1..MaxBlockSeconds /\ r.blockCredits >= 0 /\ r.minCredits >= 0

\* tierProblems is empty: only the last tier is open, and the bounds grow.
TiersAreValid(tiers) ==
  /\ tiers # <<>>
  /\ \A i \in DOMAIN tiers :
       /\ tiers[i].credits >= 0
       /\ tiers[i].upTo = Open <=> i = Len(tiers)
       /\ i < Len(tiers) => tiers[i].upTo > 0
       /\ i > 1 /\ i < Len(tiers) => tiers[i].upTo > tiers[i - 1].upTo

\* ruleProblems is empty.
Valid(r) ==
  CASE r.mode = "per_job" -> r.perJobCredits >= 0
    [] r.mode = "per_second" -> BlocksAreValid(r)
    [] r.mode = "duration_tiers" -> TiersAreValid(r.tiers)

Ticks(seconds) == seconds * MsPerSecond * TicksPerMs

\* A tier that covers a duration as it is, not rounded, its bound included.
Covers(tier, d) == tier.upTo = Open \/ d <= Ticks(tier.upTo)

\* Math.ceil of a quotient.
Ceiling(m, n) == (m + n - 1) \div n

\* Mutant: a duration is not rounded first, so that noise starts a block.
MillisecondsBegun(d) == Ceiling(d, TicksPerMs)

\* Math.round(durationSeconds * 1000): the nearest millisecond, the later of two.
Milliseconds(d) == (2 * d + TicksPerMs) \div (2 * TicksPerMs)

\* priceFor: None where it throws; a stored rule has a block length.
PriceFor(r, d) ==
  CASE r.mode = "per_job" -> r.perJobCredits
    [] r.mode = "per_second" ->
         Larger(r.minCredits, Larger(1, Ceiling(Milliseconds(d), r.blockSeconds * MsPerSecond)) * r.blockCredits)
    [] r.mode = "duration_tiers" ->
         LET fits == {i \in DOMAIN r.tiers : Covers(r.tiers[i], d)} IN
         IF fits = {} THEN None
         ELSE r.tiers[CHOOSE i \in fits : \A j \in fits : i <= j].credits

-----------------------------------------------------------------------------
Resting == [at |-> "idle", rule |-> None, version |-> 0, found |-> {}, locked |-> {}]

PricingInit == version = <<>> /\ inUse = {} /\ task = [m \in Managers |-> Resting]

Become(m, request) == task' = [task EXCEPT ![m] = request]

\* createRule: refuses a rule with problems, and looks for the last version.
AskRule(m, r) ==
  /\ task[m].at = "idle" /\ Valid(r) /\ Len(version) < MaxVersion
  /\ Become(m, [Resting EXCEPT !.at = "create", !.rule = r, !.version = Len(version)])
  /\ UNCHANGED <<version, inUse>>

\* The INSERT of the next version: (feature, version) is unique, so one that
\* another administrator has created meanwhile is a 409.
CreateRule(m) ==
  /\ task[m].at = "create"
  /\ version' = IF Len(version) = task[m].version THEN Append(version, task[m].rule) ELSE version
  /\ Become(m, Resting)
  /\ UNCHANGED inUse

\* activate: looks the rule up, and goes on only if it is not active.
AskActivate(m, v) ==
  /\ task[m].at = "idle" /\ v \in DOMAIN version \ inUse
  /\ Become(m, [Resting EXCEPT !.at = "find", !.version = v])
  /\ UNCHANGED <<version, inUse>>

\* The transaction's first UPDATE, of the rows that are active in its snapshot.
FindActive(m) ==
  /\ task[m].at = "find"
  /\ Become(m, [task[m] EXCEPT !.at = "off", !.found = inUse])
  /\ UNCHANGED <<version, inUse>>

\* It waits for whoever has one of them; what that one switched off no longer
\* matches and is skipped, what it switched on was never found.
RuleOff(m) ==
  /\ task[m].at = "off"
  /\ \A n \in Managers : task[n].locked \intersect task[m].found = {}
  /\ Become(m, [task[m] EXCEPT !.at = "on", !.locked = task[m].found \intersect inUse])
  /\ UNCHANGED <<version, inUse>>

\* The rows this transaction leaves active.
Left(m) == inUse \ task[m].locked

\* Mutant: there is no such index.
AnyNumber(m) == TRUE

\* The partial unique index PricingRule_one_active.
OnlyOne(m) == Left(m) \subseteq {task[m].version}

\* The second UPDATE, which switches its own row on whatever the others are, waits
\* for whoever has that row, and commits what both have done.
RuleOn(m) ==
  /\ task[m].at = "on"
  /\ \A n \in Managers \ {m} : task[m].version \notin task[n].locked
  /\ OnlyOne(m)
  /\ inUse' = Left(m) \union {task[m].version}
  /\ Become(m, Resting)
  /\ UNCHANGED version

\* The index refuses it, or the connection is lost: all is rolled back.
ActivateFails(m) ==
  /\ task[m].at \in {"find", "off", "on"}
  /\ Become(m, Resting)
  /\ UNCHANGED <<version, inUse>>

PricingNext ==
  \E m \in Managers :
    \/ \E r \in Rules : AskRule(m, r)
    \/ \E v \in DOMAIN version : AskActivate(m, v)
    \/ CreateRule(m) \/ FindActive(m) \/ RuleOff(m) \/ RuleOn(m) \/ ActivateFails(m)

PricingSpec == PricingInit /\ [][PricingNext]_pricingVars

-----------------------------------------------------------------------------
\* The rows are valid rules, and requests are about versions there are.
PricingTypeOK ==
  /\ version \in Seq({r \in Rules : Valid(r)}) /\ Len(version) <= MaxVersion
  /\ inUse \subseteq DOMAIN version
  /\ \A m \in Managers :
       /\ task[m].at \in {"idle", "create", "find", "off", "on"} /\ task[m].rule \in Rules \union {None}
       /\ task[m].version \in 0..Len(version) /\ task[m].found \union task[m].locked \subseteq DOMAIN version

\* "Makes this version the one that prices jobs, switching the previous one off":
\* whatever activations overlap or fail, a feature that has a price never has two,
\* nor, for an instant, none, which would answer captions with 503.
JobsStayPriced ==
  [][Cardinality(inUse') <= 1 /\ (inUse # {} => inUse' # {})]_pricingVars

\* What a job pays, said another way: the blocks, of length milliseconds and counted
\* from 0, into which it goes by half a millisecond or more.
StartedBlocks(d, length) == {k \in 0..d : 2 * d >= (2 * k * length + 1) * TicksPerMs}

\* "Tier boundaries are inclusive", "a started block counts in full", "floating-point
\* noise from the WAV maths never starts a block": an accepted rule has a price for
\* every duration, which is that of the one tier the duration lies in, or of its
\* started blocks, one at least, and never below the minimum.
PricesAreRight ==
  \A v \in DOMAIN version : \A d \in Durations :
    LET r == version[v]
        price == PriceFor(r, d)
    IN CASE r.mode = "per_job" -> price = r.perJobCredits
         [] r.mode = "per_second" ->
              LET blocks == StartedBlocks(d, r.blockSeconds * MsPerSecond) \union {0} IN
              /\ price >= r.minCredits /\ price >= Cardinality(blocks) * r.blockCredits
              /\ price \in {r.minCredits, Cardinality(blocks) * r.blockCredits}
         [] r.mode = "duration_tiers" ->
              \E i \in DOMAIN r.tiers :
                /\ price = r.tiers[i].credits
                /\ r.tiers[i].upTo # Open => d <= Ticks(r.tiers[i].upTo)
                /\ i > 1 => d > Ticks(r.tiers[i - 1].upTo)
=============================================================================
