------------------------------- MODULE ProxyGates -------------------------------
(***************************************************************************)
(* The gates a request with one API key passes in one proxy before it is   *)
(* forwarded, and what is charged to the key after it: the cached lookup   *)
(* of the key (authorize, authcache.go), the token bucket that is asked    *)
(* first and charged last, and the slots in between (ratelimit.go).        *)
(*                                                                         *)
(* Each gate is a critical section of its own.  Time is in ticks: a lookup *)
(* takes LookupMax of them at most, a forwarded request at least one, and  *)
(* none pass between the question to the bucket and the one for a slot.    *)
(* A bucket is refilled when it is used; here, the same, at every tick.    *)
(***************************************************************************)
EXTENDS Integers, FiniteSets

CONSTANTS
  Requests,
  Ttl,        \* authCacheTTL
  LookupMax,  \* supabaseAuthTimeout
  Rate,       \* keyTokenRatePerSecond
  Burst,      \* keyTokenBurst
  Left,       \* what earlier requests left in the bucket
  Slots,      \* maxInFlightPerKey
  Costs,      \* bound: tokens a request may be charged
  MaxCost,    \* and the most of them
  MaxTime     \* bound: ticks

ASSUME GatesAssumption ==
  /\ LookupMax \in Nat /\ Rate \in Nat /\ MaxTime \in Nat \ {0}
  /\ Ttl \in Nat \ {0} /\ Burst \in Nat \ {0} /\ Slots \in Nat \ {0} /\ Left \in 1 .. Burst
  /\ MaxCost \in Nat /\ Costs \subseteq 0 .. MaxCost

VARIABLES
  now,
  active,    \* api_keys.active, in the database
  revokedAt, \* history: when it ceased to be
  flushed,   \* history: has the cache been flushed since?
  expires,   \* of the cached entry; 0 is no entry
  tokens,    \* keyTokens' bucket
  inFlight,  \* inFlight.perKey
  pc,        \* where a request is
  since,     \* when it began to look up, or to run
  charged    \* history: all that was charged

vars == <<now, active, revokedAt, flushed, expires, tokens, inFlight, pc, since, charged>>
gates == <<tokens, inFlight, charged>>
time  == <<now, active, revokedAt, flushed>>

Init ==
  /\ now = 1 /\ active = TRUE /\ revokedAt = 0 /\ flushed = FALSE
  /\ expires = 0 /\ tokens = Left /\ inFlight = 0
  /\ pc = [r \in Requests |-> "new"] /\ since = [r \in Requests |-> 0]
  /\ charged = 0

\* A request goes on, and its clock starts when it begins to look up, or to run.
Goes(r, to) ==
  /\ pc' = [pc EXCEPT ![r] = to]
  /\ since' = [since EXCEPT ![r] = IF to \in {"looking", "running"} THEN now
                                  ELSE IF to = "found" THEN @ ELSE 0]

-----------------------------------------------------------------------------
\* authorize

\* Mutant: a use of the entry makes it last longer.
KeptByUse == expires' = now + Ttl

\* get leaves the time as it was.
KeptTillExpiry == UNCHANGED expires

Hit(r) ==
  /\ pc[r] = "new" /\ now < expires
  /\ Goes(r, "authorized")
  /\ KeptTillExpiry
  /\ UNCHANGED <<time, gates>>

\* An entry that has expired is deleted.
Miss(r) ==
  /\ pc[r] = "new" /\ now >= expires
  /\ expires' = 0
  /\ Goes(r, "looking")
  /\ UNCHANGED <<time, gates>>

\* The database, at some moment of the lookup.
LooksUp(r) ==
  /\ pc[r] = "looking"
  /\ Goes(r, IF active THEN "found" ELSE "over")
  /\ UNCHANGED <<time, expires, gates>>

LookupFails(r) ==
  /\ pc[r] \in {"looking", "found"}
  /\ Goes(r, "over")
  /\ UNCHANGED <<time, expires, gates>>

\* put, whatever was flushed meanwhile.
Puts(r) ==
  /\ pc[r] = "found"
  /\ expires' = now + Ttl
  /\ Goes(r, "authorized")
  /\ UNCHANGED <<time, gates>>

Flushes ==
  /\ expires' = 0
  /\ flushed' = (flushed \/ ~active)
  /\ UNCHANGED <<now, active, revokedAt, gates, pc, since>>

\* Another key's entry takes the place.
Evicts ==
  /\ expires' = 0
  /\ UNCHANGED <<time, gates, pc, since>>

Revokes ==
  /\ active
  /\ active' = FALSE /\ revokedAt' = now
  /\ UNCHANGED <<now, flushed, expires, gates, pc, since>>

-----------------------------------------------------------------------------
\* handleChatCompletions, after authorize

\* keyRate.allow, the count of requests, whose bucket is left out.
RateRefuses(r) ==
  /\ pc[r] = "authorized"
  /\ Goes(r, "over")
  /\ UNCHANGED <<time, expires, gates>>

\* keyTokens.available
AsksBucket(r) ==
  /\ pc[r] = "authorized"
  /\ Goes(r, IF tokens >= 1 THEN "checked" ELSE "over")
  /\ UNCHANGED <<time, expires, gates>>

\* inFlight.acquire
Acquires(r) ==
  /\ pc[r] = "checked" /\ inFlight < Slots
  /\ inFlight' = inFlight + 1
  /\ Goes(r, "running")
  /\ UNCHANGED <<time, expires, tokens, charged>>

\* The key's slots are taken, or by all keys together those of the proxy.
NoSlot(r) ==
  /\ pc[r] = "checked"
  /\ Goes(r, "over")
  /\ UNCHANGED <<time, expires, gates>>

\* Mutant: an overrun is forgiven.
AfterChargeAtZero(n) == IF tokens < n THEN 0 ELSE tokens - n

\* charge: a debt, of one burst at most.
AfterCharge(n) == IF tokens - n < -Burst THEN -Burst ELSE tokens - n

\* finalizeUsage, when the response is over.
Charges(r) ==
  /\ pc[r] = "running" /\ now > since[r]
  /\ \E n \in Costs : tokens' = AfterCharge(n) /\ charged' = charged + n
  /\ Goes(r, "charged")
  /\ UNCHANGED <<time, expires, inFlight>>

\* A gate of the body or the quota refuses it, and nothing is charged.
BodyRefused(r) ==
  /\ pc[r] = "running"
  /\ Goes(r, "charged")
  /\ UNCHANGED <<time, expires, gates>>

\* The slot is given back last.
Releases(r) ==
  /\ pc[r] = "charged"
  /\ inFlight' = inFlight - 1
  /\ Goes(r, "over")
  /\ UNCHANGED <<time, expires, tokens, charged>>

\* refillLocked
Tick ==
  /\ now < MaxTime
  /\ \A r \in Requests :
       /\ pc[r] # "checked"
       /\ pc[r] \in {"looking", "found"} => now < since[r] + LookupMax
  /\ now' = now + 1
  /\ tokens' = IF tokens + Rate > Burst THEN Burst ELSE tokens + Rate
  /\ UNCHANGED <<active, revokedAt, flushed, expires, inFlight, pc, since, charged>>

-----------------------------------------------------------------------------
Next ==
  \/ \E r \in Requests :
       \/ Hit(r) \/ Miss(r) \/ LooksUp(r) \/ LookupFails(r) \/ Puts(r)
       \/ RateRefuses(r) \/ AsksBucket(r) \/ Acquires(r) \/ NoSlot(r)
       \/ Charges(r) \/ BodyRefused(r) \/ Releases(r)
  \/ Flushes \/ Evicts \/ Revokes \/ Tick

Spec == Init /\ [][Next]_vars

-----------------------------------------------------------------------------
\* Properties.

\* The requests that hold a slot.
Holders == {r \in Requests : pc[r] \in {"running", "charged"}}

TypeOK ==
  /\ now \in 1 .. MaxTime /\ active \in BOOLEAN /\ revokedAt \in 0 .. now
  /\ flushed \in BOOLEAN
  /\ expires \in 0 .. now + Ttl /\ tokens \in -Burst .. Burst /\ charged \in Nat
  /\ inFlight = Cardinality(Holders)
  /\ inFlight <= Slots
  /\ pc \in [Requests -> {"new", "looking", "found", "authorized", "checked", "running",
                          "charged", "over"}]
  /\ since \in [Requests -> 0 .. now]

\* A key that is revoked in the database opens the gate for less than the entry's
\* lifetime and a lookup's time after it, however lookups, uses of the entry and
\* flushes interleave.  A flush does not shorten that, since an answer from before may
\* be put in after it; nor does any use of an entry make it last.
RevokedIsRefusedSoon ==
  [][\A r \in Requests :
       pc[r] # "authorized" /\ pc'[r] = "authorized" /\ ~active
         => now - revokedAt < Ttl + LookupMax]_vars

\* What two rounds of a key's slots can cost: one under way, and one let in beside it.
TwoRounds == 2 * Slots * MaxCost

\* How often the bucket's debt can be more than its floor leaves of it: only where two
\* rounds cost more than a burst, and then once for each time that a burst has been
\* gained anew, for nothing is let in until the debt is paid.
Floorings == IF TwoRounds > Burst THEN (Rate * (now - 1)) \div (Burst + 1) ELSE 0

\* Tokens are charged after the fact, the bucket is asked apart from the slots, and its
\* debt is forgiven beyond one burst: still a key is charged no more, over any time,
\* than the bucket held and gained and two rounds of its slots, and two more for each
\* burst that it gained where the rounds are larger than the burst ("a bounded
\* sustained rate", ratelimit.go, charge).
ChargedWithinRate ==
  charged < Left + Rate * (now - 1) + TwoRounds * (1 + Floorings)

-----------------------------------------------------------------------------
\* What the comments of authcache.go say, and the code does not keep: a lookup that was
\* answered before the key was revoked is put in after it, and lives a full ttl.

\* "A key revoked in the database keeps working for at most authCacheTTL."
RevokedWithinTtl ==
  [][\A r \in Requests :
       pc[r] # "authorized" /\ pc'[r] = "authorized" /\ ~active => now - revokedAt <= Ttl]_vars

\* flush is "the immediate-revocation lever: after it returns, the next request for any
\* key pays a full lookup again": no request is let in by an entry once a revoked key
\* was flushed.
FlushRevokesAtOnce ==
  [][\A r \in Requests : pc[r] = "new" /\ pc'[r] = "authorized" => ~flushed]_vars
=============================================================================
