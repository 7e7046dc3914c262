----------------------------- MODULE LimitsProofs -----------------------------
(***************************************************************************)
(* Proofs about what bounds the use of a key and of a machine: the gates   *)
(* of the proxy (ProxyGates) and the daemons' count of what is billed      *)
(* (SpendLedger), which share no state.                                    *)
(***************************************************************************)
EXTENDS ProxyGates, SpendLedger, NumberTheorems, FiniteSetTheorems, TLAPS

-----------------------------------------------------------------------------
\* The gates.
\*
\* For any requests, slots, rates and times: a revoked key is refused soon, and
\* a key is charged within its rate.
\*
\* For the first, LookupInv says how old an entry, and an answer that is
\* not put in yet, can be once the key is revoked.  For the second, Budget
\* says what the bucket would still hold if its debts had no floor: enough
\* for the slots' debts when a request is about to ask for one (it was
\* asked at this very tick, so only requests that ran before can have been
\* charged since), and then no less than two rounds of debts, of which
\* those under way are not yet charged.  Where the floor forgave some of
\* them this starts anew when the bucket is next asked, a burst later.

States == {"new", "looking", "found", "authorized", "checked", "running", "charged", "over"}

Running == {r \in Requests : pc[r] = "running"}

\* The running requests that may be charged at this tick.
Earlier == {r \in Running : since[r] < now}

TypeInv == TypeOK /\ IsFiniteSet(Holders)

\* A lookup has its time; an answer that says the key is active was given when it was;
\* and so was the answer an entry is from.
LookupInv ==
  /\ \A r \in Requests : pc[r] \in {"looking", "found"} => now <= since[r] + LookupMax
  /\ \A r \in Requests : pc[r] = "found" /\ ~active => since[r] <= revokedAt
  /\ ~active => expires <= revokedAt + Ttl + LookupMax

\* Are two rounds of debts never more than the floor leaves of them?
Fits == TwoRounds <= Burst

\* u is what the bucket would hold if its debts had no floor since k rounds of them were last
\* forgiven.  A debt is forgiven when the bucket is asked again with something in it, and that
\* it has, after the floor, only where a whole burst was gained: so k is bounded by the gain.
Forgiven(u, k) ==
  /\ u <= tokens /\ tokens - u <= TwoRounds
  /\ charged + u <= Left + Rate * (now - 1) + TwoRounds * k
  /\ (Burst + 1) * k <= Rate * (now - 1)
  /\ u < tokens => (Burst + 1) * k + tokens + Burst <= Rate * (now - 1)
  /\ Fits => u = tokens /\ k = 0

\* It is enough for the slots' debts when the bucket was just asked, and for two rounds of
\* them, of which those under way are not charged yet, at any time.
Owed(u, k) ==
  /\ (\E r \in Requests : pc[r] = "checked") => u >= 1 - MaxCost * (Slots - Cardinality(Earlier))
  /\ u >= 1 - MaxCost * (2 * Slots - Cardinality(Running))
  /\ Forgiven(u, k)

Budget == \E u \in Int, k \in Nat : Owed(u, k)

USE GatesAssumption DEF GatesAssumption

-----------------------------------------------------------------------------
\* What a step of one request leaves of the others, and of the sets they form.

LEMMA GoesTo ==
  ASSUME TypeOK, NEW r \in Requests, NEW to \in States, Goes(r, to)
  PROVE  /\ pc' \in [Requests -> States] /\ since' \in [Requests -> 0 .. now]
         /\ pc'[r] = to
         /\ \A s \in Requests : s # r => pc'[s] = pc[s] /\ since'[s] = since[s]
         /\ to \in {"looking", "running"} => since'[r] = now
         /\ to = "found" => since'[r] = since[r]
<1>1. pc \in [Requests -> States] /\ since \in [Requests -> 0 .. now] /\ now \in 0 .. now
  BY DEF TypeOK, States
<1>. QED  BY <1>1 DEF Goes

\* A request that neither held a slot nor gets one changes none of the sets.
LEMMA NoHolder ==
  ASSUME TypeOK, NEW r \in Requests, NEW to \in States, Goes(r, to), now' = now,
         pc[r] \notin {"running", "charged"}, to \notin {"running", "charged"}
  PROVE  Holders' = Holders /\ Running' = Running /\ Earlier' = Earlier
<1>1. \A s \in Requests : s # r => pc'[s] = pc[s] /\ since'[s] = since[s]
  BY GoesTo
<1>2. pc'[r] = to
  BY GoesTo
<1>. QED  BY <1>1, <1>2 DEF Holders, Running, Earlier

LEMMA SetsAreFinite ==
  ASSUME TypeInv
  PROVE  /\ Cardinality(Holders) \in Nat
         /\ IsFiniteSet(Running) /\ Cardinality(Running) \in Nat
         /\ Cardinality(Running) <= inFlight /\ inFlight <= Slots /\ inFlight \in Nat
         /\ IsFiniteSet(Earlier) /\ Cardinality(Earlier) \in Nat
         /\ Cardinality(Earlier) <= Cardinality(Running)
<1>1. inFlight = Cardinality(Holders) /\ inFlight <= Slots /\ IsFiniteSet(Holders)
  BY DEF TypeInv, TypeOK
<1>2. Running \subseteq Holders /\ Earlier \subseteq Running
  BY DEF Running, Holders, Earlier
<1>3. IsFiniteSet(Running) /\ Cardinality(Running) <= Cardinality(Holders)
  BY <1>1, <1>2, FS_Subset
<1>4. IsFiniteSet(Earlier) /\ Cardinality(Earlier) <= Cardinality(Running)
  BY <1>2, <1>3, FS_Subset
<1>5. /\ Cardinality(Holders) \in Nat /\ Cardinality(Running) \in Nat
      /\ Cardinality(Earlier) \in Nat
  BY <1>1, <1>3, <1>4, FS_CardinalityType
<1>. QED  BY <1>1, <1>3, <1>4, <1>5

-----------------------------------------------------------------------------
\* The types, and the slots: as many as there are requests that hold one.

LEMMA InitTypeInv == Init => TypeInv
<1>. SUFFICES ASSUME Init
              PROVE  TypeInv
  OBVIOUS
<1>1. Holders = {}
  BY DEF Init, Holders
<1>2. IsFiniteSet(Holders) /\ Cardinality(Holders) = 0
  BY <1>1, FS_EmptySet
<1>3. /\ now \in 1 .. MaxTime /\ revokedAt \in 0 .. now /\ expires \in 0 .. now + Ttl
      /\ tokens \in -Burst .. Burst /\ charged \in Nat /\ inFlight = 0 /\ inFlight <= Slots
      /\ pc \in [Requests -> States] /\ since \in [Requests -> 0 .. now]
  BY DEF Init, States
<1>4. active \in BOOLEAN /\ flushed \in BOOLEAN
  BY Zenon DEF Init
<1>. QED  BY <1>2, <1>3, <1>4 DEF TypeInv, TypeOK, States

\* A step of a request that holds no slot, before or after it.
LEMMA OutsideKeepsTypeInv ==
  ASSUME TypeInv, NEW r \in Requests, NEW to \in States, Goes(r, to),
         pc[r] \notin {"running", "charged"}, to \notin {"running", "charged"},
         UNCHANGED <<time, gates>>, expires' \in 0 .. now + Ttl
  PROVE  TypeInv'
<1>1. TypeOK /\ UNCHANGED <<now, active, revokedAt, flushed, tokens, inFlight, charged>>
  BY DEF TypeInv, time, gates
<1>2. Holders' = Holders
  BY <1>1, NoHolder
<1>3. pc' \in [Requests -> States] /\ since' \in [Requests -> 0 .. now]
  BY <1>1, GoesTo
<1>. QED  BY <1>1, <1>2, <1>3 DEF TypeInv, TypeOK, States

LEMMA NextKeepsTypeInv ==
  ASSUME TypeInv, [Next]_vars
  PROVE  TypeInv'
<1>. USE DEF States
<1>0. TypeOK /\ IsFiniteSet(Holders) /\ Cardinality(Holders) \in Nat
  BY SetsAreFinite DEF TypeInv
<1>1. ASSUME NEW r \in Requests, Hit(r)
      PROVE  TypeInv'
  BY <1>0, <1>1, OutsideKeepsTypeInv DEF Hit, KeptTillExpiry, TypeOK
<1>2. ASSUME NEW r \in Requests, Miss(r)
      PROVE  TypeInv'
  BY <1>0, <1>2, OutsideKeepsTypeInv DEF Miss, TypeOK
<1>3. ASSUME NEW r \in Requests, LooksUp(r)
      PROVE  TypeInv'
  <2>1. pc[r] = "looking" /\ UNCHANGED <<time, gates>> /\ expires' = expires
    BY <1>3 DEF LooksUp
  <2>2. CASE active
    BY <1>0, <1>3, <2>1, <2>2, OutsideKeepsTypeInv DEF LooksUp, TypeOK
  <2>3. CASE ~active
    BY <1>0, <1>3, <2>1, <2>3, OutsideKeepsTypeInv DEF LooksUp, TypeOK
  <2>. QED  BY <2>2, <2>3
<1>4. ASSUME NEW r \in Requests, LookupFails(r)
      PROVE  TypeInv'
  BY <1>0, <1>4, OutsideKeepsTypeInv DEF LookupFails, TypeOK
<1>5. ASSUME NEW r \in Requests, Puts(r)
      PROVE  TypeInv'
  BY <1>0, <1>5, OutsideKeepsTypeInv DEF Puts, TypeOK
<1>6. ASSUME NEW r \in Requests, RateRefuses(r) \/ AsksBucket(r) \/ NoSlot(r)
      PROVE  TypeInv'
  BY <1>0, <1>6, OutsideKeepsTypeInv DEF RateRefuses, AsksBucket, NoSlot, TypeOK
<1>7. ASSUME NEW r \in Requests, Acquires(r)
      PROVE  TypeInv'
  <2>1. UNCHANGED <<now, active, revokedAt, flushed, expires, tokens, charged>> /\ Goes(r, "running")
    BY <1>7 DEF Acquires, time
  <2>2. pc[r] = "checked" /\ inFlight < Slots /\ inFlight' = inFlight + 1
    BY <1>7 DEF Acquires
  <2>3. /\ pc' \in [Requests -> States] /\ since' \in [Requests -> 0 .. now]
        /\ pc'[r] = "running" /\ \A s \in Requests : s # r => pc'[s] = pc[s]
    BY <1>0, <2>1, GoesTo
  <2>4. Holders' = Holders \cup {r} /\ r \notin Holders
    BY <2>2, <2>3 DEF Holders
  <2>5. IsFiniteSet(Holders') /\ Cardinality(Holders') = Cardinality(Holders) + 1
    BY <1>0, <2>4, FS_AddElement
  <2>. QED  BY <1>0, <2>1, <2>2, <2>3, <2>5 DEF TypeInv, TypeOK
<1>8. ASSUME NEW r \in Requests, Charges(r) \/ BodyRefused(r)
      PROVE  TypeInv'
  <2>1. /\ UNCHANGED <<now, active, revokedAt, flushed, expires, inFlight>> /\ Goes(r, "charged")
        /\ pc[r] = "running"
    BY <1>8 DEF Charges, BodyRefused, time, gates
  <2>2. /\ pc' \in [Requests -> States] /\ since' \in [Requests -> 0 .. now]
        /\ pc'[r] = "charged" /\ \A s \in Requests : s # r => pc'[s] = pc[s]
    BY <1>0, <2>1, GoesTo
  <2>3. Holders' = Holders
    BY <2>1, <2>2 DEF Holders
  <2>4. tokens' \in -Burst .. Burst /\ charged' \in Nat
    BY <1>0, <1>8 DEF Charges, BodyRefused, AfterCharge, gates, TypeOK
  <2>. QED  BY <1>0, <2>1, <2>2, <2>3, <2>4 DEF TypeInv, TypeOK
<1>9. ASSUME NEW r \in Requests, Releases(r)
      PROVE  TypeInv'
  <2>1. UNCHANGED <<now, active, revokedAt, flushed, expires, tokens, charged>> /\ Goes(r, "over")
    BY <1>9 DEF Releases, time
  <2>2. pc[r] = "charged" /\ inFlight' = inFlight - 1
    BY <1>9 DEF Releases
  <2>3. /\ pc' \in [Requests -> States] /\ since' \in [Requests -> 0 .. now]
        /\ pc'[r] = "over" /\ \A s \in Requests : s # r => pc'[s] = pc[s]
    BY <1>0, <2>1, GoesTo
  <2>4. Holders' = Holders \ {r} /\ r \in Holders
    BY <2>2, <2>3 DEF Holders
  <2>5. IsFiniteSet(Holders') /\ Cardinality(Holders') = Cardinality(Holders) - 1
    BY <1>0, <2>4, FS_RemoveElement
  <2>. QED  BY <1>0, <2>1, <2>2, <2>3, <2>5 DEF TypeInv, TypeOK
<1>10. CASE Flushes \/ Evicts \/ Revokes \/ UNCHANGED vars
  <2>1. UNCHANGED <<now, tokens, inFlight, pc, since, charged>>
    BY <1>10 DEF Flushes, Evicts, Revokes, vars, time, gates
  <2>2. Holders' = Holders
    BY <2>1 DEF Holders
  <2>3. expires' \in 0 .. now + Ttl /\ revokedAt' \in 0 .. now
    BY <1>0, <1>10 DEF Flushes, Evicts, Revokes, vars, time, TypeOK
  <2>4. active' \in BOOLEAN /\ flushed' \in BOOLEAN
    BY <1>0, <1>10, Zenon DEF Flushes, Evicts, Revokes, vars, time, TypeOK
  <2>. QED  BY <1>0, <2>1, <2>2, <2>3, <2>4 DEF TypeInv, TypeOK
<1>11. CASE Tick
  <2>1. UNCHANGED <<active, revokedAt, flushed, expires, inFlight, pc, since, charged>>
    BY <1>11 DEF Tick
  <2>2. now' = now + 1 /\ now' \in 1 .. MaxTime
    BY <1>0, <1>11 DEF Tick, TypeOK
  <2>3. Holders' = Holders
    BY <2>1 DEF Holders
  <2>4. tokens' \in -Burst .. Burst
    BY <1>0, <1>11 DEF Tick, TypeOK
  <2>5. since' \in [Requests -> 0 .. now']
    <3>1. since \in [Requests -> 0 .. now] /\ now \in Nat
      BY <1>0 DEF TypeOK
    <3>2. 0 .. now \subseteq 0 .. now'
      BY <2>2, <3>1
    <3>. QED  BY <2>1, <3>1, <3>2
  <2>. QED  BY <1>0, <2>1, <2>2, <2>3, <2>4, <2>5 DEF TypeInv, TypeOK
<1>. QED  BY <1>1, <1>2, <1>3, <1>4, <1>5, <1>6, <1>7, <1>8, <1>9, <1>10, <1>11, Zenon DEF Next

\* The gates' types, and their slots: no more requests hold one than there are.
THEOREM SlotsAreCounted == Spec => []TypeOK
<1>1. TypeInv => TypeOK
  BY DEF TypeInv
<1>. QED  BY <1>1, InitTypeInv, NextKeepsTypeInv, PTL DEF Spec

-----------------------------------------------------------------------------
\* How old an entry can be.

LEMMA InitLookupInv == Init => LookupInv
  BY DEF Init, LookupInv

LEMMA NextKeepsLookupInv ==
  ASSUME TypeInv, LookupInv, [Next]_vars
  PROVE  LookupInv'
<1>. USE DEF States
<1>0. TypeOK /\ now \in Nat /\ revokedAt \in 0 .. now /\ expires \in 0 .. now + Ttl
      /\ since \in [Requests -> 0 .. now]
  BY DEF TypeInv, TypeOK
\* A step that begins no lookup, and gets no answer, leaves less to show.
<1>1. ASSUME NEW r \in Requests, NEW to \in States \ {"looking", "found"}, Goes(r, to),
             UNCHANGED time, ~active => expires' <= revokedAt + Ttl + LookupMax
      PROVE  LookupInv'
  <2>1. pc'[r] = to /\ \A s \in Requests : s # r => pc'[s] = pc[s] /\ since'[s] = since[s]
    BY <1>0, <1>1, GoesTo
  <2>. QED  BY <1>1, <2>1 DEF LookupInv, time
<1>2. ASSUME NEW r \in Requests, Hit(r)
      PROVE  LookupInv'
  BY <1>1, <1>2 DEF Hit, KeptTillExpiry, LookupInv
<1>3. ASSUME NEW r \in Requests, Miss(r)
      PROVE  LookupInv'
  <2>1. UNCHANGED <<now, active, revokedAt>> /\ expires' = 0 /\ Goes(r, "looking")
    BY <1>3 DEF Miss, time
  <2>2. /\ pc'[r] = "looking" /\ since'[r] = now
        /\ \A s \in Requests : s # r => pc'[s] = pc[s] /\ since'[s] = since[s]
    BY <1>0, <2>1, GoesTo
  <2>. QED  BY <1>0, <2>1, <2>2 DEF LookupInv
<1>4. ASSUME NEW r \in Requests, LooksUp(r), active
      PROVE  LookupInv'
  <2>1. /\ UNCHANGED <<now, active, revokedAt, expires>> /\ Goes(r, "found")
        /\ pc[r] = "looking"
    BY <1>4 DEF LooksUp, time
  <2>2. /\ pc'[r] = "found" /\ since'[r] = since[r]
        /\ \A s \in Requests : s # r => pc'[s] = pc[s] /\ since'[s] = since[s]
    BY <1>0, <2>1, GoesTo
  <2>. QED  BY <1>0, <1>4, <2>1, <2>2 DEF LookupInv
<1>5. ASSUME NEW r \in Requests, LooksUp(r), ~active
      PROVE  LookupInv'
  BY <1>1, <1>5 DEF LooksUp, LookupInv
<1>6. ASSUME NEW r \in Requests, LookupFails(r)
      PROVE  LookupInv'
  BY <1>1, <1>6 DEF LookupFails, LookupInv
<1>7. ASSUME NEW r \in Requests, Puts(r)
      PROVE  LookupInv'
  <2>1. now <= since[r] + LookupMax /\ (~active => since[r] <= revokedAt)
    BY <1>7 DEF Puts, LookupInv
  <2>2. ~active => now + Ttl <= revokedAt + Ttl + LookupMax
    BY <1>0, <2>1
  <2>. QED  BY <1>1, <1>7, <2>2 DEF Puts
<1>8. ASSUME NEW r \in Requests,
             RateRefuses(r) \/ NoSlot(r) \/ BodyRefused(r) \/ Acquires(r) \/ Releases(r)
      PROVE  LookupInv'
  BY <1>1, <1>8 DEF RateRefuses, NoSlot, BodyRefused, Acquires, Releases, LookupInv
<1>9. ASSUME NEW r \in Requests, AsksBucket(r) \/ Charges(r)
      PROVE  LookupInv'
  BY <1>1, <1>9 DEF AsksBucket, Charges, LookupInv
<1>10. CASE Flushes \/ Evicts \/ UNCHANGED vars
  BY <1>0, <1>10 DEF Flushes, Evicts, LookupInv, vars, time
<1>11. CASE Revokes
  BY <1>0, <1>11 DEF Revokes, LookupInv
<1>12. CASE Tick
  <2>1. \A r \in Requests : pc[r] \in {"looking", "found"} => now + 1 <= since[r] + LookupMax
    BY <1>0, <1>12 DEF Tick
  <2>. QED  BY <1>0, <1>12, <2>1 DEF Tick, LookupInv
<1>. QED  BY <1>2, <1>3, <1>4, <1>5, <1>6, <1>7, <1>8, <1>9, <1>10, <1>11, <1>12, Zenon DEF Next

\* A request is authorized by an entry, or by an answer.
LEMMA AuthorizedSoon ==
  ASSUME TypeInv, LookupInv, [Next]_vars, ~active,
         NEW r \in Requests, pc[r] # "authorized", pc'[r] = "authorized"
  PROVE  now - revokedAt < Ttl + LookupMax
<1>0. TypeOK /\ now \in Nat /\ revokedAt \in Nat /\ expires \in Nat
      /\ \A s \in Requests : since[s] \in Nat
  BY DEF TypeInv, TypeOK
<1>1. ASSUME NEW s \in Requests, NEW to \in States \ {"authorized"}, Goes(s, to)
      PROVE  FALSE
  BY <1>0, <1>1, GoesTo
<1>2. ASSUME NEW s \in Requests, Hit(s)
      PROVE  now < expires
  BY <1>2 DEF Hit
<1>3. ASSUME NEW s \in Requests, Puts(s)
      PROVE  now <= revokedAt + LookupMax
  <2>1. now <= since[s] + LookupMax /\ since[s] <= revokedAt
    BY <1>3 DEF Puts, LookupInv
  <2>. QED  BY <1>0, <2>1
<1>4. ASSUME NEW s \in Requests,
             \/ Miss(s) \/ LooksUp(s) \/ LookupFails(s) \/ RateRefuses(s) \/ AsksBucket(s)
             \/ Acquires(s) \/ NoSlot(s) \/ Charges(s) \/ BodyRefused(s) \/ Releases(s)
      PROVE  FALSE
  <2>1. \E to \in States \ {"authorized"} : Goes(s, to)
    BY <1>4 DEF States, Miss, LooksUp, LookupFails, RateRefuses, AsksBucket, Acquires, NoSlot,
                Charges, BodyRefused, Releases
  <2>. QED  BY <1>1, <2>1
<1>5. ASSUME Flushes \/ Evicts \/ Revokes \/ Tick \/ UNCHANGED vars
      PROVE  FALSE
  BY <1>5 DEF Flushes, Evicts, Revokes, Tick, vars
<1>6. now < expires \/ now <= revokedAt + LookupMax
  BY <1>2, <1>3, <1>4, <1>5, Zenon DEF Next
<1>7. expires <= revokedAt + Ttl + LookupMax
  BY DEF LookupInv
<1>. QED  BY <1>0, <1>6, <1>7

\* A key that is revoked opens the gate for less than an entry's lifetime and a
\* lookup's time after it, however lookups, uses and flushes interleave.
THEOREM RevocationIsSoon == Spec => RevokedIsRefusedSoon
<1>1. TypeInv /\ LookupInv /\ [Next]_vars =>
        [\A r \in Requests :
           pc[r] # "authorized" /\ pc'[r] = "authorized" /\ ~active
             => now - revokedAt < Ttl + LookupMax]_vars
  BY AuthorizedSoon
<1>. QED  BY <1>1, InitTypeInv, NextKeepsTypeInv, InitLookupInv, NextKeepsLookupInv, PTL
          DEF Spec, RevokedIsRefusedSoon

-----------------------------------------------------------------------------
\* What the bucket holds.

LEMMA TwoRoundsIsNat == TwoRounds \in Nat /\ MaxCost * (2 * Slots) = TwoRounds
  BY DEF TwoRounds

LEMMA InitBudget == Init => Budget
<1>. SUFFICES ASSUME Init
              PROVE  Owed(Left, 0)
  BY DEF Budget
<1>1. Running = {} /\ \A r \in Requests : pc[r] # "checked"
  BY DEF Init, Running
<1>2. Cardinality(Running) = 0
  BY <1>1, FS_EmptySet
<1>3. MaxCost * (2 * Slots - 0) = TwoRounds /\ TwoRounds \in Nat
  BY TwoRoundsIsNat
<1>4. tokens = Left /\ charged = 0 /\ now = 1
  BY DEF Init
<1>5. TwoRounds * 0 = 0 /\ (Burst + 1) * 0 = 0 /\ Rate * (now - 1) = 0
  BY <1>3, <1>4
<1>6. Forgiven(Left, 0)
  BY <1>3, <1>4, <1>5 DEF Forgiven
<1>. QED  BY <1>1, <1>2, <1>3, <1>6 DEF Owed

\* A step that leaves the bucket and the sets as they are, and asks nothing.
LEMMA AsBeforeKeepsBudget ==
  ASSUME Budget, UNCHANGED <<now, tokens, charged>>,
         Running' = Running, Earlier' = Earlier,
         \A s \in Requests : pc'[s] = "checked" => pc[s] = "checked"
  PROVE  Budget'
<1>1. (\E r \in Requests : pc'[r] = "checked") => \E r \in Requests : pc[r] = "checked"
  OBVIOUS
<1>2. ASSUME NEW u \in Int, NEW k \in Nat
      PROVE  Forgiven(u, k)' = Forgiven(u, k)
  BY DEF Forgiven
<1>3. ASSUME NEW u \in Int, NEW k \in Nat, Owed(u, k)
      PROVE  Owed(u, k)'
  BY <1>1, <1>2, <1>3, Zenon DEF Owed
<1>. QED  BY <1>3 DEF Budget

\* The bucket was asked: what its floor forgave is forgiven.
LEMMA AsksBucketKeepsBudget ==
  ASSUME TypeInv, Budget, NEW r \in Requests, AsksBucket(r)
  PROVE  Budget'
<1>. USE DEF States
<1>0. TypeOK /\ tokens \in Int /\ charged \in Int /\ now \in Int
  BY DEF TypeInv, TypeOK
<1>1. UNCHANGED <<now, tokens, charged>> /\ pc[r] = "authorized"
  BY DEF AsksBucket, time, gates
<1>2. CASE tokens >= 1
  <2>1. Goes(r, "checked")
    BY <1>2 DEF AsksBucket
  <2>2. Running' = Running /\ Earlier' = Earlier
    BY <1>0, <1>1, <2>1, NoHolder
  <2>3. tokens >= 1 - MaxCost * (Slots - Cardinality(Earlier))
    <3>1. 0 <= Slots - Cardinality(Earlier) /\ Slots - Cardinality(Earlier) \in Int
      BY SetsAreFinite
    <3>2. MaxCost * 0 = 0 /\ MaxCost * (Slots - Cardinality(Earlier)) \in Int
      BY <3>1
    <3>3. 0 <= MaxCost * (Slots - Cardinality(Earlier))
      BY <3>1, <3>2, MulMono
    <3>. QED  BY <1>0, <1>2, <3>2, <3>3
  <2>4. PICK u \in Int, k \in Nat : Owed(u, k)
    BY DEF Budget
  <2>5. Forgiven(u, k) /\ u >= 1 - MaxCost * (2 * Slots - Cardinality(Running))
    BY <2>4 DEF Owed
  <2>6. u <= tokens
    BY <2>5 DEF Forgiven
  <2>7. tokens >= 1 - MaxCost * (2 * Slots - Cardinality(Running))
    <3>1. MaxCost * (2 * Slots - Cardinality(Running)) \in Int
      BY SetsAreFinite
    <3>. QED  BY <1>0, <2>5, <2>6, <3>1
  <2>8. \E h \in Nat : Forgiven(tokens, h)
    <3>1. CASE u = tokens
      BY <2>5, <3>1
    <3>2. CASE u < tokens
      <4>1. Forgiven(tokens, k + 1)
        <5>1. TwoRounds * (k + 1) = TwoRounds * k + TwoRounds /\ TwoRounds * k \in Int
              /\ (Burst + 1) * (k + 1) = (Burst + 1) * k + (Burst + 1)
              /\ (Burst + 1) * k \in Int /\ Rate * (now - 1) \in Int
          BY <1>0, MulStep, TwoRoundsIsNat
        <5>2. /\ tokens - u <= TwoRounds /\ ~Fits
              /\ charged + u <= Left + Rate * (now - 1) + TwoRounds * k
              /\ (Burst + 1) * k + tokens + Burst <= Rate * (now - 1)
          BY <1>0, <2>5, <3>2 DEF Forgiven
        <5>3. /\ charged + tokens <= Left + Rate * (now - 1) + TwoRounds * (k + 1)
              /\ (Burst + 1) * (k + 1) <= Rate * (now - 1)
          BY <1>0, <1>2, <5>1, <5>2, TwoRoundsIsNat
        <5>. QED  BY <1>0, <5>2, <5>3, TwoRoundsIsNat DEF Forgiven
      <4>. QED  BY <4>1
    <3>. QED  BY <1>0, <2>6, <3>1, <3>2
  <2>9. PICK h \in Nat : Forgiven(tokens, h)
    BY <2>8
  <2>10. Forgiven(tokens, h)' <=> Forgiven(tokens, h)
    BY <1>1 DEF Forgiven
  <2>11. Owed(tokens, h)'
    BY <1>1, <2>2, <2>3, <2>7, <2>9, <2>10, Zenon DEF Owed
  <2>. QED  BY <1>0, <1>1, <2>11 DEF Budget
<1>3. CASE ~(tokens >= 1)
  <2>1. Goes(r, "over")
    BY <1>3 DEF AsksBucket
  <2>2. Running' = Running /\ Earlier' = Earlier
    BY <1>0, <1>1, <2>1, NoHolder
  <2>3. pc'[r] = "over" /\ \A s \in Requests : s # r => pc'[s] = pc[s]
    BY <1>0, <2>1, GoesTo
  <2>4. \A s \in Requests : pc'[s] = "checked" => pc[s] = "checked"
    BY <2>3
  <2>. QED  BY <1>1, <2>2, <2>4, AsBeforeKeepsBudget
<1>. QED  BY <1>2, <1>3

\* A slot is taken by a request that has just asked: what the others may still cost in
\* this round is in the bucket.
LEMMA AcquiresKeepsBudget ==
  ASSUME TypeInv, Budget, NEW r \in Requests, Acquires(r)
  PROVE  Budget'
<1>. USE DEF States
<1>0. TypeOK /\ now \in Nat /\ \A s \in Requests : since[s] \in Nat
  BY DEF TypeInv, TypeOK
<1>1. UNCHANGED <<now, tokens, charged>> /\ Goes(r, "running") /\ pc[r] = "checked"
      /\ inFlight < Slots
  BY DEF Acquires, time
<1>2. /\ pc'[r] = "running" /\ since'[r] = now
      /\ \A s \in Requests : s # r => pc'[s] = pc[s] /\ since'[s] = since[s]
  BY <1>0, <1>1, GoesTo
<1>3. Running' = Running \cup {r} /\ r \notin Running
  BY <1>1, <1>2 DEF Running
<1>4. Earlier' = Earlier
  BY <1>0, <1>1, <1>2 DEF Earlier, Running
<1>5. Cardinality(Running') = Cardinality(Running) + 1
  BY <1>3, SetsAreFinite, FS_AddElement
<1>6. PICK u \in Int, k \in Nat : Owed(u, k)
  BY DEF Budget
<1>7. u >= 1 - MaxCost * (Slots - Cardinality(Earlier))
  BY <1>1, <1>6 DEF Owed
<1>8. u >= 1 - MaxCost * (2 * Slots - Cardinality(Running'))
  <2>1. Cardinality(Running) + 1 <= Slots /\ Cardinality(Earlier) \in Nat
        /\ Cardinality(Running) \in Nat /\ inFlight \in Int
    BY <1>0, <1>1, SetsAreFinite DEF TypeOK
  <2>2. Slots - Cardinality(Earlier) <= 2 * Slots - Cardinality(Running')
    BY <1>5, <2>1
  <2>3. MaxCost * (Slots - Cardinality(Earlier)) <= MaxCost * (2 * Slots - Cardinality(Running'))
    BY <1>5, <2>1, <2>2, MulMono
  <2>4. /\ MaxCost * (Slots - Cardinality(Earlier)) \in Int
        /\ MaxCost * (2 * Slots - Cardinality(Running')) \in Int
    BY <1>5, <2>1
  <2>. QED  BY <1>7, <2>3, <2>4
<1>9. Forgiven(u, k)'
  BY <1>1, <1>6 DEF Owed, Forgiven
<1>10. Owed(u, k)'
  BY <1>4, <1>7, <1>8, <1>9, Zenon DEF Owed
<1>. QED  BY <1>10 DEF Budget

\* A charge is of a request that ran before, and is all its cost, which the floor may forgive:
\* where it does, two rounds are larger than a burst.
LEMMA ChargesKeepsBudget ==
  ASSUME TypeInv, Budget, NEW r \in Requests, Charges(r)
  PROVE  Budget'
<1>. USE DEF States
<1>0. TypeOK /\ tokens \in -Burst .. Burst /\ now \in Nat /\ charged \in Nat
  BY DEF TypeInv, TypeOK
<1>1. UNCHANGED now /\ Goes(r, "charged") /\ pc[r] = "running" /\ since[r] < now
  BY <1>0 DEF Charges, time, TypeOK
<1>2. /\ pc'[r] = "charged"
      /\ \A s \in Requests : s # r => pc'[s] = pc[s] /\ since'[s] = since[s]
  BY <1>0, <1>1, GoesTo
<1>3. Running' = Running \ {r} /\ r \in Running
  BY <1>1, <1>2 DEF Running
<1>4. Earlier' = Earlier \ {r} /\ r \in Earlier
  BY <1>1, <1>2 DEF Earlier, Running
<1>. DEFINE run == Cardinality(Running)  old == Cardinality(Earlier)
<1>5. /\ run \in Nat /\ old \in Nat /\ run <= Slots
      /\ Cardinality(Running') = run - 1 /\ Cardinality(Earlier') = old - 1
  <2>1. Cardinality(Running') = run - 1
    BY <1>3, SetsAreFinite, FS_RemoveElement
  <2>2. Cardinality(Earlier') = old - 1
    BY <1>4, SetsAreFinite, FS_RemoveElement
  <2>3. run <= inFlight /\ inFlight <= Slots /\ inFlight \in Int /\ run \in Nat /\ old \in Nat
    <3>1. inFlight = Cardinality(Holders)
      BY <1>0 DEF TypeOK
    <3>. QED  BY <3>1, SetsAreFinite
  <2>. QED  BY <2>1, <2>2, <2>3
<1>6. PICK n \in Costs : tokens' = AfterCharge(n) /\ charged' = charged + n
  BY DEF Charges
<1>7. n \in Nat /\ n <= MaxCost
  OBVIOUS
<1>8. /\ MaxCost * (2 * Slots - run) \in Int /\ MaxCost * (Slots - old) \in Int
      /\ MaxCost * (2 * Slots - (run - 1)) = MaxCost * (2 * Slots - run) + MaxCost
      /\ MaxCost * (Slots - (old - 1)) = MaxCost * (Slots - old) + MaxCost
  <2>. HIDE DEF run, old
  <2>1. /\ 2 * Slots - run \in Int /\ Slots - old \in Int
        /\ 2 * Slots - (run - 1) = (2 * Slots - run) + 1
        /\ Slots - (old - 1) = (Slots - old) + 1
    BY <1>5
  <2>. QED  BY <2>1, MulStep
<1>9. PICK u \in Int, k \in Nat : Owed(u, k)
  BY DEF Budget
<1>10. Forgiven(u, k) /\ u >= 1 - MaxCost * (2 * Slots - run)
  BY <1>9 DEF Owed
<1>11. u - n >= 1 - MaxCost * (2 * Slots - (run - 1)) /\ u - n \in Int
  BY <1>0, <1>7, <1>8, <1>10
<1>12. u - n >= 1 - TwoRounds
  <2>. HIDE DEF run, old
  <2>1. run >= 1
    <3>1. Running # {}
      BY <1>3
    <3>2. run # 0
      BY <3>1, SetsAreFinite, FS_EmptySet DEF run
    <3>. QED  BY <1>5, <3>2
  <2>2. MaxCost * (2 * Slots - (run - 1)) <= MaxCost * (2 * Slots)
    BY <1>5, <2>1, MulMono
  <2>. QED  BY <1>5, <1>7, <1>8, <1>11, <2>2, TwoRoundsIsNat
<1>13. (\E s \in Requests : pc'[s] = "checked")
         => u - n >= 1 - MaxCost * (Slots - Cardinality(Earlier'))
  <2>1. (\E s \in Requests : pc'[s] = "checked") => \E s \in Requests : pc[s] = "checked"
    BY <1>2
  <2>2. (\E s \in Requests : pc'[s] = "checked") => u >= 1 - MaxCost * (Slots - old)
    BY <1>9, <2>1 DEF Owed
  <2>3. (u >= 1 - MaxCost * (Slots - old)) => u - n >= 1 - MaxCost * (Slots - (old - 1))
    BY <1>0, <1>7, <1>8
  <2>. QED  BY <1>5, <2>2, <2>3
<1>14. Forgiven(u - n, k)'
  <2>0. /\ TwoRounds * k \in Int /\ (Burst + 1) * k \in Int /\ Rate * (now - 1) \in Int
        /\ TwoRounds \in Nat
    BY <1>0, TwoRoundsIsNat
  <2>1. /\ u <= tokens /\ tokens - u <= TwoRounds
        /\ charged + u <= Left + Rate * (now - 1) + TwoRounds * k
        /\ (Burst + 1) * k <= Rate * (now - 1)
        /\ u < tokens => (Burst + 1) * k + tokens + Burst <= Rate * (now - 1)
        /\ Fits => u = tokens /\ k = 0
    BY <1>10 DEF Forgiven
  <2>2. charged' + (u - n) <= Left + Rate * (now' - 1) + TwoRounds * k
    BY <1>0, <1>1, <1>6, <1>7, <2>0, <2>1
  <2>3. CASE tokens - n < -Burst
    <3>1. tokens' = -Burst
      BY <1>6, <2>3 DEF AfterCharge
    <3>2. u - n <= tokens' /\ tokens' - (u - n) <= TwoRounds
      BY <1>0, <1>7, <1>12, <2>0, <2>1, <2>3, <3>1
    <3>3. ~Fits
      BY <1>0, <1>7, <1>12, <2>0, <2>1, <2>3 DEF Fits
    <3>4. (Burst + 1) * k + tokens' + Burst <= Rate * (now' - 1)
      BY <1>1, <2>0, <2>1, <3>1
    <3>. QED  BY <1>1, <2>1, <2>2, <3>2, <3>3, <3>4 DEF Forgiven, TwoRounds, Fits
  <2>4. CASE ~(tokens - n < -Burst)
    <3>1. tokens' = tokens - n
      BY <1>6, <2>4 DEF AfterCharge
    <3>2. u - n <= tokens' /\ tokens' - (u - n) <= TwoRounds
      BY <1>0, <1>7, <2>0, <2>1, <3>1
    <3>3. u - n < tokens' => (Burst + 1) * k + tokens' + Burst <= Rate * (now' - 1)
      BY <1>0, <1>1, <1>7, <2>0, <2>1, <3>1
    <3>4. Fits => u - n = tokens' /\ k = 0
      BY <2>1, <3>1
    <3>. QED  BY <1>1, <2>1, <2>2, <3>2, <3>3, <3>4 DEF Forgiven, TwoRounds, Fits
  <2>. QED  BY <2>3, <2>4
<1>15. Owed(u - n, k)'
  <2>1. u - n >= 1 - MaxCost * (2 * Slots - Cardinality(Running'))
    BY <1>5, <1>11
  <2>. QED  BY <1>13, <1>14, <2>1, Zenon DEF Owed
<1>. QED  BY <1>11, <1>15 DEF Budget

\* A request that is refused by its body has cost nothing: as a charge of nothing.
LEMMA BodyRefusedKeepsBudget ==
  ASSUME TypeInv, Budget, NEW r \in Requests, BodyRefused(r)
  PROVE  Budget'
<1>. USE DEF States
<1>0. TypeOK /\ now \in Nat
  BY DEF TypeInv, TypeOK
<1>1. UNCHANGED <<now, tokens, charged>> /\ Goes(r, "charged") /\ pc[r] = "running"
  BY DEF BodyRefused, time, gates
<1>2. /\ pc'[r] = "charged"
      /\ \A s \in Requests : s # r => pc'[s] = pc[s] /\ since'[s] = since[s]
  BY <1>0, <1>1, GoesTo
<1>3. Running' = Running \ {r} /\ Earlier' = Earlier \ {r}
  BY <1>1, <1>2 DEF Running, Earlier
<1>4. /\ Cardinality(Running') \in Nat /\ Cardinality(Running') <= Cardinality(Running)
      /\ Cardinality(Earlier') \in Nat /\ Cardinality(Earlier') <= Cardinality(Earlier)
  <2>1. Running' \subseteq Running /\ Earlier' \subseteq Earlier
    BY <1>3
  <2>2. /\ IsFiniteSet(Running') /\ Cardinality(Running') <= Cardinality(Running)
        /\ IsFiniteSet(Earlier') /\ Cardinality(Earlier') <= Cardinality(Earlier)
    BY <2>1, SetsAreFinite, FS_Subset
  <2>. QED  BY <2>2, FS_CardinalityType
<1>5. /\ Cardinality(Running) \in Nat /\ Cardinality(Earlier) \in Nat
  BY SetsAreFinite
<1>6. PICK u \in Int, k \in Nat : Owed(u, k)
  BY DEF Budget
<1>7. u >= 1 - MaxCost * (2 * Slots - Cardinality(Running'))
  <2>1. u >= 1 - MaxCost * (2 * Slots - Cardinality(Running))
    BY <1>6 DEF Owed
  <2>2. MaxCost * (2 * Slots - Cardinality(Running))
          <= MaxCost * (2 * Slots - Cardinality(Running'))
    BY <1>4, <1>5, MulMono
  <2>3. /\ MaxCost * (2 * Slots - Cardinality(Running)) \in Int
        /\ MaxCost * (2 * Slots - Cardinality(Running')) \in Int
    BY <1>4, <1>5
  <2>. QED  BY <2>1, <2>2, <2>3
<1>8. ASSUME NEW s \in Requests, pc'[s] = "checked"
      PROVE  u >= 1 - MaxCost * (Slots - Cardinality(Earlier'))
  <2>1. u >= 1 - MaxCost * (Slots - Cardinality(Earlier))
    BY <1>2, <1>6, <1>8 DEF Owed
  <2>2. MaxCost * (Slots - Cardinality(Earlier)) <= MaxCost * (Slots - Cardinality(Earlier'))
    BY <1>4, <1>5, MulMono
  <2>3. /\ MaxCost * (Slots - Cardinality(Earlier)) \in Int
        /\ MaxCost * (Slots - Cardinality(Earlier')) \in Int
    BY <1>4, <1>5
  <2>. QED  BY <2>1, <2>2, <2>3
<1>9. Forgiven(u, k)'
  BY <1>1, <1>6 DEF Owed, Forgiven
<1>10. Owed(u, k)'
  BY <1>7, <1>8, <1>9, Zenon DEF Owed
<1>. QED  BY <1>10 DEF Budget

\* A tick fills the bucket, and comes when nobody has just asked.
LEMMA TickKeepsBudget ==
  ASSUME TypeInv, Budget, Tick
  PROVE  Budget'
<1>0. tokens \in -Burst .. Burst /\ now \in Nat /\ charged \in Nat
  BY DEF TypeInv, TypeOK
<1>1. /\ now' = now + 1 /\ UNCHANGED <<pc, since, charged>>
      /\ \A r \in Requests : pc[r] # "checked"
  BY DEF Tick
<1>2. tokens' \in Int /\ tokens' >= tokens /\ tokens' <= tokens + Rate
  BY <1>0 DEF Tick
<1>3. Running' = Running /\ Cardinality(Running) \in Nat
  BY <1>1, SetsAreFinite DEF Running
<1>4. PICK u \in Int, k \in Nat : Owed(u, k)
  BY DEF Budget
<1>5. Forgiven(u, k) /\ u >= 1 - MaxCost * (2 * Slots - Cardinality(Running))
  BY <1>4 DEF Owed
<1>6. /\ u <= tokens /\ tokens - u <= TwoRounds
      /\ charged + u <= Left + Rate * (now - 1) + TwoRounds * k
      /\ (Burst + 1) * k <= Rate * (now - 1)
      /\ u < tokens => (Burst + 1) * k + tokens + Burst <= Rate * (now - 1)
      /\ Fits => u = tokens /\ k = 0
  BY <1>5 DEF Forgiven
<1>7. PICK v \in Int : /\ u <= v /\ v <= u + Rate /\ v <= tokens' /\ tokens' - v <= TwoRounds
                       /\ v < tokens' => u < tokens
                       /\ u = tokens => v = tokens'
  <2>1. PICK after \in Int : after = tokens'
    BY <1>2
  <2>2. /\ tokens \in Int /\ TwoRounds \in Nat /\ u <= tokens /\ tokens - u <= TwoRounds
        /\ tokens <= after /\ after <= tokens + Rate
    BY <1>0, <1>2, <1>6, <2>1, TwoRoundsIsNat
  <2>3. \E v \in Int : /\ u <= v /\ v <= u + Rate /\ v <= after /\ after - v <= TwoRounds
                       /\ v < after => u < tokens
                       /\ u = tokens => v = after
    <3>1. CASE u + Rate < after
      <4>1. /\ u + Rate \in Int /\ u <= u + Rate /\ after - (u + Rate) <= TwoRounds
            /\ u < tokens
        BY <2>2, <3>1
      <4>. QED  BY <3>1, <4>1
    <3>2. CASE ~(u + Rate < after)
      <4>1. u <= after /\ after <= u + Rate /\ after - after <= TwoRounds /\ ~(after < after)
        BY <2>2, <3>2
      <4>. QED  BY <4>1
    <3>. QED  BY <3>1, <3>2
  <2>. QED  BY <2>1, <2>3
<1>8. /\ Rate * (now' - 1) = Rate * (now - 1) + Rate /\ Rate * (now - 1) \in Int
      /\ TwoRounds * k \in Int /\ (Burst + 1) * k \in Int
  <2>1. now' - 1 = (now - 1) + 1 /\ now - 1 \in Int
    BY <1>0, <1>1
  <2>. QED  BY <2>1, MulStep, TwoRoundsIsNat
<1>9. Forgiven(v, k)'
  <2>1. charged' + v <= Left + Rate * (now' - 1) + TwoRounds * k
    BY <1>0, <1>1, <1>6, <1>7, <1>8
  <2>2. (Burst + 1) * k <= Rate * (now' - 1)
    BY <1>6, <1>8
  <2>3. v < tokens' => (Burst + 1) * k + tokens' + Burst <= Rate * (now' - 1)
    BY <1>0, <1>2, <1>6, <1>7, <1>8
  <2>. QED  BY <1>6, <1>7, <2>1, <2>2, <2>3 DEF Forgiven, TwoRounds, Fits
<1>10. v >= 1 - MaxCost * (2 * Slots - Cardinality(Running'))
  <2>1. MaxCost * (2 * Slots - Cardinality(Running)) \in Int
    BY <1>3
  <2>. QED  BY <1>3, <1>5, <1>7, <2>1
<1>11. \A r \in Requests : pc'[r] # "checked"
  BY <1>1
<1>12. Owed(v, k)'
  BY <1>9, <1>10, <1>11, Zenon DEF Owed
<1>. QED  BY <1>7, <1>12 DEF Budget

LEMMA NextKeepsBudget ==
  ASSUME TypeInv, Budget, [Next]_vars
  PROVE  Budget'
<1>. USE DEF States
<1>0. TypeOK
  BY DEF TypeInv
\* A step of a request that holds no slot and does not ask.
<1>1. ASSUME NEW r \in Requests, NEW to \in States \ {"checked", "running", "charged"},
             Goes(r, to), pc[r] \notin {"running", "charged"}, UNCHANGED <<time, gates>>
      PROVE  Budget'
  <2>1. UNCHANGED <<now, tokens, charged>>
    BY <1>1 DEF time, gates
  <2>2. Running' = Running /\ Earlier' = Earlier
    BY <1>0, <1>1, <2>1, NoHolder
  <2>3. pc'[r] = to /\ \A s \in Requests : s # r => pc'[s] = pc[s]
    BY <1>0, <1>1, GoesTo
  <2>4. \A s \in Requests : pc'[s] = "checked" => pc[s] = "checked"
    BY <2>3
  <2>. QED  BY <2>1, <2>2, <2>4, AsBeforeKeepsBudget
<1>2. ASSUME NEW r \in Requests, Hit(r) \/ Miss(r) \/ LooksUp(r)
      PROVE  Budget'
  BY <1>1, <1>2 DEF Hit, Miss, LooksUp
<1>3. ASSUME NEW r \in Requests, LookupFails(r) \/ Puts(r) \/ RateRefuses(r) \/ NoSlot(r)
      PROVE  Budget'
  BY <1>1, <1>3 DEF LookupFails, Puts, RateRefuses, NoSlot
<1>4. ASSUME NEW r \in Requests, Releases(r)
      PROVE  Budget'
  <2>1. UNCHANGED <<now, tokens, charged>> /\ Goes(r, "over") /\ pc[r] = "charged"
    BY <1>4 DEF Releases, time
  <2>2. pc'[r] = "over" /\ \A s \in Requests : s # r => pc'[s] = pc[s] /\ since'[s] = since[s]
    BY <1>0, <2>1, GoesTo
  <2>3. Running' = Running /\ Earlier' = Earlier
    BY <2>1, <2>2 DEF Running, Earlier
  <2>4. \A s \in Requests : pc'[s] = "checked" => pc[s] = "checked"
    BY <2>2
  <2>. QED  BY <2>1, <2>3, <2>4, AsBeforeKeepsBudget
<1>5. CASE Flushes \/ Evicts \/ Revokes \/ UNCHANGED vars
  <2>1. UNCHANGED <<now, tokens, charged, pc, since>>
    BY <1>5 DEF Flushes, Evicts, Revokes, vars, time, gates
  <2>2. Running' = Running /\ Earlier' = Earlier
    BY <2>1 DEF Running, Earlier
  <2>. QED  BY <2>1, <2>2, AsBeforeKeepsBudget
<1>. QED  BY <1>2, <1>3, <1>4, <1>5, AsksBucketKeepsBudget, AcquiresKeepsBudget,
             ChargesKeepsBudget, BodyRefusedKeepsBudget, TickKeepsBudget, Zenon DEF Next

\* How often a whole burst, and one, goes into what was gained.
LEMMA TimesGained ==
  ASSUME NEW gain \in Nat, NEW k \in Nat, (Burst + 1) * k <= gain
  PROVE  k <= gain \div (Burst + 1)
<1>1. ASSUME NEW d \in Nat, d > 0, d * k <= gain
      PROVE  k <= gain \div d
  BY <1>1, SMTT(30)
<1>. QED  BY <1>1

\* What was charged came out of a bucket that is no deeper in debt than two rounds, and was
\* forgiven two more as often as it could gain a burst.
LEMMA BudgetBounds ==
  ASSUME TypeInv, Budget
  PROVE  ChargedWithinRate
<1>0. tokens \in Int /\ now \in Nat /\ now >= 1 /\ charged \in Nat /\ Cardinality(Running) \in Nat
  BY SetsAreFinite DEF TypeInv, TypeOK
<1>. DEFINE gain == Rate * (now - 1)
<1>1. gain \in Nat
  <2>1. 0 <= now - 1 /\ now - 1 \in Int /\ Rate * 0 = 0
    BY <1>0
  <2>. QED  BY <2>1, MulMono
<1>2. PICK u \in Int, k \in Nat : Owed(u, k)
  BY DEF Budget
<1>3. Forgiven(u, k) /\ u >= 1 - MaxCost * (2 * Slots - Cardinality(Running))
  BY <1>2 DEF Owed
<1>4. u >= 1 - TwoRounds /\ TwoRounds \in Nat
  <2>1. MaxCost * (2 * Slots - Cardinality(Running)) <= MaxCost * (2 * Slots)
    BY <1>0, MulMono
  <2>2. MaxCost * (2 * Slots - Cardinality(Running)) \in Int
    BY <1>0
  <2>. QED  BY <1>3, <2>1, <2>2, TwoRoundsIsNat
<1>5. k <= Floorings /\ Floorings \in Int
  <2>1. CASE TwoRounds > Burst
    <3>1. (Burst + 1) * k <= gain
      BY <1>3 DEF Forgiven
    <3>2. Floorings = gain \div (Burst + 1)
      BY <2>1 DEF Floorings
    <3>3. gain \div (Burst + 1) \in Int
      BY <1>1
    <3>. HIDE DEF gain
    <3>. QED  BY <1>1, <3>1, <3>2, <3>3, TimesGained
  <2>2. CASE ~(TwoRounds > Burst)
    <3>1. Fits /\ Floorings = 0
      BY <1>4, <2>2 DEF Fits, Floorings
    <3>. QED  BY <1>3, <3>1 DEF Forgiven
  <2>. QED  BY <2>1, <2>2
<1>6. charged + u <= Left + gain + TwoRounds * k
  BY <1>3 DEF Forgiven
<1>7. TwoRounds * (1 + k) <= TwoRounds * (1 + Floorings)
  BY <1>4, <1>5, MulMono
<1>8. /\ TwoRounds * (1 + k) = TwoRounds * k + TwoRounds /\ TwoRounds * k \in Int
      /\ TwoRounds * (1 + Floorings) \in Int
  <2>1. 1 + k = k + 1
    OBVIOUS
  <2>. QED  BY <1>4, <1>5, <2>1, MulStep
<1>9. charged < Left + gain + TwoRounds * (1 + Floorings)
  <2>. HIDE DEF gain
  <2>. QED  BY <1>0, <1>1, <1>4, <1>6, <1>7, <1>8
<1>. QED  BY <1>9 DEF ChargedWithinRate

\* Whatever the burst, the slots and the costs, a key is charged no more, over any time, than
\* the bucket held and gained and what two rounds of its slots can cost; and, where two rounds
\* are more than a burst, so that the floor of the debt forgives some of them, two more for
\* each burst that was gained (keyTokenLimiter's available and charge).
THEOREM ChargesAreWithinRate == Spec => []ChargedWithinRate
<1>1. TypeInv /\ Budget => ChargedWithinRate
  BY BudgetBounds
<1>2. TypeInv /\ Budget /\ [Next]_vars => Budget'
  BY NextKeepsBudget
<1>. QED  BY <1>1, <1>2, InitTypeInv, NextKeepsTypeInv, InitBudget, PTL DEF Spec

HIDE GatesAssumption DEF GatesAssumption

-----------------------------------------------------------------------------
\* The count of what is billed.
\*
\* For any daemons and clients, any limits, any sizes of calls, and any number of days, raises,
\* restarts and shares that could not be stored: a limit that was met holds until it is raised,
\* and past it goes only what was under way.
\*
\* For the first, a stop is remembered as the allotment that was used up, so that it holds as
\* long as the allotment is the same (StopsHeld).  For the second, what was billed is counted
\* together with what the turns under way may still bill before they ask the ledger again: two
\* calls where one is under way, one before a step or a summing up (Due).  A turn that asks and
\* passes is below the limit itself; each call bills what was counted for it before.

\* The calls a turn may still make before it asks again.
Due(at) == IF at = "calling" THEN 2 ELSE IF at \in {"step", "wrapping"} THEN 1 ELSE 0

Dues      == [c \in Callers |-> Due(turn[c].at)]
OwnTokens == [d \in Daemons |-> Own(d).tokens]
OwnExtra  == [d \in Daemons |-> Own(d).extra]

\* What was met is remembered by the allotment that it used up.
StopsHeld ==
  /\ \A c \in Callers : session[c].stopped => c \in Named /\ session[c].held = session[c].extra + 1
  /\ \A d \in stopped : Hold(d) = DayTotal(d).extra + 1

\* Where every share of today is stored each daemon knows what all have billed, and that and
\* what is under way is within the limit of the day.
DayBounded ==
  ~unseen =>
    /\ \A d \in Daemons : AsOfToday(stored[d]) = Own(d)
    /\ billed = SumFunction(OwnTokens)
    /\ billed + MaxCall * SumFunction(Dues)
         < DayTokens * (1 + SumFunction(OwnExtra)) + MaxCall * (2 * Cardinality(Callers))

\* And so for a session, which counts its own turn only.
SessionBounded ==
  \A c \in Named :
    session[c].tokens + MaxCall * Due(turn[c].at)
      < SessionTokens * (1 + session[c].extra) + MaxCall * 2

SpendInv == SpendTypeOK /\ StopsHeld /\ DayBounded /\ SessionBounded

Shares   == [day : 1 .. today, tokens : Nat, extra : Nat]
Sessions == [tokens : Nat, extra : Nat, held : Nat, stopped : BOOLEAN]
Turns    == [at : {"idle", "step", "calling", "wrapping"}, called : BOOLEAN, last : Nat]

\* What becomes of a share that grows, and of a session that is stopped or raised.
LEMMA ShareGrows ==
  ASSUME NEW share \in Shares, NEW n \in Nat
  PROVE  /\ [share EXCEPT !.tokens = share.tokens + n] \in Shares
         /\ [share EXCEPT !.tokens = share.tokens + n].day = share.day
         /\ [share EXCEPT !.tokens = share.tokens + n].tokens = share.tokens + n
         /\ [share EXCEPT !.tokens = share.tokens + n].extra = share.extra
<1>1. share.tokens + n \in Nat
  BY DEF Shares
<1>2. PICK m \in Nat : m = share.tokens + n
  BY <1>1
<1>3. /\ [share EXCEPT !.tokens = m] \in Shares /\ [share EXCEPT !.tokens = m].day = share.day
      /\ [share EXCEPT !.tokens = m].tokens = m /\ [share EXCEPT !.tokens = m].extra = share.extra
  BY DEF Shares
<1>. QED  BY <1>2, <1>3

LEMMA ShareRaised ==
  ASSUME NEW share \in Shares
  PROVE  /\ [share EXCEPT !.extra = share.extra + 1] \in Shares
         /\ [share EXCEPT !.extra = share.extra + 1].day = share.day
         /\ [share EXCEPT !.extra = share.extra + 1].tokens = share.tokens
         /\ [share EXCEPT !.extra = share.extra + 1].extra = share.extra + 1
<1>1. share.extra + 1 \in Nat
  BY DEF Shares
<1>2. PICK m \in Nat : m = share.extra + 1
  BY <1>1
<1>3. /\ [share EXCEPT !.extra = m] \in Shares /\ [share EXCEPT !.extra = m].day = share.day
      /\ [share EXCEPT !.extra = m].extra = m /\ [share EXCEPT !.extra = m].tokens = share.tokens
  BY DEF Shares
<1>. QED  BY <1>2, <1>3

LEMMA SessionStopped ==
  ASSUME NEW s \in Sessions, NEW to,
         to = [s EXCEPT !.held = s.extra + 1, !.stopped = TRUE]
  PROVE  /\ to \in Sessions /\ to.held = to.extra + 1
         /\ to.tokens = s.tokens /\ to.extra = s.extra
<1>1. PICK m \in Nat : m = s.extra + 1
  BY DEF Sessions
<1>0. PICK mid : mid = [s EXCEPT !.held = m]
  OBVIOUS
<1>2. mid \in Sessions /\ mid.held = m /\ mid.tokens = s.tokens /\ mid.extra = s.extra
  BY <1>0 DEF Sessions
<1>3. to = [mid EXCEPT !.stopped = TRUE]
  BY <1>0, <1>1 DEF Sessions
<1>4. to \in Sessions /\ to.held = mid.held /\ to.tokens = mid.tokens /\ to.extra = mid.extra
  BY <1>2, <1>3 DEF Sessions
<1>. QED  BY <1>1, <1>2, <1>4

LEMMA SessionRaised ==
  ASSUME NEW s \in Sessions, NEW to,
         to = [s EXCEPT !.extra = s.extra + 1, !.stopped = FALSE]
  PROVE  to \in Sessions /\ to.tokens = s.tokens /\ to.extra = s.extra + 1 /\ ~to.stopped
<1>1. PICK m \in Nat : m = s.extra + 1
  BY DEF Sessions
<1>0. PICK mid : mid = [s EXCEPT !.extra = m]
  OBVIOUS
<1>2. mid \in Sessions /\ mid.extra = m /\ mid.tokens = s.tokens
  BY <1>0 DEF Sessions
<1>3. to = [mid EXCEPT !.stopped = FALSE]
  BY <1>0, <1>1 DEF Sessions
<1>4. to \in Sessions /\ ~to.stopped /\ to.tokens = mid.tokens /\ to.extra = mid.extra
  BY <1>2, <1>3 DEF Sessions
<1>. QED  BY <1>1, <1>2, <1>4

USE SpendAssumption DEF SpendAssumption

-----------------------------------------------------------------------------
\* Types of the count.

LEMMA MaxCallIsMost ==
  /\ MaxCall \in Nat
  /\ \A prompt \in Prompts, completion \in Completions :
       prompt \in Nat /\ completion \in Nat /\ prompt + completion <= MaxCall
<1>1. /\ Max(Prompts) \in Prompts /\ \A prompt \in Prompts : prompt <= Max(Prompts)
  BY DEF Max
<1>2. /\ Max(Completions) \in Completions
      /\ \A completion \in Completions : completion <= Max(Completions)
  BY DEF Max
<1>3. Max(Prompts) \in Nat /\ Max(Completions) \in Nat
  BY <1>1, <1>2
<1>4. ASSUME NEW prompt \in Prompts, NEW completion \in Completions
      PROVE  prompt \in Nat /\ completion \in Nat /\ prompt + completion <= MaxCall
  <2>1. prompt \in Nat /\ completion \in Nat
    OBVIOUS
  <2>2. prompt <= Max(Prompts) /\ completion <= Max(Completions)
    BY <1>1, <1>2
  <2>. HIDE SpendAssumption
  <2>. QED  BY <1>3, <2>1, <2>2 DEF MaxCall
<1>. QED  BY <1>3, <1>4 DEF MaxCall

LEMMA BoundsAreNats == MaxDays \in Nat /\ MaxBills \in Nat /\ MaxRaises \in Nat /\ MaxTrouble \in Nat
  OBVIOUS

\* A share of today, or none.
LEMMA TodaysShare ==
  ASSUME SpendTypeOK, NEW share \in Shares
  PROVE  AsOfToday(share) \in Shares /\ AsOfToday(share).day = today
  BY DEF SpendTypeOK, Shares, AsOfToday, NoShare

LEMMA OwnIsShare ==
  ASSUME SpendTypeOK, NEW d \in Daemons
  PROVE  /\ Own(d) \in Shares /\ Own(d).day = today
         /\ AsOfToday(stored[d]) \in Shares /\ AsOfToday(stored[d]).day = today
         /\ AsOfToday(Own(d)) = Own(d)
<1>1. own[d] \in Shares /\ stored[d] \in Shares
  BY DEF SpendTypeOK, Shares
<1>2. Own(d) \in Shares /\ Own(d).day = today
  BY <1>1, TodaysShare DEF Own
<1>. QED  BY <1>1, <1>2, TodaysShare DEF AsOfToday

\* What is known of the day are numbers.
LEMMA TotalsAreNats ==
  ASSUME SpendTypeOK, NEW d \in Daemons
  PROVE  DayTotal(d).tokens \in Nat /\ DayTotal(d).extra \in Nat /\ Hold(d) \in Nat
<1>1. \A e \in Daemons : Share(d, e) \in Shares
  BY OwnIsShare DEF Share
<1>2. /\ [e \in Daemons |-> Share(d, e).tokens] \in [Daemons -> Nat]
      /\ [e \in Daemons |-> Share(d, e).extra] \in [Daemons -> Nat]
  BY <1>1 DEF Shares
<1>3. /\ SumFunction([e \in Daemons |-> Share(d, e).tokens]) \in Nat
      /\ SumFunction([e \in Daemons |-> Share(d, e).extra]) \in Nat
  BY <1>2, SumIsNat
<1>4. Hold(d) \in Nat
  BY DEF Hold, SpendTypeOK
<1>. QED  BY <1>3, <1>4 DEF DayTotal

LEMMA SpendInitTypes == SpendInit => SpendTypeOK
<1>. SUFFICES ASSUME SpendInit
              PROVE  SpendTypeOK
  OBVIOUS
<1>1. today = 1 /\ today \in 1 .. MaxDays
  BY DEF SpendInit
<1>2. NoShare(1) \in Shares
  BY <1>1 DEF NoShare, Shares
<1>3. own \in [Daemons -> Shares] /\ stored \in [Daemons -> Shares] /\ dayHeld \in [Daemons -> Nat]
  BY <1>2 DEF SpendInit
<1>4. session \in [Callers -> Sessions] /\ turn \in [Callers -> Turns]
  BY DEF SpendInit, NoSession, Idle, Sessions, Turns
<1>5. /\ billed \in Nat /\ unseen \in BOOLEAN /\ stopped \subseteq Daemons
      /\ calls \in 0 .. MaxBills /\ raises \in 0 .. MaxRaises /\ trouble \in 0 .. MaxTrouble
  <2>1. billed = 0 /\ unseen = FALSE /\ stopped = {} /\ calls = 0 /\ raises = 0 /\ trouble = 0
    BY DEF SpendInit
  <2>2. /\ calls \in 0 .. MaxBills /\ raises \in 0 .. MaxRaises /\ trouble \in 0 .. MaxTrouble
        /\ billed \in Nat
    BY <2>1, BoundsAreNats
  <2>. QED  BY <2>1, <2>2
<1>. QED  BY <1>1, <1>3, <1>4, <1>5 DEF SpendTypeOK, Shares, Sessions, Turns

-----------------------------------------------------------------------------
\* What a step does to the count.

\* The share of d is another one, of today.
LEMMA OwnAfter ==
  ASSUME SpendTypeOK, today' = today, NEW d \in Daemons, NEW share \in Shares, share.day = today,
         own' = [own EXCEPT ![d] = share]
  PROVE  /\ own' \in [Daemons -> Shares]
         /\ Own(d)' = share
         /\ \A e \in Daemons : e # d => Own(e)' = Own(e)
<1>1. own \in [Daemons -> Shares]
  BY DEF SpendTypeOK, Shares
<1>2. own'[d] = share /\ \A e \in Daemons : e # d => own'[e] = own[e]
  BY <1>1
<1>. QED  BY <1>1, <1>2 DEF Own, AsOfToday, NoShare

\* And so is what it holds.
LEMMA HoldAfter ==
  ASSUME SpendTypeOK, today' = today, NEW d \in Daemons, NEW share \in Shares, share.day = today,
         own' = [own EXCEPT ![d] = share],
         NEW held \in Nat, dayHeld' = [dayHeld EXCEPT ![d] = held]
  PROVE  /\ dayHeld' \in [Daemons -> Nat]
         /\ Hold(d)' = held
         /\ \A e \in Daemons : e # d => Hold(e)' = Hold(e)
<1>1. own \in [Daemons -> Shares] /\ dayHeld \in [Daemons -> Nat]
  BY DEF SpendTypeOK, Shares
<1>2. own'[d] = share /\ \A e \in Daemons : e # d => own'[e] = own[e]
  BY <1>1
<1>3. dayHeld'[d] = held /\ \A e \in Daemons : e # d => dayHeld'[e] = dayHeld[e]
  BY <1>1
<1>4. dayHeld' \in [Daemons -> Nat]
  BY <1>1
<1>. QED  BY <1>2, <1>3, <1>4 DEF Hold

\* The count is the same in both states of a step.
SameCount ==
  /\ \A d \in Daemons : Own(d)' = Own(d)
  /\ \A d \in Daemons : DayTotal(d)' = DayTotal(d)
  /\ OwnTokens' = OwnTokens /\ OwnExtra' = OwnExtra

LEMMA SameShares ==
  ASSUME SpendTypeOK, UNCHANGED <<today, stored>>, \A d \in Daemons : Own(d)' = Own(d)
  PROVE  SameCount
<1>1. \A d \in Daemons : AsOfToday(stored[d])' = AsOfToday(stored[d])
  BY DEF AsOfToday, NoShare
<1>2. \A d, e \in Daemons : Share(d, e)' = Share(d, e)
  BY <1>1 DEF Share
<1>3. ASSUME NEW d \in Daemons
      PROVE  DayTotal(d)' = DayTotal(d)
  <2>1. /\ [e \in Daemons |-> Share(d, e)'.tokens] = [e \in Daemons |-> Share(d, e).tokens]
        /\ [e \in Daemons |-> Share(d, e)'.extra] = [e \in Daemons |-> Share(d, e).extra]
    BY <1>2
  <2>. QED  BY <2>1 DEF DayTotal
<1>4. OwnTokens' = OwnTokens /\ OwnExtra' = OwnExtra
  BY DEF OwnTokens, OwnExtra
<1>. QED  BY <1>3, <1>4 DEF SameCount

\* A daemon that rolls its day counts what it did, and holds what it held.
LEMMA RollsKeepCount ==
  ASSUME SpendTypeOK, UNCHANGED <<today, stored>>, NEW d \in Daemons,
         own' = [own EXCEPT ![d] = Own(d)]
  PROVE  own' \in [Daemons -> Shares] /\ SameCount
<1>1. Own(d) \in Shares /\ Own(d).day = today
  BY OwnIsShare
<1>2. /\ own' \in [Daemons -> Shares] /\ Own(d)' = Own(d)
      /\ \A e \in Daemons : e # d => Own(e)' = Own(e)
  BY <1>1, OwnAfter
<1>. QED  BY <1>2, SameShares

LEMMA RollsKeepHold ==
  ASSUME SpendTypeOK, today' = today, NEW d \in Daemons, Rolls(d)
  PROVE  dayHeld' \in [Daemons -> Nat] /\ \A e \in Daemons : Hold(e)' = Hold(e)
<1>1. Own(d) \in Shares /\ Own(d).day = today /\ Hold(d) \in Nat
  BY OwnIsShare, TotalsAreNats
<1>2. own' = [own EXCEPT ![d] = Own(d)] /\ dayHeld' = [dayHeld EXCEPT ![d] = Hold(d)]
  BY DEF Rolls
<1>3. /\ dayHeld' \in [Daemons -> Nat] /\ Hold(d)' = Hold(d)
      /\ \A e \in Daemons : e # d => Hold(e)' = Hold(e)
  BY <1>1, <1>2, HoldAfter
<1>. QED  BY <1>3

\* The sums are numbers.
LEMMA SumsAreNats ==
  ASSUME SpendTypeOK
  PROVE  /\ OwnTokens \in [Daemons -> Nat] /\ SumFunction(OwnTokens) \in Nat
         /\ OwnExtra \in [Daemons -> Nat] /\ SumFunction(OwnExtra) \in Nat
         /\ Dues \in [Callers -> 0 .. 2] /\ SumFunction(Dues) \in Nat
         /\ SumFunction(Dues) <= 2 * Cardinality(Callers) /\ Cardinality(Callers) \in Nat
<1>1. OwnTokens \in [Daemons -> Nat] /\ OwnExtra \in [Daemons -> Nat]
  BY OwnIsShare DEF OwnTokens, OwnExtra, Shares
<1>2. Dues \in [Callers -> 0 .. 2]
  BY DEF Dues, Due
<1>3. SumFunction(OwnTokens) \in Nat /\ SumFunction(OwnExtra) \in Nat
  BY <1>1, SumIsNat
<1>4. SumFunction(Dues) \in Nat /\ SumFunction(Dues) <= 2 * Cardinality(Callers)
  BY <1>2, SumIsBounded
<1>5. Cardinality(Callers) \in Nat
  BY FS_CardinalityType
<1>. QED  BY <1>1, <1>2, <1>3, <1>4, <1>5

-----------------------------------------------------------------------------
\* What a step does to what is under way.

\* No turn comes to have more calls ahead, and nothing is counted.
LEMMA TurnsFall ==
  ASSUME SpendTypeOK, DayBounded, SessionBounded, SameCount,
         UNCHANGED <<today, stored, billed, unseen>>,
         turn' \in [Callers -> Turns],
         \A c \in Callers : Due(turn'[c].at) <= Due(turn[c].at),
         \A c \in Callers : session'[c].tokens = session[c].tokens
                            /\ session'[c].extra = session[c].extra
  PROVE  DayBounded' /\ SessionBounded'
<1>1. MaxCall \in Nat
  BY MaxCallIsMost
<1>2. ASSUME ~unseen
      PROVE  /\ \A d \in Daemons : AsOfToday(stored[d])' = Own(d)'
             /\ billed' = SumFunction(OwnTokens')
             /\ billed' + MaxCall * SumFunction(Dues')
                  < DayTokens * (1 + SumFunction(OwnExtra')) + MaxCall * (2 * Cardinality(Callers))
  <2>1. Dues \in [Callers -> Int] /\ Dues' \in [Callers -> Int] /\ \A c \in Callers : Dues'[c] <= Dues[c]
    BY DEF Dues, Due
  <2>2. /\ SumFunction(Dues) \in Int /\ SumFunction(Dues') \in Int
        /\ SumFunction(Dues') <= SumFunction(Dues)
    BY <2>1, SumIsMonotone
  <2>3. MaxCall * SumFunction(Dues') <= MaxCall * SumFunction(Dues)
    BY <1>1, <2>2, MulMono
  <2>4. /\ MaxCall * SumFunction(Dues) \in Int /\ MaxCall * SumFunction(Dues') \in Int
        /\ billed \in Int
    BY <1>1, <2>2 DEF SpendTypeOK
  <2>5. /\ DayTokens * (1 + SumFunction(OwnExtra)) \in Int
        /\ MaxCall * (2 * Cardinality(Callers)) \in Int
    BY <1>1, SumsAreNats
  <2>6. billed + MaxCall * SumFunction(Dues)
          < DayTokens * (1 + SumFunction(OwnExtra)) + MaxCall * (2 * Cardinality(Callers))
    BY <1>2 DEF DayBounded
  <2>7. billed + MaxCall * SumFunction(Dues')
          < DayTokens * (1 + SumFunction(OwnExtra)) + MaxCall * (2 * Cardinality(Callers))
    <3>. HIDE SpendAssumption
    <3>. QED  BY <2>3, <2>4, <2>5, <2>6
  <2>8. \A d \in Daemons : AsOfToday(stored[d])' = AsOfToday(stored[d])
    BY DEF AsOfToday, NoShare
  <2>. QED  BY <1>2, <2>7, <2>8 DEF DayBounded, SameCount
<1>3. ASSUME NEW c \in Named
      PROVE  session'[c].tokens + MaxCall * Due(turn'[c].at)
               < SessionTokens * (1 + session'[c].extra) + MaxCall * 2
  <2>1. c \in Callers
    OBVIOUS
  <2>2. /\ Due(turn'[c].at) \in Int /\ Due(turn[c].at) \in Int /\ Due(turn'[c].at) <= Due(turn[c].at)
        /\ session[c].tokens \in Int /\ session[c].extra \in Int
    BY <2>1 DEF Due, SpendTypeOK
  <2>3. MaxCall * Due(turn'[c].at) <= MaxCall * Due(turn[c].at)
    BY <1>1, <2>2, MulMono
  <2>4. /\ MaxCall * Due(turn'[c].at) \in Int /\ MaxCall * Due(turn[c].at) \in Int
        /\ SessionTokens * (1 + session[c].extra) \in Int
    BY <1>1, <2>2
  <2>5. session[c].tokens + MaxCall * Due(turn[c].at)
          < SessionTokens * (1 + session[c].extra) + MaxCall * 2
    BY DEF SessionBounded
  <2>6. session[c].tokens + MaxCall * Due(turn'[c].at)
          < SessionTokens * (1 + session[c].extra) + MaxCall * 2
    <3>. HIDE SpendAssumption
    <3>. QED  BY <1>1, <2>2, <2>3, <2>4, <2>5
  <2>. QED  BY <2>1, <2>6
<1>. QED  BY <1>2, <1>3 DEF DayBounded, SessionBounded

\* A daemon that knows of all shares knows what all have billed.
LEMMA TotalIsAll ==
  ASSUME SpendTypeOK, NEW d \in Daemons, \A e \in Daemons : AsOfToday(stored[e]) = Own(e)
  PROVE  DayTotal(d).tokens = SumFunction(OwnTokens) /\ DayTotal(d).extra = SumFunction(OwnExtra)
<1>1. \A e \in Daemons : Share(d, e) = Own(e)
  BY DEF Share
<1>2. /\ [e \in Daemons |-> Share(d, e).tokens] = OwnTokens
      /\ [e \in Daemons |-> Share(d, e).extra] = OwnExtra
  BY <1>1 DEF OwnTokens, OwnExtra
<1>. QED  BY <1>2 DEF DayTotal

\* A turn that asked the ledger and passed goes on.
LEMMA PassedGoesOn ==
  ASSUME SpendTypeOK, DayBounded, SessionBounded, SameCount,
         UNCHANGED <<today, stored, billed, unseen, session>>,
         NEW c \in Callers, NEW reserve \in Nat, ~Stops(c, reserve),
         turn' \in [Callers -> Turns],
         \A b \in Callers : b # c => turn'[b] = turn[b]
  PROVE  DayBounded' /\ SessionBounded'
<1>1. MaxCall \in Nat
  BY MaxCallIsMost
<1>2. ASSUME ~unseen
      PROVE  /\ \A d \in Daemons : AsOfToday(stored[d])' = Own(d)'
             /\ billed' = SumFunction(OwnTokens')
             /\ billed' + MaxCall * SumFunction(Dues')
                  < DayTokens * (1 + SumFunction(OwnExtra')) + MaxCall * (2 * Cardinality(Callers))
  <2>1. Dues' \in [Callers -> 0 .. 2]
    BY DEF Dues, Due
  <2>2. SumFunction(Dues') \in Nat /\ SumFunction(Dues') <= 2 * Cardinality(Callers)
    BY <2>1, SumIsBounded
  <2>3. 2 * Cardinality(Callers) \in Int
    BY SumsAreNats
  <2>4. MaxCall * SumFunction(Dues') <= MaxCall * (2 * Cardinality(Callers))
    BY <1>1, <2>2, <2>3, MulMono
  <2>5. /\ MaxCall * SumFunction(Dues') \in Int /\ MaxCall * (2 * Cardinality(Callers)) \in Int
        /\ DayTokens * (1 + SumFunction(OwnExtra)) \in Int /\ billed \in Int
    BY <1>1, <2>2, <2>3, SumsAreNats DEF SpendTypeOK
  <2>6. PICK d \in Daemons : d = Home[c]
    OBVIOUS
  <2>7. DayTotal(d).tokens = billed /\ DayTotal(d).extra = SumFunction(OwnExtra)
    BY <1>2, TotalIsAll DEF DayBounded
  <2>8. ~(billed + reserve >= DayTokens * (1 + SumFunction(OwnExtra)))
    BY <2>6, <2>7 DEF Stops, DayStops, Reached
  <2>9. billed + MaxCall * SumFunction(Dues')
          < DayTokens * (1 + SumFunction(OwnExtra)) + MaxCall * (2 * Cardinality(Callers))
    <3>. HIDE SpendAssumption
    <3>. QED  BY <2>4, <2>5, <2>8
  <2>10. \A e \in Daemons : AsOfToday(stored[e])' = AsOfToday(stored[e])
    BY DEF AsOfToday, NoShare
  <2>. QED  BY <1>2, <2>9, <2>10 DEF DayBounded, SameCount
<1>3. ASSUME NEW b \in Named
      PROVE  session[b].tokens + MaxCall * Due(turn'[b].at)
               < SessionTokens * (1 + session[b].extra) + MaxCall * 2
  <2>1. b \in Callers /\ session[b].tokens \in Int /\ session[b].extra \in Int
    BY DEF SpendTypeOK
  <2>2. CASE b # c
    BY <2>1, <2>2 DEF SessionBounded
  <2>3. CASE b = c
    <3>1. ~(session[b].tokens + reserve >= SessionTokens * (1 + session[b].extra))
      BY <2>3 DEF Stops, SessionStops, Reached
    <3>2. Due(turn'[b].at) \in Int /\ Due(turn'[b].at) <= 2
      BY DEF Due
    <3>3. MaxCall * Due(turn'[b].at) <= MaxCall * 2
      BY <1>1, <3>2, MulMono
    <3>4. MaxCall * Due(turn'[b].at) \in Int /\ SessionTokens * (1 + session[b].extra) \in Int
      BY <1>1, <2>1, <3>2
    <3>. HIDE SpendAssumption
    <3>. QED  BY <1>1, <2>1, <3>1, <3>3, <3>4
  <2>. QED  BY <2>2, <2>3
<1>. QED  BY <1>2, <1>3 DEF DayBounded, SessionBounded

-----------------------------------------------------------------------------
\* Every step keeps the invariant.

\* A look at the ledger, which rolls the day.
LEMMA RollsKeepStops ==
  ASSUME SpendTypeOK, StopsHeld, UNCHANGED <<today, stored, session, stopped>>,
         NEW d \in Daemons, Rolls(d)
  PROVE  /\ own' \in [Daemons -> Shares] /\ dayHeld' \in [Daemons -> Nat]
         /\ SameCount /\ StopsHeld'
<1>1. own' = [own EXCEPT ![d] = Own(d)]
  BY DEF Rolls
<1>2. own' \in [Daemons -> Shares] /\ SameCount
  BY <1>1, RollsKeepCount
<1>3. dayHeld' \in [Daemons -> Nat] /\ \A e \in Daemons : Hold(e)' = Hold(e)
  BY RollsKeepHold
<1>4. \A e \in stopped' : Hold(e)' = DayTotal(e)'.extra + 1
  BY <1>2, <1>3 DEF SameCount, StopsHeld, SpendTypeOK
<1>. QED  BY <1>2, <1>3, <1>4 DEF StopsHeld

\* A limit that stops is remembered.
LEMMA StopsAreHeld ==
  ASSUME SpendTypeOK, StopsHeld, UNCHANGED <<today, stored>>,
         NEW c \in Callers, NEW reserve \in Nat, StopsOn(c, reserve)
  PROVE  /\ own' \in [Daemons -> Shares] /\ dayHeld' \in [Daemons -> Nat]
         /\ session' \in [Callers -> Sessions] /\ stopped' \subseteq Daemons
         /\ \A b \in Callers : session'[b].tokens = session[b].tokens
                               /\ session'[b].extra = session[b].extra
         /\ SameCount /\ StopsHeld'
<1>1. PICK d \in Daemons : d = Home[c]
  OBVIOUS
<1>2. session \in [Callers -> Sessions] /\ stopped \subseteq Daemons
  BY DEF SpendTypeOK, Sessions
<1>3. CASE /\ SessionStops(c, reserve) /\ Rolls(d)
           /\ session' = [session EXCEPT ![c].held = HeldAt(session[c].extra), ![c].stopped = TRUE]
           /\ UNCHANGED stopped
  <2>1. own' = [own EXCEPT ![d] = Own(d)]
    BY <1>3 DEF Rolls
  <2>2. own' \in [Daemons -> Shares] /\ SameCount
    BY <2>1, RollsKeepCount
  <2>3. dayHeld' \in [Daemons -> Nat] /\ \A e \in Daemons : Hold(e)' = Hold(e)
    BY <1>3, RollsKeepHold
  <2>4. \A e \in stopped' : Hold(e)' = DayTotal(e)'.extra + 1
    BY <1>2, <1>3, <2>2, <2>3 DEF SameCount, StopsHeld
  <2>5. c \in Named
    BY <1>3 DEF SessionStops
  <2>6. /\ session'[c] = [session[c] EXCEPT !.held = session[c].extra + 1, !.stopped = TRUE]
        /\ \A b \in Callers : b # c => session'[b] = session[b]
    BY <1>2, <1>3 DEF HeldAt
  <2>7. /\ session'[c] \in Sessions /\ session'[c].held = session'[c].extra + 1
        /\ session'[c].tokens = session[c].tokens /\ session'[c].extra = session[c].extra
    <3>1. session[c] \in Sessions
      BY <1>2
    <3>. QED  BY <2>6, <3>1, SessionStopped
  <2>8. session' \in [Callers -> Sessions]
    BY <1>2, <1>3, <2>6, <2>7
  <2>9. \A b \in Callers : session'[b].stopped => b \in Named /\ session'[b].held = session'[b].extra + 1
    BY <2>5, <2>6, <2>7 DEF StopsHeld
  <2>. QED  BY <1>2, <1>3, <2>2, <2>3, <2>4, <2>6, <2>7, <2>8, <2>9 DEF StopsHeld
<1>4. CASE /\ own' = [own EXCEPT ![d] = Own(d)]
           /\ dayHeld' = [dayHeld EXCEPT ![d] = HeldAt(DayTotal(d).extra)]
           /\ stopped' = stopped \cup {d}
           /\ UNCHANGED session
  <2>1. own' \in [Daemons -> Shares] /\ SameCount
    BY <1>4, RollsKeepCount
  <2>2. PICK held \in Nat : held = DayTotal(d).extra + 1
    BY TotalsAreNats
  <2>3. dayHeld' = [dayHeld EXCEPT ![d] = held]
    BY <1>4, <2>2 DEF HeldAt
  <2>4. Own(d) \in Shares /\ Own(d).day = today
    BY OwnIsShare
  <2>5. /\ dayHeld' \in [Daemons -> Nat] /\ Hold(d)' = held
        /\ \A e \in Daemons : e # d => Hold(e)' = Hold(e)
    BY <1>4, <2>3, <2>4, HoldAfter
  <2>6. \A e \in stopped' : Hold(e)' = DayTotal(e)'.extra + 1
    BY <1>2, <1>4, <2>1, <2>2, <2>5 DEF SameCount, StopsHeld
  <2>. QED  BY <1>2, <1>4, <2>1, <2>5, <2>6 DEF StopsHeld
<1>. QED  BY <1>1, <1>3, <1>4 DEF StopsOn

\* Where a turn can be after a step of it.
LEMMA MovesIsTurn ==
  ASSUME SpendTypeOK, NEW c \in Callers, NEW at \in {"idle", "step", "calling", "wrapping"},
         Moves(c, at)
  PROVE  /\ turn' \in [Callers -> Turns] /\ turn'[c].at = at
         /\ \A b \in Callers : b # c => turn'[b] = turn[b]
<1>1. turn \in [Callers -> Turns]
  BY DEF SpendTypeOK, Turns
<1>2. /\ turn'[c] = [turn[c] EXCEPT !.at = at] /\ turn'[c] \in Turns
      /\ \A b \in Callers : b # c => turn'[b] = turn[b]
  BY <1>1 DEF Moves, Turns
<1>. QED  BY <1>1, <1>2 DEF Moves, Turns

LEMMA IdleIsTurn ==
  ASSUME SpendTypeOK, NEW c \in Callers, turn' = [turn EXCEPT ![c] = Idle]
  PROVE  /\ turn' \in [Callers -> Turns] /\ turn'[c].at = "idle"
         /\ \A b \in Callers : b # c => turn'[b] = turn[b]
<1>1. turn \in [Callers -> Turns] /\ Idle \in Turns
  BY DEF SpendTypeOK, Turns, Idle
<1>. QED  BY <1>1 DEF Idle

\* After a call there is one less ahead.
LEMMA AfterIsTurn ==
  ASSUME SpendTypeOK, NEW c \in Callers, turn[c].at \in {"calling", "wrapping"},
         NEW last \in Nat, AfterCall(c, last)
  PROVE  /\ turn' \in [Callers -> Turns] /\ Due(turn'[c].at) + 1 <= Due(turn[c].at)
         /\ \A b \in Callers : b # c => turn'[b] = turn[b]
<1>1. turn \in [Callers -> Turns]
  BY DEF SpendTypeOK, Turns
<1>2. CASE turn' = [turn EXCEPT ![c] = Idle]
  <2>1. /\ turn' \in [Callers -> Turns] /\ turn'[c].at = "idle"
        /\ \A b \in Callers : b # c => turn'[b] = turn[b]
    BY <1>2, IdleIsTurn
  <2>2. Due(turn'[c].at) + 1 <= Due(turn[c].at)
    BY <2>1 DEF Due
  <2>. QED  BY <2>1, <2>2
<1>3. CASE /\ turn[c].at = "calling"
           /\ turn' = [turn EXCEPT ![c] = [at |-> "step", called |-> TRUE, last |-> last]]
  <2>1. [at |-> "step", called |-> TRUE, last |-> last] \in Turns
    BY DEF Turns
  <2>2. /\ turn'[c].at = "step" /\ turn' \in [Callers -> Turns]
        /\ \A b \in Callers : b # c => turn'[b] = turn[b]
    BY <1>1, <1>3, <2>1
  <2>. QED  BY <1>3, <2>2 DEF Due
<1>. QED  BY <1>2, <1>3 DEF AfterCall

\* The steps of a client's turns that bill nothing.
LEMMA TurnsKeepInv ==
  ASSUME SpendInv, NEW c \in Callers,
         \/ Refuses(c) \/ Admits(c) \/ Steps(c) \/ StepStops(c) \/ EndsOtherwise(c)
         \/ CallUnreported(c)
  PROVE  SpendInv'
<1>1. SpendTypeOK /\ StopsHeld /\ DayBounded /\ SessionBounded
  BY DEF SpendInv
<1>2. /\ turn[c].last \in Nat /\ 2 * turn[c].last \in Nat /\ 0 \in Nat
      /\ turn \in [Callers -> Turns] /\ session \in [Callers -> Sessions]
  BY <1>1 DEF SpendTypeOK, Turns, Sessions
<1>3. UNCHANGED <<today, stored, billed, unseen, calls, raises, trouble>>
  BY DEF Refuses, Admits, Steps, StepStops, EndsOtherwise, CallUnreported, bounds
<1>4. PICK d \in Daemons : d = Home[c]
  OBVIOUS
<1>5. ASSUME own' \in [Daemons -> Shares], dayHeld' \in [Daemons -> Nat],
             session' \in [Callers -> Sessions], turn' \in [Callers -> Turns],
             stopped' \subseteq Daemons
      PROVE  SpendTypeOK'
  BY <1>1, <1>3, <1>5 DEF SpendTypeOK, Shares, Sessions, Turns
<1>6. ASSUME NEW reserve \in Nat, StopsOn(c, reserve), turn' \in [Callers -> Turns],
             \A b \in Callers : Due(turn'[b].at) <= Due(turn[b].at)
      PROVE  SpendInv'
  <2>1. /\ own' \in [Daemons -> Shares] /\ dayHeld' \in [Daemons -> Nat]
        /\ session' \in [Callers -> Sessions] /\ stopped' \subseteq Daemons
        /\ \A b \in Callers : session'[b].tokens = session[b].tokens
                              /\ session'[b].extra = session[b].extra
        /\ SameCount /\ StopsHeld'
    BY <1>1, <1>3, <1>6, StopsAreHeld
  <2>2. DayBounded' /\ SessionBounded'
    BY <1>1, <1>3, <1>6, <2>1, TurnsFall
  <2>3. SpendTypeOK'
    BY <1>5, <1>6, <2>1
  <2>. QED  BY <2>1, <2>2, <2>3 DEF SpendInv
<1>7. ASSUME NEW reserve \in Nat, Passes(c, reserve), turn' \in [Callers -> Turns],
             \A b \in Callers : b # c => turn'[b] = turn[b]
      PROVE  SpendInv'
  <2>1. ~Stops(c, reserve) /\ Rolls(d) /\ UNCHANGED <<session, stopped>>
    BY <1>4, <1>7 DEF Passes
  <2>2. /\ own' \in [Daemons -> Shares] /\ dayHeld' \in [Daemons -> Nat]
        /\ SameCount /\ StopsHeld'
    BY <1>1, <1>3, <2>1, RollsKeepStops
  <2>3. DayBounded' /\ SessionBounded'
    BY <1>1, <1>3, <1>7, <2>1, <2>2, PassedGoesOn
  <2>4. session' \in [Callers -> Sessions] /\ stopped' \subseteq Daemons
    BY <1>1, <1>2, <2>1 DEF SpendTypeOK
  <2>5. SpendTypeOK'
    BY <1>5, <1>7, <2>2, <2>4
  <2>. QED  BY <2>2, <2>3, <2>5 DEF SpendInv
<1>8. ASSUME UNCHANGED <<own, dayHeld, session, stopped>>, turn' \in [Callers -> Turns],
             \A b \in Callers : Due(turn'[b].at) <= Due(turn[b].at)
      PROVE  SpendInv'
  <2>1. \A e \in Daemons : Own(e)' = Own(e) /\ Hold(e)' = Hold(e)
    BY <1>3, <1>8 DEF Own, AsOfToday, NoShare, Hold
  <2>2. SameCount
    BY <1>1, <1>3, <2>1, SameShares
  <2>3. \A e \in stopped' : Hold(e)' = DayTotal(e)'.extra + 1
    BY <1>1, <1>8, <2>1, <2>2 DEF SameCount, StopsHeld, SpendTypeOK
  <2>4. StopsHeld'
    BY <1>1, <1>8, <2>3 DEF StopsHeld
  <2>5. DayBounded' /\ SessionBounded'
    BY <1>1, <1>3, <1>8, <2>2, TurnsFall
  <2>6. own' \in [Daemons -> Shares] /\ dayHeld' \in [Daemons -> Nat] /\ stopped' \subseteq Daemons
    BY <1>1, <1>8 DEF SpendTypeOK, Shares
  <2>7. SpendTypeOK'
    BY <1>2, <1>5, <1>8, <2>6
  <2>. QED  BY <2>4, <2>5, <2>7 DEF SpendInv
<1>9. CASE Refuses(c)
  <2>1. StopsOn(c, 0) /\ UNCHANGED turn
    BY <1>9 DEF Refuses
  <2>2. \A b \in Callers : Due(turn'[b].at) <= Due(turn[b].at)
    BY <2>1 DEF Due
  <2>. QED  BY <1>2, <1>6, <2>1, <2>2
<1>10. CASE Admits(c)
  <2>1. PICK at \in {"step", "calling"} : Moves(c, at)
    BY <1>10 DEF Admits
  <2>2. Passes(c, 0)
    BY <1>10 DEF Admits
  <2>3. turn' \in [Callers -> Turns] /\ \A b \in Callers : b # c => turn'[b] = turn[b]
    BY <1>1, <2>1, MovesIsTurn
  <2>. QED  BY <1>2, <1>7, <2>2, <2>3
<1>11. CASE Steps(c)
  <2>1. Passes(c, 2 * turn[c].last) /\ Moves(c, "calling")
    BY <1>11 DEF Steps
  <2>2. turn' \in [Callers -> Turns] /\ \A b \in Callers : b # c => turn'[b] = turn[b]
    BY <1>1, <2>1, MovesIsTurn
  <2>. QED  BY <1>2, <1>7, <2>1, <2>2
<1>12. CASE StepStops(c)
  <2>1. StopsOn(c, 2 * turn[c].last) /\ turn[c].at = "step"
    BY <1>12 DEF StepStops
  <2>2. CASE turn' = [turn EXCEPT ![c] = Idle]
    <3>1. /\ turn' \in [Callers -> Turns] /\ turn'[c].at = "idle"
          /\ \A b \in Callers : b # c => turn'[b] = turn[b]
      BY <1>1, <2>2, IdleIsTurn
    <3>2. \A b \in Callers : Due(turn'[b].at) <= Due(turn[b].at)
      BY <2>1, <3>1 DEF Due
    <3>. QED  BY <1>2, <1>6, <2>1, <3>1, <3>2
  <2>3. CASE turn' = [turn EXCEPT ![c] = [turn[c] EXCEPT !.at = "wrapping"]]
    <3>0. Moves(c, "wrapping")
      BY <1>2, <2>3 DEF Moves
    <3>1. /\ turn' \in [Callers -> Turns] /\ turn'[c].at = "wrapping"
          /\ \A b \in Callers : b # c => turn'[b] = turn[b]
      BY <1>1, <3>0, MovesIsTurn
    <3>2. \A b \in Callers : Due(turn'[b].at) <= Due(turn[b].at)
      BY <2>1, <3>1 DEF Due
    <3>. QED  BY <1>2, <1>6, <2>1, <3>1, <3>2
  <2>. QED  BY <1>12, <2>2, <2>3 DEF StepStops
<1>13. CASE EndsOtherwise(c)
  <2>1. turn[c].at = "step" /\ UNCHANGED <<own, dayHeld, session, stopped>>
    BY <1>13 DEF EndsOtherwise
  <2>2. /\ turn' \in [Callers -> Turns] /\ turn'[c].at \in {"idle", "wrapping"}
        /\ \A b \in Callers : b # c => turn'[b] = turn[b]
    BY <1>1, <1>13, IdleIsTurn, MovesIsTurn DEF EndsOtherwise
  <2>3. \A b \in Callers : Due(turn'[b].at) <= Due(turn[b].at)
    BY <2>1, <2>2 DEF Due
  <2>. QED  BY <1>8, <2>1, <2>2, <2>3
<1>14. CASE CallUnreported(c)
  <2>1. /\ turn[c].at \in {"calling", "wrapping"} /\ AfterCall(c, turn[c].last)
        /\ UNCHANGED <<own, dayHeld, session, stopped>>
    BY <1>14 DEF CallUnreported
  <2>2. /\ turn' \in [Callers -> Turns] /\ Due(turn'[c].at) + 1 <= Due(turn[c].at)
        /\ \A b \in Callers : b # c => turn'[b] = turn[b]
    BY <1>1, <1>2, <2>1, AfterIsTurn
  <2>3. \A b \in Callers : Due(turn'[b].at) <= Due(turn[b].at)
    BY <2>2 DEF Due
  <2>. QED  BY <1>8, <2>1, <2>2, <2>3
<1>. QED  BY <1>9, <1>10, <1>11, <1>12, <1>13, <1>14

\* /budget only looks.
LEMMA LooksKeepsInv ==
  ASSUME SpendInv, NEW d \in Daemons, Looks(d)
  PROVE  SpendInv'
<1>1. SpendTypeOK /\ StopsHeld /\ DayBounded /\ SessionBounded
  BY DEF SpendInv
<1>2. /\ Rolls(d)
      /\ UNCHANGED <<today, stored, session, turn, billed, unseen, stopped, calls, raises, trouble>>
  BY DEF Looks, bounds
<1>3. own' \in [Daemons -> Shares] /\ dayHeld' \in [Daemons -> Nat] /\ SameCount /\ StopsHeld'
  BY <1>1, <1>2, RollsKeepStops
<1>4. turn' \in [Callers -> Turns] /\ \A c \in Callers : Due(turn'[c].at) <= Due(turn[c].at)
  BY <1>1, <1>2 DEF SpendTypeOK, Turns, Due
<1>5. DayBounded' /\ SessionBounded'
  BY <1>1, <1>2, <1>3, <1>4, TurnsFall
<1>6. SpendTypeOK'
  BY <1>1, <1>2, <1>3 DEF SpendTypeOK, Shares
<1>. QED  BY <1>3, <1>5, <1>6 DEF SpendInv

\* A share that grows is stored, or not: then not everything is seen.
LEMMA StoredIsSeen ==
  ASSUME SpendTypeOK, today' = today, NEW d \in Daemons, NEW share \in Shares, share.day = today,
         own' = [own EXCEPT ![d] = share],
         Stores(d, share)
  PROVE  /\ stored' \in [Daemons -> Shares] /\ unseen' \in BOOLEAN /\ trouble' \in 0 .. MaxTrouble
         /\ ~unseen' =>
              /\ ~unseen
              /\ (\A e \in Daemons : AsOfToday(stored[e]) = Own(e))
                   => \A e \in Daemons : AsOfToday(stored[e])' = Own(e)'
<1>1. stored \in [Daemons -> Shares] /\ unseen \in BOOLEAN /\ trouble \in 0 .. MaxTrouble
  BY DEF SpendTypeOK, Shares
<1>2. Own(d)' = share /\ \A e \in Daemons : e # d => Own(e)' = Own(e)
  BY OwnAfter
<1>3. CASE stored' = [stored EXCEPT ![d] = share] /\ UNCHANGED <<unseen, trouble>>
  <2>1. /\ stored' \in [Daemons -> Shares] /\ stored'[d] = share
        /\ \A e \in Daemons : e # d => stored'[e] = stored[e]
    BY <1>1, <1>3
  <2>2. AsOfToday(stored[d])' = share
    BY <2>1 DEF AsOfToday
  <2>3. \A e \in Daemons : e # d => AsOfToday(stored[e])' = AsOfToday(stored[e])
    BY <2>1 DEF AsOfToday, NoShare
  <2>. QED  BY <1>1, <1>2, <1>3, <2>1, <2>2, <2>3
<1>4. CASE /\ trouble < MaxTrouble /\ trouble' = trouble + 1
           /\ unseen' = TRUE /\ UNCHANGED stored
  BY <1>1, <1>4, BoundsAreNats
<1>. QED  BY <1>3, <1>4 DEF Stores

\* What a daemon holds is the same when its share is another, and it is still stopped when
\* what it knows of the allotment is too.
LEMMA SharesKeepStops ==
  ASSUME SpendTypeOK, StopsHeld, today' = today,
         NEW d \in Daemons, NEW share \in Shares, share.day = today,
         own' = [own EXCEPT ![d] = share], dayHeld' = [dayHeld EXCEPT ![d] = Hold(d)],
         stopped' = StillStopped
  PROVE  /\ dayHeld' \in [Daemons -> Nat] /\ stopped' \subseteq Daemons
         /\ \A e \in stopped' : Hold(e)' = DayTotal(e)'.extra + 1
<1>1. Hold(d) \in Nat
  BY TotalsAreNats
<1>2. /\ dayHeld' \in [Daemons -> Nat] /\ Hold(d)' = Hold(d)
      /\ \A e \in Daemons : e # d => Hold(e)' = Hold(e)
  BY <1>1, HoldAfter
<1>3. stopped \subseteq Daemons
  BY DEF SpendTypeOK
<1>4. ASSUME NEW e \in stopped'
      PROVE  Hold(e)' = DayTotal(e)'.extra + 1
  <2>1. e \in stopped /\ DayTotal(e)'.extra = DayTotal(e).extra
    BY DEF StillStopped
  <2>2. Hold(e)' = Hold(e)
    BY <1>2, <1>3, <2>1
  <2>. QED  BY <2>1, <2>2 DEF StopsHeld
<1>. QED  BY <1>2, <1>3, <1>4 DEF StillStopped

\* A call is billed: what was counted for it before is now counted as billed.
LEMMA BilledKeepsInv ==
  ASSUME SpendInv, NEW c \in Callers, CallBilled(c)
  PROVE  SpendInv'
<1>1. SpendTypeOK /\ StopsHeld /\ DayBounded /\ SessionBounded
  BY DEF SpendInv
<1>2. PICK prompt \in Prompts, completion \in Completions :
        /\ Bills(Home[c], prompt + completion)
        /\ session' = IF c \in Named THEN [session EXCEPT ![c].tokens = @ + prompt + completion]
                      ELSE session
        /\ AfterCall(c, prompt)
        /\ billed' = billed + prompt + completion
  BY DEF CallBilled
<1>3. /\ turn[c].at \in {"calling", "wrapping"} /\ calls < MaxBills /\ calls' = calls + 1
      /\ UNCHANGED <<today, raises>> /\ stopped' = StillStopped
  BY DEF CallBilled
<1>4. PICK d \in Daemons : d = Home[c]
  OBVIOUS
<1>5. MaxCall \in Nat
  BY MaxCallIsMost
<1>6. PICK n \in Nat : n = prompt + completion
  BY MaxCallIsMost
<1>7. prompt \in Nat /\ completion \in Nat /\ n <= MaxCall
  BY <1>6, MaxCallIsMost
<1>8. Own(d) \in Shares /\ Own(d).day = today
  BY <1>1, OwnIsShare
<1>9. PICK share \in Shares : share = [Own(d) EXCEPT !.tokens = Own(d).tokens + n]
  BY <1>8, ShareGrows
<1>10. share.day = today /\ share.tokens = Own(d).tokens + n /\ share.extra = Own(d).extra
  BY <1>8, <1>9, ShareGrows
<1>11. /\ own' = [own EXCEPT ![d] = share] /\ own'[d] = share
       /\ dayHeld' = [dayHeld EXCEPT ![d] = Hold(d)] /\ Stores(d, share)
  <2>1. own \in [Daemons -> Shares]
    BY <1>1 DEF SpendTypeOK, Shares
  <2>2. own' = [own EXCEPT ![d] = share]
    BY <1>2, <1>4, <1>6, <1>9 DEF Bills
  <2>3. own'[d] = share
    BY <2>1, <2>2
  <2>. QED  BY <1>2, <1>4, <2>2, <2>3 DEF Bills
<1>12. /\ own' \in [Daemons -> Shares] /\ Own(d)' = share
       /\ \A e \in Daemons : e # d => Own(e)' = Own(e)
  BY <1>1, <1>3, <1>10, <1>11, OwnAfter
<1>13. /\ stored' \in [Daemons -> Shares] /\ unseen' \in BOOLEAN /\ trouble' \in 0 .. MaxTrouble
       /\ ~unseen' =>
            /\ ~unseen
            /\ (\A e \in Daemons : AsOfToday(stored[e]) = Own(e))
                 => \A e \in Daemons : AsOfToday(stored[e])' = Own(e)'
  BY <1>1, <1>3, <1>10, <1>11, StoredIsSeen
<1>14. /\ dayHeld' \in [Daemons -> Nat] /\ stopped' \subseteq Daemons
       /\ \A e \in stopped' : Hold(e)' = DayTotal(e)'.extra + 1
  BY <1>1, <1>3, <1>10, <1>11, SharesKeepStops
<1>15. /\ turn' \in [Callers -> Turns] /\ Due(turn'[c].at) + 1 <= Due(turn[c].at)
       /\ \A b \in Callers : b # c => turn'[b] = turn[b]
  BY <1>1, <1>2, <1>3, <1>7, AfterIsTurn
<1>16. /\ session \in [Callers -> Sessions] /\ session' \in [Callers -> Sessions]
       /\ \A b \in Callers : b # c \/ c \notin Named => session'[b] = session[b]
       /\ c \in Named => session'[c] = [session[c] EXCEPT !.tokens = session[c].tokens + n]
  <2>1. session \in [Callers -> Sessions]
    BY <1>1 DEF SpendTypeOK, Sessions
  <2>2. CASE c \in Named
    <3>1. session[c].tokens + prompt + completion = session[c].tokens + n
      BY <1>6, <1>7, <2>1 DEF Sessions
    <3>2. session' = [session EXCEPT ![c] = [session[c] EXCEPT !.tokens = session[c].tokens + n]]
      BY <1>2, <2>1, <2>2, <3>1
    <3>3. [session[c] EXCEPT !.tokens = session[c].tokens + n] \in Sessions
      BY <2>1 DEF Sessions
    <3>. QED  BY <2>1, <2>2, <3>2, <3>3
  <2>3. CASE c \notin Named
    BY <1>2, <2>1, <2>3
  <2>. QED  BY <2>1, <2>2, <2>3
<1>17. SpendTypeOK'
  <2>1. /\ calls' \in 0 .. MaxBills /\ raises' \in 0 .. MaxRaises
        /\ billed' \in Nat /\ today' \in 1 .. MaxDays
    BY <1>1, <1>2, <1>3, <1>7, BoundsAreNats DEF SpendTypeOK
  <2>. QED  BY <1>3, <1>12, <1>13, <1>14, <1>15, <1>16, <2>1 DEF SpendTypeOK, Shares, Sessions, Turns
<1>18. StopsHeld'
  <2>1. ASSUME NEW b \in Callers, session'[b].stopped
        PROVE  b \in Named /\ session'[b].held = session'[b].extra + 1
    BY <1>1, <1>16, <2>1 DEF StopsHeld, Sessions
  <2>. QED  BY <1>14, <2>1 DEF StopsHeld
<1>19. /\ SumFunction(Dues) \in Int /\ SumFunction(Dues') \in Int
       /\ SumFunction(Dues') <= SumFunction(Dues) - 1
  <2>1. Dues \in [Callers -> Int] /\ Dues' \in [Callers -> Int]
    BY DEF Dues, Due
  <2>2. /\ \A b \in Callers \ {c} : Dues'[b] = Dues[b]
        /\ Dues[c] = Due(turn[c].at) /\ Dues'[c] = Due(turn'[c].at)
    BY <1>15 DEF Dues
  <2>3. /\ SumFunction(Dues) \in Int
        /\ SumFunction(Dues') = SumFunction(Dues) + (Dues'[c] - Dues[c])
    BY <2>1, <2>2, SumChanges
  <2>4. Dues[c] \in Int /\ Dues'[c] \in Int
    BY <2>1
  <2>5. Dues'[c] + 1 <= Dues[c]
    BY <1>15, <2>2
  <2>. HIDE SpendAssumption
  <2>. QED  BY <2>3, <2>4, <2>5
<1>20. ASSUME ~unseen'
       PROVE  /\ \A e \in Daemons : AsOfToday(stored[e])' = Own(e)'
              /\ billed' = SumFunction(OwnTokens')
              /\ billed' + MaxCall * SumFunction(Dues')
                   < DayTokens * (1 + SumFunction(OwnExtra')) + MaxCall * (2 * Cardinality(Callers))
  <2>1. /\ \A e \in Daemons : AsOfToday(stored[e]) = Own(e)
        /\ billed = SumFunction(OwnTokens)
        /\ billed + MaxCall * SumFunction(Dues)
             < DayTokens * (1 + SumFunction(OwnExtra)) + MaxCall * (2 * Cardinality(Callers))
    BY <1>1, <1>13, <1>20 DEF DayBounded
  <2>2. \A e \in Daemons : AsOfToday(stored[e])' = Own(e)'
    BY <1>13, <1>20, <2>1
  <2>3. OwnExtra' = OwnExtra
    BY <1>10, <1>12 DEF OwnExtra
  <2>4. OwnTokens \in [Daemons -> Int] /\ OwnTokens' \in [Daemons -> Int]
    BY <1>8, <1>10, <1>12, <1>1, OwnIsShare DEF OwnTokens, Shares
  <2>5. /\ \A e \in Daemons \ {d} : OwnTokens'[e] = OwnTokens[e]
        /\ OwnTokens'[d] = OwnTokens[d] + n
    BY <1>10, <1>12 DEF OwnTokens
  <2>6. /\ SumFunction(OwnTokens) \in Int
        /\ SumFunction(OwnTokens') = SumFunction(OwnTokens) + (OwnTokens'[d] - OwnTokens[d])
    BY <2>4, <2>5, SumChanges
  <2>7. OwnTokens[d] \in Int /\ OwnTokens'[d] \in Int
    BY <2>4
  <2>8. billed \in Int /\ billed' = billed + n
    BY <1>1, <1>2, <1>6, <1>7 DEF SpendTypeOK
  <2>9. billed' = SumFunction(OwnTokens')
    BY <2>1, <2>5, <2>6, <2>7, <2>8
  <2>10. MaxCall * SumFunction(Dues') <= MaxCall * SumFunction(Dues) - MaxCall
    <3>1. SumFunction(Dues) - 1 \in Int
      BY <1>19
    <3>2. MaxCall * SumFunction(Dues') <= MaxCall * (SumFunction(Dues) - 1)
      BY <1>5, <1>19, <3>1, MulMono
    <3>. QED  BY <1>5, <1>19, <3>2, MulStep
  <2>11. /\ MaxCall * SumFunction(Dues') \in Int /\ MaxCall * SumFunction(Dues) \in Int
         /\ DayTokens * (1 + SumFunction(OwnExtra)) \in Int
         /\ MaxCall * (2 * Cardinality(Callers)) \in Int
    BY <1>1, <1>5, <1>19, SumsAreNats
  <2>12. billed' + MaxCall * SumFunction(Dues')
           < DayTokens * (1 + SumFunction(OwnExtra)) + MaxCall * (2 * Cardinality(Callers))
    <3>. HIDE SpendAssumption
    <3>. QED  BY <1>5, <1>7, <2>1, <2>8, <2>10, <2>11
  <2>. QED  BY <2>2, <2>3, <2>9, <2>12
<1>21. ASSUME NEW b \in Named
       PROVE  session'[b].tokens + MaxCall * Due(turn'[b].at)
                < SessionTokens * (1 + session'[b].extra) + MaxCall * 2
  <2>1. b \in Callers
    OBVIOUS
  <2>2. session[b].tokens + MaxCall * Due(turn[b].at)
          < SessionTokens * (1 + session[b].extra) + MaxCall * 2
    BY <1>1 DEF SessionBounded
  <2>3. CASE b # c
    BY <1>15, <1>16, <2>1, <2>2, <2>3
  <2>4. CASE b = c
    <3>1. session'[b].tokens = session[b].tokens + n /\ session'[b].extra = session[b].extra
      BY <1>16, <2>4 DEF Sessions
    <3>2. /\ Due(turn'[b].at) \in Int /\ Due(turn[b].at) \in Int
          /\ Due(turn'[b].at) <= Due(turn[b].at) - 1
          /\ session[b].tokens \in Int /\ session[b].extra \in Int
      BY <1>15, <1>16, <2>1, <2>4 DEF Due, Sessions
    <3>3. Due(turn[b].at) - 1 \in Int
      BY <3>2
    <3>4. MaxCall * Due(turn'[b].at) <= MaxCall * (Due(turn[b].at) - 1)
      BY <1>5, <3>2, <3>3, MulMono
    <3>5. MaxCall * (Due(turn[b].at) - 1) = MaxCall * Due(turn[b].at) - MaxCall
      BY <1>5, <3>2, MulStep
    <3>6. /\ MaxCall * Due(turn'[b].at) \in Int /\ MaxCall * Due(turn[b].at) \in Int
          /\ SessionTokens * (1 + session[b].extra) \in Int
      BY <1>5, <3>2
    <3>7. session[b].tokens + n + MaxCall * Due(turn'[b].at)
            < SessionTokens * (1 + session[b].extra) + MaxCall * 2
      <4>. HIDE SpendAssumption
      <4>. QED  BY <1>5, <1>7, <2>2, <3>2, <3>4, <3>5, <3>6
    <3>. QED  BY <3>1, <3>7
  <2>. QED  BY <2>3, <2>4
<1>22. DayBounded'
  BY <1>20 DEF DayBounded
<1>23. SessionBounded'
  BY <1>21 DEF SessionBounded
<1>. QED  BY <1>17, <1>18, <1>22, <1>23 DEF SpendInv

\* /budget more: the limit that was met is raised by another allotment, and holds no more.
LEMMA RaisesKeepInv ==
  ASSUME SpendInv, NEW c \in Callers, Raises(c)
  PROVE  SpendInv'
<1>1. SpendTypeOK /\ StopsHeld /\ DayBounded /\ SessionBounded
  BY DEF SpendInv
<1>2. PICK d \in Daemons : d = Home[c]
  OBVIOUS
<1>3. /\ c \in Named /\ raises < MaxRaises
      /\ \/ session' = [session EXCEPT ![c].extra = @ + 1, ![c].stopped = FALSE]
         \/ session' = session
      /\ dayHeld' = [dayHeld EXCEPT ![d] = Hold(d)]
      /\ \/ /\ own' = [own EXCEPT ![d] = [Own(d) EXCEPT !.extra = @ + 1]]
            /\ Stores(d, own'[d])
         \/ /\ own' = [own EXCEPT ![d] = Own(d)]
            /\ UNCHANGED <<stored, unseen, trouble>>
      /\ raises' = raises + 1
      /\ UNCHANGED <<today, turn, billed, calls>>
      /\ stopped' = StillStopped
  BY <1>2 DEF Raises
<1>4. MaxCall \in Nat
  BY MaxCallIsMost
<1>5. Own(d) \in Shares /\ Own(d).day = today
  BY <1>1, OwnIsShare
<1>6. PICK share \in Shares :
        /\ own' = [own EXCEPT ![d] = share] /\ share.day = today
        /\ share.tokens = Own(d).tokens
        /\ \/ share.extra = Own(d).extra + 1
           \/ share = Own(d) /\ UNCHANGED <<stored, unseen, trouble>>
        /\ share # Own(d) => Stores(d, share)
  <2>0. own \in [Daemons -> Shares]
    BY <1>1 DEF SpendTypeOK, Shares
  <2>1. CASE /\ own' = [own EXCEPT ![d] = [Own(d) EXCEPT !.extra = @ + 1]]
             /\ Stores(d, own'[d])
    <3>1. PICK share \in Shares : share = [Own(d) EXCEPT !.extra = Own(d).extra + 1]
      BY <1>5, ShareRaised
    <3>2. share.day = today /\ share.tokens = Own(d).tokens /\ share.extra = Own(d).extra + 1
      BY <1>5, <3>1, ShareRaised
    <3>3. own' = [own EXCEPT ![d] = share]
      BY <2>0, <2>1, <3>1
    <3>4. own'[d] = share
      BY <2>0, <3>3
    <3>5. Stores(d, share)
      BY <2>1, <3>4
    <3>6. /\ own' = [own EXCEPT ![d] = share] /\ share.day = today
          /\ share.tokens = Own(d).tokens
          /\ \/ share.extra = Own(d).extra + 1
             \/ share = Own(d) /\ UNCHANGED <<stored, unseen, trouble>>
          /\ share # Own(d) => Stores(d, share)
      BY <3>2, <3>3, <3>5
    <3>. QED  BY <3>6
  <2>2. CASE /\ own' = [own EXCEPT ![d] = Own(d)]
             /\ UNCHANGED <<stored, unseen, trouble>>
    BY <1>5, <2>2
  <2>. QED  BY <1>3, <2>1, <2>2
<1>7. /\ own' \in [Daemons -> Shares] /\ Own(d)' = share
      /\ \A e \in Daemons : e # d => Own(e)' = Own(e)
  BY <1>1, <1>3, <1>6, OwnAfter
<1>8. /\ stored' \in [Daemons -> Shares] /\ unseen' \in BOOLEAN /\ trouble' \in 0 .. MaxTrouble
      /\ ~unseen' =>
           /\ ~unseen
           /\ (\A e \in Daemons : AsOfToday(stored[e]) = Own(e))
                => \A e \in Daemons : AsOfToday(stored[e])' = Own(e)'
  <2>1. CASE share = Own(d) /\ UNCHANGED <<stored, unseen, trouble>>
    <3>1. stored \in [Daemons -> Shares] /\ unseen \in BOOLEAN /\ trouble \in 0 .. MaxTrouble
      BY <1>1 DEF SpendTypeOK, Shares
    <3>2. \A e \in Daemons : AsOfToday(stored[e])' = AsOfToday(stored[e]) /\ Own(e)' = Own(e)
      BY <1>3, <1>7, <2>1 DEF AsOfToday, NoShare
    <3>. QED  BY <2>1, <3>1, <3>2
  <2>2. CASE share.extra = Own(d).extra + 1
    <3>1. share # Own(d)
      BY <1>5, <2>2 DEF Shares
    <3>2. Stores(d, share)
      BY <1>6, <3>1
    <3>. QED  BY <1>1, <1>3, <1>6, <3>2, StoredIsSeen
  <2>. QED  BY <1>6, <2>1, <2>2
<1>9. /\ dayHeld' \in [Daemons -> Nat] /\ stopped' \subseteq Daemons
      /\ \A e \in stopped' : Hold(e)' = DayTotal(e)'.extra + 1
  BY <1>1, <1>3, <1>6, SharesKeepStops
<1>10. /\ session \in [Callers -> Sessions] /\ session' \in [Callers -> Sessions]
       /\ \A b \in Callers : /\ session'[b].tokens = session[b].tokens
                             /\ session[b].extra <= session'[b].extra
                             /\ session'[b].stopped => session'[b] = session[b]
  <2>1. session \in [Callers -> Sessions]
    BY <1>1 DEF SpendTypeOK, Sessions
  <2>2. CASE session' = [session EXCEPT ![c].extra = @ + 1, ![c].stopped = FALSE]
    <3>1. session'[c] = [session[c] EXCEPT !.extra = session[c].extra + 1, !.stopped = FALSE]
      BY <2>1, <2>2
    <3>2. /\ session'[c] \in Sessions /\ session'[c].tokens = session[c].tokens
          /\ session'[c].extra = session[c].extra + 1 /\ ~session'[c].stopped
      <4>1. session[c] \in Sessions
        BY <2>1
      <4>. QED  BY <3>1, <4>1, SessionRaised
    <3>3. \A b \in Callers : b # c => session'[b] = session[b]
      BY <2>1, <2>2
    <3>4. session' \in [Callers -> Sessions]
      BY <2>1, <2>2, <3>2, <3>3
    <3>. QED  BY <2>1, <3>2, <3>3, <3>4 DEF Sessions
  <2>3. CASE session' = session
    BY <2>1, <2>3 DEF Sessions
  <2>. QED  BY <1>3, <2>2, <2>3
<1>11. turn \in [Callers -> Turns]
  BY <1>1 DEF SpendTypeOK, Turns
<1>12. SpendTypeOK'
  <2>1. calls' \in 0 .. MaxBills /\ raises' \in 0 .. MaxRaises /\ billed' \in Nat /\ today' \in 1 .. MaxDays
    BY <1>1, <1>3, BoundsAreNats DEF SpendTypeOK
  <2>. QED  BY <1>3, <1>7, <1>8, <1>9, <1>10, <1>11, <2>1 DEF SpendTypeOK, Shares, Sessions, Turns
<1>13. StopsHeld'
  <2>1. ASSUME NEW b \in Callers, session'[b].stopped
        PROVE  b \in Named /\ session'[b].held = session'[b].extra + 1
    BY <1>1, <1>10, <2>1 DEF StopsHeld
  <2>. QED  BY <1>9, <2>1 DEF StopsHeld
<1>14. ASSUME ~unseen'
       PROVE  /\ \A e \in Daemons : AsOfToday(stored[e])' = Own(e)'
              /\ billed' = SumFunction(OwnTokens')
              /\ billed' + MaxCall * SumFunction(Dues')
                   < DayTokens * (1 + SumFunction(OwnExtra')) + MaxCall * (2 * Cardinality(Callers))
  <2>1. /\ \A e \in Daemons : AsOfToday(stored[e]) = Own(e)
        /\ billed = SumFunction(OwnTokens)
        /\ billed + MaxCall * SumFunction(Dues)
             < DayTokens * (1 + SumFunction(OwnExtra)) + MaxCall * (2 * Cardinality(Callers))
    BY <1>1, <1>8, <1>14 DEF DayBounded
  <2>2. \A e \in Daemons : AsOfToday(stored[e])' = Own(e)'
    BY <1>8, <1>14, <2>1
  <2>3. OwnTokens' = OwnTokens /\ Dues' = Dues
    BY <1>3, <1>6, <1>7 DEF OwnTokens, Dues
  <2>4. /\ OwnExtra \in [Daemons -> Int] /\ OwnExtra' \in [Daemons -> Int]
        /\ \A e \in Daemons : OwnExtra[e] <= OwnExtra'[e]
    <3>1. \A e \in Daemons : Own(e).extra \in Nat /\ Own(e)'.extra \in Nat /\ Own(e).extra <= Own(e)'.extra
      <4>1. \A e \in Daemons : Own(e).extra \in Nat
        BY <1>1, OwnIsShare DEF Shares
      <4>. QED  BY <1>6, <1>7, <4>1
    <3>. QED  BY <3>1 DEF OwnExtra
  <2>5. /\ SumFunction(OwnExtra') \in Int /\ SumFunction(OwnExtra) \in Int
        /\ SumFunction(OwnExtra) <= SumFunction(OwnExtra')
    BY <2>4, SumIsMonotone
  <2>6. 1 + SumFunction(OwnExtra) \in Int /\ 1 + SumFunction(OwnExtra') \in Int
        /\ 1 + SumFunction(OwnExtra) <= 1 + SumFunction(OwnExtra')
    BY <2>5
  <2>7. DayTokens * (1 + SumFunction(OwnExtra)) <= DayTokens * (1 + SumFunction(OwnExtra'))
    BY <2>6, MulMono
  <2>8. /\ DayTokens * (1 + SumFunction(OwnExtra)) \in Int
        /\ DayTokens * (1 + SumFunction(OwnExtra')) \in Int
        /\ MaxCall * SumFunction(Dues) \in Int /\ MaxCall * (2 * Cardinality(Callers)) \in Int
    BY <1>1, <1>4, <2>6, SumsAreNats
  <2>9. billed \in Int /\ billed' = billed
    BY <1>1, <1>3 DEF SpendTypeOK
  <2>10. billed' + MaxCall * SumFunction(Dues)
           < DayTokens * (1 + SumFunction(OwnExtra')) + MaxCall * (2 * Cardinality(Callers))
    <3>. HIDE SpendAssumption
    <3>. QED  BY <2>1, <2>7, <2>8, <2>9
  <2>. QED  BY <2>1, <2>2, <2>3, <2>9, <2>10
<1>15. ASSUME NEW b \in Named
       PROVE  session'[b].tokens + MaxCall * Due(turn'[b].at)
                < SessionTokens * (1 + session'[b].extra) + MaxCall * 2
  <2>1. b \in Callers
    OBVIOUS
  <2>2. session[b].tokens + MaxCall * Due(turn[b].at)
          < SessionTokens * (1 + session[b].extra) + MaxCall * 2
    BY <1>1 DEF SessionBounded
  <2>3. /\ session[b].tokens \in Int /\ 1 + session[b].extra \in Int /\ 1 + session'[b].extra \in Int
        /\ 1 + session[b].extra <= 1 + session'[b].extra
        /\ session'[b].tokens = session[b].tokens
    BY <1>10, <2>1 DEF Sessions
  <2>4. SessionTokens * (1 + session[b].extra) <= SessionTokens * (1 + session'[b].extra)
    BY <2>3, MulMono
  <2>5. /\ SessionTokens * (1 + session[b].extra) \in Int
        /\ SessionTokens * (1 + session'[b].extra) \in Int
    BY <2>3
  <2>6. MaxCall * Due(turn[b].at) \in Int
    BY <1>4 DEF Due
  <2>7. session[b].tokens + MaxCall * Due(turn[b].at)
          < SessionTokens * (1 + session'[b].extra) + MaxCall * 2
    <3>. HIDE SpendAssumption
    <3>. QED  BY <1>4, <2>2, <2>3, <2>4, <2>5, <2>6
  <2>. QED  BY <1>3, <2>3, <2>7
<1>16. DayBounded'
  BY <1>14 DEF DayBounded
<1>17. SessionBounded'
  BY <1>15 DEF SessionBounded
<1>. QED  BY <1>12, <1>13, <1>16, <1>17 DEF SpendInv

\* At midnight every share of the day is nothing.
LEMMA NextDayKeepsInv ==
  ASSUME SpendInv, NextDay
  PROVE  SpendInv'
<1>1. SpendTypeOK /\ SessionBounded /\ StopsHeld
  BY DEF SpendInv
<1>2. /\ today < MaxDays /\ today' = today + 1 /\ billed' = 0 /\ unseen' = FALSE /\ stopped' = {}
      /\ UNCHANGED <<own, stored, dayHeld, session, turn, calls, raises, trouble>>
  BY DEF NextDay, bounds
<1>3. today \in Nat /\ today' \in 1 .. MaxDays
  BY <1>1, <1>2, BoundsAreNats DEF SpendTypeOK
<1>4. \A d \in Daemons : /\ own[d] \in Shares /\ own[d].day # today'
                         /\ stored[d] \in Shares /\ stored[d].day # today'
  <2>1. \A d \in Daemons : own[d] \in Shares /\ stored[d] \in Shares
    BY <1>1 DEF SpendTypeOK, Shares
  <2>. QED  BY <1>2, <1>3, <2>1 DEF Shares
<1>5. \A d \in Daemons : Own(d)' = NoShare(today') /\ AsOfToday(stored[d])' = NoShare(today')
  BY <1>2, <1>4 DEF Own, AsOfToday, NoShare
<1>6. SpendTypeOK'
  <2>1. \A n \in 1 .. today : n \in 1 .. today'
    BY <1>2, <1>3
  <2>2. own' \in [Daemons -> Shares'] /\ stored' \in [Daemons -> Shares']
    <3>1. \A share \in Shares : share \in Shares'
      BY <2>1 DEF Shares
    <3>. QED  BY <1>1, <1>2, <3>1 DEF SpendTypeOK, Shares
  <2>. QED  BY <1>1, <1>2, <1>3, <2>2 DEF SpendTypeOK, Shares
<1>7. /\ \A d \in Daemons : AsOfToday(stored[d])' = Own(d)'
      /\ billed' = SumFunction(OwnTokens')
      /\ billed' + MaxCall * SumFunction(Dues')
           < DayTokens * (1 + SumFunction(OwnExtra')) + MaxCall * (2 * Cardinality(Callers))
  <2>1. /\ OwnTokens' \in [Daemons -> Nat] /\ \A d \in Daemons : OwnTokens'[d] = 0
        /\ OwnExtra' \in [Daemons -> Nat] /\ \A d \in Daemons : OwnExtra'[d] = 0
    BY <1>5 DEF OwnTokens, OwnExtra, NoShare
  <2>2. SumFunction(OwnTokens') = 0 /\ SumFunction(OwnExtra') = 0
    BY <2>1, SumOfZeros
  <2>3. Dues' = Dues
    BY <1>2 DEF Dues
  <2>4. /\ SumFunction(Dues) \in Int /\ 2 * Cardinality(Callers) \in Int
        /\ SumFunction(Dues) <= 2 * Cardinality(Callers)
    BY <1>1, SumsAreNats
  <2>5. MaxCall \in Nat
    BY MaxCallIsMost
  <2>6. MaxCall * SumFunction(Dues) <= MaxCall * (2 * Cardinality(Callers))
    BY <2>4, <2>5, MulMono
  <2>7. MaxCall * SumFunction(Dues) \in Int /\ MaxCall * (2 * Cardinality(Callers)) \in Int
    BY <2>4, <2>5
  <2>8. DayTokens * (1 + 0) = DayTokens /\ DayTokens > 0
    OBVIOUS
  <2>9. 0 + MaxCall * SumFunction(Dues) < DayTokens * (1 + 0) + MaxCall * (2 * Cardinality(Callers))
    BY <2>6, <2>7, <2>8
  <2>. QED  BY <1>2, <1>5, <2>2, <2>3, <2>9
<1>8. StopsHeld'
  BY <1>1, <1>2 DEF StopsHeld
<1>9. SessionBounded'
  BY <1>1, <1>2 DEF SessionBounded
<1>10. DayBounded'
  BY <1>7 DEF DayBounded
<1>. QED  BY <1>6, <1>8, <1>9, <1>10 DEF SpendInv

\* A daemon that starts again takes what it stored, and what was under way is gone.
LEMMA RestartsKeepInv ==
  ASSUME SpendInv, NEW d \in Daemons, Restarts(d)
  PROVE  SpendInv'
<1>1. SpendTypeOK /\ StopsHeld /\ DayBounded /\ SessionBounded
  BY DEF SpendInv
<1>2. /\ trouble < MaxTrouble /\ trouble' = trouble + 1
      /\ own' = [own EXCEPT ![d] = AsOfToday(stored[d])]
      /\ dayHeld' = [dayHeld EXCEPT ![d] = 0]
      /\ stopped' = stopped \ {d}
      /\ UNCHANGED <<today, stored, billed, unseen, calls, raises>>
  BY DEF Restarts, Opens
<1>3. \A c \in Callers : \/ session'[c] = session[c] /\ turn'[c] = turn[c]
                         \/ session'[c] = NoSession /\ turn'[c] = Idle
  BY DEF Restarts
<1>4. MaxCall \in Nat
  BY MaxCallIsMost
<1>5. PICK share \in Shares : share = AsOfToday(stored[d]) /\ share.day = today
  BY <1>1, OwnIsShare
<1>6. own' = [own EXCEPT ![d] = share]
  BY <1>2, <1>5
<1>7. /\ own' \in [Daemons -> Shares] /\ Own(d)' = share
      /\ \A e \in Daemons : e # d => Own(e)' = Own(e)
  BY <1>1, <1>2, <1>5, <1>6, OwnAfter
<1>8. 0 \in Nat
  OBVIOUS
<1>9. /\ dayHeld' \in [Daemons -> Nat]
      /\ \A e \in Daemons : e # d => Hold(e)' = Hold(e)
  BY <1>1, <1>2, <1>5, <1>6, <1>8, HoldAfter
<1>10. /\ session' \in [Callers -> Sessions] /\ turn' \in [Callers -> Turns]
       /\ \A c \in Callers : Due(turn'[c].at) <= Due(turn[c].at)
  <2>1. NoSession \in Sessions /\ Idle \in Turns /\ Idle.at = "idle"
    BY DEF NoSession, Idle, Sessions, Turns
  <2>2. /\ DOMAIN session' = Callers /\ session' = [c \in Callers |-> session'[c]]
        /\ turn' = [c \in Callers |-> turn'[c]]
    BY DEF Restarts
  <2>3. \A c \in Callers : session[c] \in Sessions /\ turn[c] \in Turns
    BY <1>1 DEF SpendTypeOK, Sessions, Turns
  <2>4. \A c \in Callers : session'[c] \in Sessions /\ turn'[c] \in Turns
    BY <1>3, <2>1, <2>3
  <2>5. \A c \in Callers : Due(turn'[c].at) <= Due(turn[c].at)
    BY <1>3, <2>1 DEF Due
  <2>. QED  BY <2>2, <2>4, <2>5
<1>11. SpendTypeOK'
  <2>1. /\ trouble' \in 0 .. MaxTrouble /\ stopped' \subseteq Daemons
        /\ stored' \in [Daemons -> Shares]
    BY <1>1, <1>2, BoundsAreNats DEF SpendTypeOK, Shares
  <2>. QED  BY <1>1, <1>2, <1>7, <1>9, <1>10, <2>1 DEF SpendTypeOK, Shares, Sessions, Turns
<1>12. StopsHeld'
  <2>1. ASSUME NEW c \in Callers, session'[c].stopped
        PROVE  c \in Named /\ session'[c].held = session'[c].extra + 1
    BY <1>1, <1>3, <2>1 DEF StopsHeld, NoSession
  <2>2. ASSUME NEW e \in Daemons, e # d
        PROVE  DayTotal(e)' = DayTotal(e)
    <3>1. \A x \in Daemons : AsOfToday(stored[x])' = AsOfToday(stored[x])
      BY <1>2 DEF AsOfToday, NoShare
    <3>2. \A x \in Daemons : Share(e, x)' = Share(e, x)
      BY <1>7, <2>2, <3>1 DEF Share
    <3>3. /\ [x \in Daemons |-> Share(e, x)'.tokens] = [x \in Daemons |-> Share(e, x).tokens]
          /\ [x \in Daemons |-> Share(e, x)'.extra] = [x \in Daemons |-> Share(e, x).extra]
      BY <3>2
    <3>. QED  BY <1>2, <3>3 DEF DayTotal
  <2>3. ASSUME NEW e \in stopped'
        PROVE  Hold(e)' = DayTotal(e)'.extra + 1
    <3>1. e \in stopped /\ e # d /\ e \in Daemons
      BY <1>1, <1>2, <2>3 DEF SpendTypeOK
    <3>2. Hold(e)' = Hold(e) /\ DayTotal(e)' = DayTotal(e)
      BY <1>9, <2>2, <3>1
    <3>. QED  BY <1>1, <3>1, <3>2 DEF StopsHeld
  <2>. QED  BY <2>1, <2>3 DEF StopsHeld
<1>13. ASSUME ~unseen'
       PROVE  /\ \A e \in Daemons : AsOfToday(stored[e])' = Own(e)'
              /\ billed' = SumFunction(OwnTokens')
              /\ billed' + MaxCall * SumFunction(Dues')
                   < DayTokens * (1 + SumFunction(OwnExtra')) + MaxCall * (2 * Cardinality(Callers))
  <2>1. /\ \A e \in Daemons : AsOfToday(stored[e]) = Own(e)
        /\ billed = SumFunction(OwnTokens)
        /\ billed + MaxCall * SumFunction(Dues)
             < DayTokens * (1 + SumFunction(OwnExtra)) + MaxCall * (2 * Cardinality(Callers))
    BY <1>1, <1>2, <1>13 DEF DayBounded
  <2>2. \A e \in Daemons : Own(e)' = Own(e)
    BY <1>5, <1>7, <2>1
  <2>3. \A e \in Daemons : AsOfToday(stored[e])' = AsOfToday(stored[e])
    BY <1>2 DEF AsOfToday, NoShare
  <2>4. OwnTokens' = OwnTokens /\ OwnExtra' = OwnExtra
    BY <2>2 DEF OwnTokens, OwnExtra
  <2>5. /\ Dues \in [Callers -> Int] /\ Dues' \in [Callers -> Int]
        /\ \A c \in Callers : Dues'[c] <= Dues[c]
    BY <1>10 DEF Dues, Due
  <2>6. /\ SumFunction(Dues) \in Int /\ SumFunction(Dues') \in Int
        /\ SumFunction(Dues') <= SumFunction(Dues)
    BY <2>5, SumIsMonotone
  <2>7. MaxCall * SumFunction(Dues') <= MaxCall * SumFunction(Dues)
    BY <1>4, <2>6, MulMono
  <2>8. /\ MaxCall * SumFunction(Dues) \in Int /\ MaxCall * SumFunction(Dues') \in Int
        /\ DayTokens * (1 + SumFunction(OwnExtra)) \in Int
        /\ MaxCall * (2 * Cardinality(Callers)) \in Int /\ billed \in Int
    BY <1>1, <1>4, <2>6, SumsAreNats DEF SpendTypeOK
  <2>9. billed + MaxCall * SumFunction(Dues')
          < DayTokens * (1 + SumFunction(OwnExtra)) + MaxCall * (2 * Cardinality(Callers))
    <3>. HIDE SpendAssumption
    <3>. QED  BY <2>1, <2>7, <2>8
  <2>. QED  BY <1>2, <2>1, <2>2, <2>3, <2>4, <2>9
<1>14. ASSUME NEW c \in Named
       PROVE  session'[c].tokens + MaxCall * Due(turn'[c].at)
                < SessionTokens * (1 + session'[c].extra) + MaxCall * 2
  <2>1. c \in Callers
    OBVIOUS
  <2>2. CASE session'[c] = session[c] /\ turn'[c] = turn[c]
    BY <1>1, <2>2 DEF SessionBounded
  <2>3. CASE session'[c] = NoSession /\ turn'[c] = Idle
    <3>1. session'[c].tokens = 0 /\ session'[c].extra = 0 /\ Due(turn'[c].at) = 0
      BY <2>3 DEF NoSession, Idle, Due
    <3>2. 0 + MaxCall * 0 < SessionTokens * (1 + 0) + MaxCall * 2
      BY <1>4
    <3>. QED  BY <3>1, <3>2
  <2>. QED  BY <1>3, <2>1, <2>2, <2>3
<1>15. DayBounded'
  BY <1>13 DEF DayBounded
<1>16. SessionBounded'
  BY <1>14 DEF SessionBounded
<1>. QED  BY <1>11, <1>12, <1>15, <1>16 DEF SpendInv

-----------------------------------------------------------------------------
\* What holds of every behaviour.

LEMMA SpendStarts == SpendInit => SpendInv
<1>. SUFFICES ASSUME SpendInit
              PROVE  SpendInv
  OBVIOUS
<1>1. SpendTypeOK
  BY SpendInitTypes
<1>2. /\ today = 1 /\ own = [d \in Daemons |-> NoShare(1)] /\ stored = own
      /\ session = [c \in Callers |-> NoSession] /\ turn = [c \in Callers |-> Idle]
      /\ billed = 0 /\ stopped = {}
  BY DEF SpendInit
<1>3. MaxCall \in Nat
  BY MaxCallIsMost
<1>4. StopsHeld
  BY <1>2 DEF StopsHeld, NoSession
<1>5. \A d \in Daemons : Own(d) = NoShare(1) /\ AsOfToday(stored[d]) = Own(d)
  BY <1>2 DEF Own, AsOfToday, NoShare
<1>6. SumFunction(OwnTokens) = 0 /\ SumFunction(OwnExtra) = 0
  <2>1. /\ OwnTokens \in [Daemons -> Nat] /\ \A d \in Daemons : OwnTokens[d] = 0
        /\ OwnExtra \in [Daemons -> Nat] /\ \A d \in Daemons : OwnExtra[d] = 0
    BY <1>5 DEF OwnTokens, OwnExtra, NoShare
  <2>. QED  BY <2>1, SumOfZeros
<1>7. /\ Dues \in [Callers -> Nat] /\ \A c \in Callers : Dues[c] = 0
      /\ \A c \in Callers : session[c].tokens = 0 /\ session[c].extra = 0 /\ Due(turn[c].at) = 0
  BY <1>2 DEF Dues, Due, Idle, NoSession
<1>8. SumFunction(Dues) = 0
  BY <1>7, SumOfZeros
<1>9. DayTokens * (1 + 0) = DayTokens /\ DayTokens > 0
      /\ SessionTokens * (1 + 0) = SessionTokens /\ SessionTokens > 0
  OBVIOUS
<1>10. MaxCall * 0 = 0
  BY <1>3
<1>11. DayBounded
  <2>1. 2 * Cardinality(Callers) \in Nat
    BY <1>1, SumsAreNats
  <2>2. MaxCall * 0 <= MaxCall * (2 * Cardinality(Callers)) /\ MaxCall * (2 * Cardinality(Callers)) \in Int
    BY <1>3, <2>1, MulMono
  <2>3. 0 + MaxCall * 0 < DayTokens * (1 + 0) + MaxCall * (2 * Cardinality(Callers))
    BY <1>9, <1>10, <2>2
  <2>. QED  BY <1>2, <1>5, <1>6, <1>8, <2>3 DEF DayBounded
<1>12. SessionBounded
  <2>1. 0 + MaxCall * 0 < SessionTokens * (1 + 0) + MaxCall * 2
    BY <1>3, <1>9, <1>10
  <2>. QED  BY <1>7, <2>1 DEF SessionBounded
<1>. QED  BY <1>1, <1>4, <1>11, <1>12 DEF SpendInv

LEMMA NothingKeepsSpendInv == SpendInv /\ UNCHANGED spendVars => SpendInv'
  BY DEF spendVars, SpendInv, SpendTypeOK, StopsHeld, DayBounded, SessionBounded, Dues, OwnTokens,
         OwnExtra, Own, AsOfToday, NoShare, Hold, DayTotal, Share, Due

LEMMA SpendNextKeepsInv == SpendInv /\ [SpendNext]_spendVars => SpendInv'
<1>. SUFFICES ASSUME SpendInv, SpendNext
              PROVE  SpendInv'
  BY NothingKeepsSpendInv
<1>1. ASSUME NEW c \in Callers,
             \/ Refuses(c) \/ Admits(c) \/ Steps(c) \/ StepStops(c) \/ EndsOtherwise(c)
             \/ CallUnreported(c)
      PROVE  SpendInv'
  BY <1>1, TurnsKeepInv
<1>2. ASSUME NEW c \in Callers, CallBilled(c)
      PROVE  SpendInv'
  BY <1>2, BilledKeepsInv
<1>3. ASSUME NEW c \in Callers, Raises(c)
      PROVE  SpendInv'
  BY <1>3, RaisesKeepInv
<1>4. CASE NextDay
  BY <1>4, NextDayKeepsInv
<1>5. ASSUME NEW d \in Daemons, Looks(d)
      PROVE  SpendInv'
  BY <1>5, LooksKeepsInv
<1>6. ASSUME NEW d \in Daemons, Restarts(d)
      PROVE  SpendInv'
  BY <1>6, RestartsKeepInv
<1>. QED  BY <1>1, <1>2, <1>3, <1>4, <1>5, <1>6 DEF SpendNext

\* What was stopped is remembered by its allotment, and what was billed is with what is under way
\* within the limits: the invariant behind the theorems below (spendLedger in spend.go).
THEOREM SpendInvHolds == SpendSpec => []SpendInv
<1>. QED  BY SpendStarts, SpendNextKeepsInv, PTL DEF SpendSpec

\* The ledger's shares are of today or of a day before, its counts are numbers, and a turn is
\* idle, before a step, in a call, or in the call that sums up.
THEOREM SpendIsTyped == SpendSpec => []SpendTypeOK
<1>1. SpendInv => SpendTypeOK
  BY DEF SpendInv
<1>. QED  BY <1>1, SpendInvHolds, PTL

\* Whatever the daemons, clients and limits: past the limit of the day go only the calls of turns
\* that were under way when it was met, one step and one summing up each, as long as every share
\* could be stored; and past its own a session goes by one turn's only (checkCalls, budgetStop
\* and add in spend.go).
THEOREM OverrunIsBounded == SpendSpec => []OverrunBounded
<1>1. SpendInv => OverrunBounded
  <2>. SUFFICES ASSUME SpendInv
                PROVE  OverrunBounded
    OBVIOUS
  <2>1. SpendTypeOK /\ DayBounded /\ SessionBounded
    BY DEF SpendInv
  <2>2. MaxCall \in Nat
    BY MaxCallIsMost
  <2>3. ASSUME ~unseen
        PROVE  billed < DayTokens * (1 + SumFunction([d \in Daemons |-> Own(d).extra]))
                          + 2 * Cardinality(Callers) * MaxCall
    <3>1. billed + MaxCall * SumFunction(Dues)
            < DayTokens * (1 + SumFunction(OwnExtra)) + MaxCall * (2 * Cardinality(Callers))
      BY <2>1, <2>3 DEF DayBounded
    <3>2. SumFunction(Dues) \in Nat /\ 2 * Cardinality(Callers) \in Nat /\ Cardinality(Callers) \in Nat
      BY <2>1, SumsAreNats
    <3>3. MaxCall * 0 = 0 /\ MaxCall * 0 <= MaxCall * SumFunction(Dues)
      BY <2>2, <3>2, MulMono
    <3>4. /\ MaxCall * SumFunction(Dues) \in Int /\ MaxCall * (2 * Cardinality(Callers)) \in Int
          /\ DayTokens * (1 + SumFunction(OwnExtra)) \in Int /\ billed \in Int
      BY <2>1, <2>2, <3>2, SumsAreNats DEF SpendTypeOK
    <3>5. 2 * Cardinality(Callers) * MaxCall = MaxCall * (2 * Cardinality(Callers))
      BY <2>2, <3>2
    <3>6. billed < DayTokens * (1 + SumFunction(OwnExtra)) + 2 * Cardinality(Callers) * MaxCall
      <4>. HIDE SpendAssumption
      <4>. QED  BY <3>1, <3>3, <3>4, <3>5
    <3>. QED  BY <3>6 DEF OwnExtra
  <2>4. ASSUME NEW c \in Named
        PROVE  session[c].tokens < SessionTokens * (1 + session[c].extra) + 2 * MaxCall
    <3>1. session[c].tokens + MaxCall * Due(turn[c].at)
            < SessionTokens * (1 + session[c].extra) + MaxCall * 2
      BY <2>1 DEF SessionBounded
    <3>2. Due(turn[c].at) \in Nat
      BY DEF Due
    <3>3. MaxCall * 0 = 0 /\ MaxCall * 0 <= MaxCall * Due(turn[c].at)
      BY <2>2, <3>2, MulMono
    <3>4. session[c].tokens \in Int /\ session[c].extra \in Int
      BY <2>1 DEF SpendTypeOK
    <3>5. MaxCall * Due(turn[c].at) \in Int /\ SessionTokens * (1 + session[c].extra) \in Int
      BY <2>2, <3>2, <3>4
    <3>. HIDE SpendAssumption
    <3>. QED  BY <2>2, <3>1, <3>3, <3>4, <3>5
  <2>. QED  BY <2>3, <2>4 DEF OverrunBounded
<1>. QED  BY <1>1, SpendInvHolds, PTL

\* A question is only let through by a client whose session was not stopped since its limit was
\* raised, on a daemon that did not stop for the day since: what is held is the allotment that
\* was used up, and only a raise makes it another (stopAt, sessionStops and dayStops in spend.go).
THEOREM LimitsAreHeld == SpendSpec => HeldUntilRaised
<1>1. ASSUME SpendInv, [SpendNext]_spendVars,
             NEW c \in Callers, turn[c].at = "idle", turn'[c].at # "idle"
      PROVE  ~session[c].stopped /\ Home[c] \notin stopped
  <2>1. SpendTypeOK /\ StopsHeld
    BY <1>1 DEF SpendInv
  <2>2. turn' # turn /\ turn \in [Callers -> Turns]
    BY <1>1, <2>1 DEF SpendTypeOK, Turns
  <2>3. ASSUME NEW b \in Callers, b # c
        PROVE  /\ ~Refuses(b) /\ ~Admits(b) /\ ~Steps(b) /\ ~StepStops(b) /\ ~EndsOtherwise(b)
               /\ ~CallBilled(b) /\ ~CallUnreported(b) /\ ~Raises(b)
    BY <1>1, <2>2, <2>3 DEF Refuses, Admits, Steps, StepStops, EndsOtherwise, CallBilled,
         CallUnreported, Raises, AfterCall, Moves
  <2>4. \A d \in Daemons : ~Looks(d)
    BY <2>2 DEF Looks
  <2>5. \A d \in Daemons : ~Restarts(d)
    BY <1>1 DEF Restarts, Idle
  <2>6. ~NextDay
    BY <2>2 DEF NextDay
  <2>7. /\ ~Refuses(c) /\ ~Steps(c) /\ ~StepStops(c) /\ ~EndsOtherwise(c)
        /\ ~CallBilled(c) /\ ~CallUnreported(c) /\ ~Raises(c)
    BY <1>1, <2>2 DEF Refuses, Steps, StepStops, EndsOtherwise, CallBilled, CallUnreported, Raises
  <2>8. Admits(c)
    BY <1>1, <2>2, <2>3, <2>4, <2>5, <2>6, <2>7 DEF SpendNext, spendVars
  <2>9. ~SessionStops(c, 0) /\ ~DayStops(Home[c], 0)
    BY <2>8 DEF Admits, Passes, Stops
  <2>10. ~session[c].stopped
    BY <2>1, <2>9 DEF SessionStops, StopsHeld
  <2>11. Home[c] \notin stopped
    BY <2>1, <2>9 DEF DayStops, StopsHeld
  <2>. QED  BY <2>10, <2>11
<1>2. SpendInv /\ [SpendNext]_spendVars =>
        [\A c \in Callers : turn[c].at = "idle" /\ turn'[c].at # "idle" =>
           ~session[c].stopped /\ Home[c] \notin stopped]_spendVars
  BY <1>1
<1>. QED  BY <1>2, SpendInvHolds, PTL DEF SpendSpec, HeldUntilRaised

HIDE SpendAssumption DEF SpendAssumption
=============================================================================
