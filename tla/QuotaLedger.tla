----------------------------- MODULE QuotaLedger -----------------------------
(***************************************************************************)
(* The paid tier's money path: one API key's row of usage, the             *)
(* pending_corrections outbox beside it, the proxy processes that reserve  *)
(* from and correct that row, and the reconciliation sweep.                *)
(*                                                                         *)
(* The database is external and answers each RPC atomically; the process   *)
(* side keeps every step that another process, a crash, a drain or the     *)
(* sweep can fall between.  The keys are independent (every statement is   *)
(* keyed by key_id), so one key's ledger is modelled.  Amounts are what    *)
(* the ledger counts, i.e. already multiplied by the model's weight.       *)
(*                                                                         *)
(* Time is counted in ticks of several minutes.  A request with all its    *)
(* correction attempts is over within Lifetime ticks (upstreamTimeout and  *)
(* serverWriteTimeout, plus three attempts of usageUpdateTimeout); the     *)
(* sweep takes rows strictly older than StaleAfter ticks.                  *)
(***************************************************************************)
EXTENDS Integers, FiniteSets, Functions

CONSTANTS
  Requests,     \* chat completions of the key
  Procs,        \* replicas of the proxy
  Limit,        \* usage.token_limit
  Sizes,        \* reservations a body asks for (max_tokens, or the default)
  Actuals,      \* usage figures a response can report; 0 is "none seen"
  StaleAfter,   \* pendingCorrectionStaleAfterMinutes, in ticks
  Lifetime,     \* longest life of a request and its correction, in ticks
  MaxAttempts,  \* correctUsageMaxAttempts
  LoseReplies,  \* may an RPC commit, now or later, though its caller gave up?
  MaxExits      \* bound on crashes and shutdown signals

ASSUME LimitAssumption    == Limit \in Nat
ASSUME SizesAssumption    == Sizes \subseteq Nat \ {0}
ASSUME ActualsAssumption  == Actuals \subseteq Nat
ASSUME TimesAssumption    == /\ StaleAfter \in Nat
                             /\ Lifetime \in Nat
                             /\ Lifetime <= StaleAfter
ASSUME AttemptsAssumption == MaxAttempts \in Nat \ {0}
ASSUME FaultsAssumption   == LoseReplies \in BOOLEAN /\ MaxExits \in Nat

\* A request reserves at most twice: as asked, then the tail of the quota.
Ids == Requests \X {1, 2}

\* A handler is running.
Handling == {"reserving", "tail", "streaming"}

VARIABLES
  \* -- the database ------------------------------------------------------
  used,      \* usage.tokens_used
  row,       \* pending_corrections: absent, present, or how it went
  amount,    \* pending_corrections.reserved
  age,       \* ticks since created_at, while the row is there
  lateHold,  \* amount of an abandoned reserve_usage that may still run, or 0
  lateFix,   \* number of abandoned apply_correction calls that may still run
  \* -- handleChatCompletions and its correctUsage goroutine ---------------
  pc, home, attempt, reserved, outcome, tries,
  \* -- the processes -------------------------------------------------------
  proc,      \* serveUntilSignal's progress
  claimed,   \* rows a sweep call of the process deleted and has not logged yet
  logged,    \* how often each row was reported as an abandoned reservation
  exits

dbVars   == <<used, row, amount, age>>
lateVars == <<lateHold, lateFix>>
reqVars  == <<pc, home, attempt, reserved, outcome, tries>>
procVars == <<proc, claimed, logged, exits>>
vars     == <<dbVars, lateVars, reqVars, procVars>>

RowOf(r) == <<r, attempt[r]>>

\* No replica has taken the request yet.
NoProc == "no process"

NoOutcome == [actual |-> 0, produced |-> FALSE]

\* finalizeUsage's policy: what a finished request owes, three ways.
Owed(r) ==
  CASE outcome[r].actual > 0                            -> outcome[r].actual
    [] outcome[r].actual = 0 /\ outcome[r].produced     -> reserved[r]
    [] outcome[r].actual = 0 /\ ~outcome[r].produced    -> 0

\* The signed correction handed to correctUsage.
Delta(r) == Owed(r) - reserved[r]

Init ==
  /\ used = 0
  /\ row = [i \in Ids |-> "none"]
  /\ amount = [i \in Ids |-> 0]
  /\ age = [i \in Ids |-> 0]
  /\ lateHold = [i \in Ids |-> 0]
  /\ lateFix = [i \in Ids |-> 0]
  /\ pc = [r \in Requests |-> "idle"]
  /\ home = [r \in Requests |-> NoProc]
  /\ attempt = [r \in Requests |-> 1]
  /\ reserved = [r \in Requests |-> 0]
  /\ outcome = [r \in Requests |-> NoOutcome]
  /\ tries = [r \in Requests |-> 0]
  /\ proc = [p \in Procs |-> "up"]
  /\ claimed = [p \in Procs |-> {}]
  /\ logged = [i \in Ids |-> 0]
  /\ exits = 0

-----------------------------------------------------------------------------
\* The two statements the proxy runs in the database.

\* Mutant: the check forgets the amount being reserved.
QuotaAllowsAnyTail(n) == used < Limit

\* reserve_usage: check, charge and open the outbox row, atomically.
QuotaAllows(n) == used + n <= Limit

OpenRow(i, n) ==
  /\ QuotaAllows(n)
  /\ used' = used + n
  /\ row' = [row EXCEPT ![i] = "open"]
  /\ amount' = [amount EXCEPT ![i] = n]
  /\ UNCHANGED age

\* Mutant: a correction of zero returns early and leaves the row.
ApplyCorrectionUnlessZero(i, delta) ==
  /\ used' = used + delta
  /\ row' = [row EXCEPT ![i] = IF @ = "open" /\ delta # 0 THEN "closed" ELSE @]
  /\ UNCHANGED <<age, amount>>

\* apply_correction: adjust tokens_used and delete the row if it is there.
ApplyCorrection(i, delta) ==
  /\ used' = used + delta
  /\ row' = [row EXCEPT ![i] = IF @ = "open" THEN "closed" ELSE @]
  /\ age' = [age EXCEPT ![i] = 0]
  /\ UNCHANGED amount

-----------------------------------------------------------------------------
\* handleChatCompletions.

\* A request that has passed every gate asks for its reservation.  A process
\* that is draining still accepts until its listener closes.
Arrive(r, p, n) ==
  /\ pc[r] = "idle"
  /\ proc[p] \in {"up", "draining"}
  /\ pc' = [pc EXCEPT ![r] = "reserving"]
  /\ home' = [home EXCEPT ![r] = p]
  /\ reserved' = [reserved EXCEPT ![r] = n]
  /\ UNCHANGED <<dbVars, lateVars, attempt, outcome, tries, procVars>>

ReserveGranted(r) ==
  /\ pc[r] = "reserving"
  /\ OpenRow(RowOf(r), reserved[r])
  /\ pc' = [pc EXCEPT ![r] = "streaming"]
  /\ UNCHANGED <<lateVars, home, attempt, reserved, outcome, tries, procVars>>

\* Any refusal of the first attempt leads to the headroom lookup, of the
\* second to the 429.
AfterRefusal(r) == IF attempt[r] = 1 THEN "tail" ELSE "refused"

\* No rows back: over the limit.  Or the call failed before it ran at all.
ReserveRefused(r) ==
  /\ pc[r] = "reserving"
  /\ pc' = [pc EXCEPT ![r] = AfterRefusal(r)]
  /\ UNCHANGED <<dbVars, lateVars, home, attempt, reserved, outcome, tries, procVars>>

\* supabaseAuthTimeout passed, or the client went away: the proxy treats the
\* call as refused, and the database may yet run it.
ReserveAbandoned(r) ==
  /\ LoseReplies
  /\ pc[r] = "reserving"
  /\ pc' = [pc EXCEPT ![r] = AfterRefusal(r)]
  /\ lateHold' = [lateHold EXCEPT ![RowOf(r)] = reserved[r]]
  /\ UNCHANGED <<dbVars, lateFix, home, attempt, reserved, outcome, tries, procVars>>

\* The tail retry: reserve what is left, when that is less than was asked.
Headroom == Limit - used

ReadHeadroom(r) ==
  /\ pc[r] = "tail"
  /\ IF Headroom > 0 /\ Headroom < reserved[r]
     THEN /\ pc' = [pc EXCEPT ![r] = "reserving"]
          /\ attempt' = [attempt EXCEPT ![r] = 2]
          /\ reserved' = [reserved EXCEPT ![r] = Headroom]
     ELSE /\ pc' = [pc EXCEPT ![r] = "refused"]
          /\ UNCHANGED <<attempt, reserved>>
  /\ UNCHANGED <<dbVars, lateVars, home, outcome, tries, procVars>>

HeadroomFailed(r) ==
  /\ pc[r] = "tail"
  /\ pc' = [pc EXCEPT ![r] = "refused"]
  /\ UNCHANGED <<dbVars, lateVars, home, attempt, reserved, outcome, tries, procVars>>

\* However the handler ends (usage reported or not, upstream never reached, a
\* killed stream, a client gone, a panic) its deferred finalizeReservation
\* runs once and starts the correctUsage goroutine; the handler is then over.
Finish(r) ==
  /\ pc[r] = "streaming"
  /\ \E a \in Actuals \cup {0}, b \in BOOLEAN :
       outcome' = [outcome EXCEPT ![r] = [actual |-> a, produced |-> b]]
  /\ pc' = [pc EXCEPT ![r] = "correcting"]
  /\ UNCHANGED <<dbVars, lateVars, home, attempt, reserved, tries, procVars>>

-----------------------------------------------------------------------------
\* correctUsage.

CorrectOk(r) ==
  /\ pc[r] = "correcting"
  /\ ApplyCorrection(RowOf(r), Delta(r))
  /\ pc' = [pc EXCEPT ![r] = "done"]
  /\ UNCHANGED <<lateVars, home, attempt, reserved, outcome, tries, procVars>>

\* Mutant: one attempt too many.
CountFailedTryLate(r) ==
  /\ tries' = [tries EXCEPT ![r] = @ + 1]
  /\ pc' = [pc EXCEPT ![r] = IF tries[r] = MaxAttempts THEN "lost" ELSE @]

\* A network error or a 5xx: try again, up to MaxAttempts.
CountFailedTry(r) ==
  /\ tries' = [tries EXCEPT ![r] = @ + 1]
  /\ pc' = [pc EXCEPT ![r] = IF tries[r] + 1 = MaxAttempts THEN "lost" ELSE @]

CorrectFailed(r) ==
  /\ pc[r] = "correcting"
  /\ CountFailedTry(r)
  /\ UNCHANGED <<dbVars, lateVars, home, attempt, reserved, outcome, procVars>>

\* A 4xx is not retried.
CorrectRefused(r) ==
  /\ pc[r] = "correcting"
  /\ pc' = [pc EXCEPT ![r] = "lost"]
  /\ UNCHANGED <<dbVars, lateVars, home, attempt, reserved, outcome, tries, procVars>>

\* usageUpdateTimeout passed: counted as a failure, and may yet run.
CorrectAbandoned(r) ==
  /\ LoseReplies
  /\ pc[r] = "correcting"
  /\ CountFailedTry(r)
  /\ lateFix' = [lateFix EXCEPT ![RowOf(r)] = @ + 1]
  /\ UNCHANGED <<dbVars, lateHold, home, attempt, reserved, outcome, procVars>>

\* The database runs a call its caller gave up on.
LateReserve(i) ==
  /\ lateHold[i] > 0
  /\ OpenRow(i, lateHold[i])
  /\ lateHold' = [lateHold EXCEPT ![i] = 0]
  /\ UNCHANGED <<lateFix, reqVars, procVars>>

LateCorrection(r) ==
  /\ lateFix[RowOf(r)] > 0
  /\ ApplyCorrection(RowOf(r), Delta(r))
  /\ lateFix' = [lateFix EXCEPT ![RowOf(r)] = @ - 1]
  /\ UNCHANGED <<lateHold, reqVars, procVars>>

-----------------------------------------------------------------------------
\* The reconciliation sweep.

\* Mutant: the cut-off includes rows that are exactly StaleAfter old.
StaleTooSoon == {i \in Ids : row[i] = "open" /\ age[i] >= StaleAfter}

Stale == {i \in Ids : row[i] = "open" /\ age[i] > StaleAfter}

\* Mutant: the rows are selected but not deleted.
SweepClaimBySelect(p) ==
  /\ proc[p] # "down"
  /\ claimed[p] = {}
  /\ Stale # {}
  /\ claimed' = [claimed EXCEPT ![p] = Stale]
  /\ UNCHANGED <<dbVars, lateVars, reqVars, proc, logged, exits>>

\* Mutant: a panic while reporting ends the loop for good.
SweepClaimOnce(p) ==
  /\ \A i \in Ids : logged[i] = 0
  /\ proc[p] # "down"
  /\ claimed[p] = {}
  /\ Stale # {}
  /\ row' = [i \in Ids |-> IF i \in Stale THEN "swept" ELSE row[i]]
  /\ age' = [i \in Ids |-> IF i \in Stale THEN 0 ELSE age[i]]
  /\ claimed' = [claimed EXCEPT ![p] = Stale]
  /\ UNCHANGED <<used, amount, lateVars, reqVars, proc, logged, exits>>

\* sweep_pending_corrections deletes every stale row and returns it.  One call
\* of a process at a time.  A shutdown signal ends the loop, but a tick that
\* is already pending can still win the loop's select.
SweepClaim(p) ==
  /\ proc[p] # "down"
  /\ claimed[p] = {}
  /\ Stale # {}
  /\ row' = [i \in Ids |-> IF i \in Stale THEN "swept" ELSE row[i]]
  /\ age' = [i \in Ids |-> IF i \in Stale THEN 0 ELSE age[i]]
  /\ claimed' = [claimed EXCEPT ![p] = Stale]
  /\ UNCHANGED <<used, amount, lateVars, reqVars, proc, logged, exits>>

\* Mutant: the tick returns before it logs what it claimed.
SweepReportNothing(p) ==
  /\ claimed[p] # {}
  /\ claimed' = [claimed EXCEPT ![p] = {}]
  /\ UNCHANGED <<dbVars, lateVars, reqVars, proc, logged, exits>>

\* The rows arrive, and each is logged.
SweepReport(p) ==
  /\ claimed[p] # {}
  /\ logged' = [i \in Ids |-> logged[i] + (IF i \in claimed[p] THEN 1 ELSE 0)]
  /\ claimed' = [claimed EXCEPT ![p] = {}]
  /\ UNCHANGED <<dbVars, lateVars, reqVars, proc, exits>>

\* The reply is lost, late, or longer than maxSweepResponseBytes.
SweepReplyLost(p) ==
  /\ LoseReplies
  /\ claimed[p] # {}
  /\ claimed' = [claimed EXCEPT ![p] = {}]
  /\ UNCHANGED <<dbVars, lateVars, reqVars, proc, logged, exits>>

\* Time passes.  It cannot pass a live request's timeouts.
Live == {r \in Requests : pc[r] \in {"streaming", "correcting"}}

Tick ==
  /\ \A r \in Live : row[RowOf(r)] = "open" => age[RowOf(r)] < Lifetime
  /\ \E i \in Ids : row[i] = "open" /\ age[i] <= StaleAfter
  /\ age' = [i \in Ids |-> IF row[i] = "open" /\ age[i] <= StaleAfter
                           THEN age[i] + 1 ELSE age[i]]
  /\ UNCHANGED <<used, row, amount, lateVars, reqVars, procVars>>

-----------------------------------------------------------------------------
\* serveUntilSignal, and the ways a process goes away.

\* Everything of process p that only lived in memory is gone.
GoDown(p, fate) ==
  /\ proc' = [proc EXCEPT ![p] = "down"]
  /\ pc' = [r \in Requests |-> IF home[r] = p /\ pc[r] \in Handling \cup {"correcting"}
                               THEN fate ELSE pc[r]]
  /\ claimed' = [claimed EXCEPT ![p] = {}]
  /\ UNCHANGED <<dbVars, lateVars, home, attempt, reserved, outcome, tries, logged>>

Crash(p) ==
  /\ proc[p] # "down"
  /\ exits < MaxExits
  /\ exits' = exits + 1
  /\ GoDown(p, "dead")

\* SIGTERM: /health answers 503; for preDrainDelay requests still come.
BeginDrain(p) ==
  /\ proc[p] = "up"
  /\ exits < MaxExits
  /\ exits' = exits + 1
  /\ proc' = [proc EXCEPT ![p] = "draining"]
  /\ UNCHANGED <<dbVars, lateVars, reqVars, claimed, logged>>

\* srv.Shutdown closes the listener and waits for the handlers.
CloseListener(p) ==
  /\ proc[p] = "draining"
  /\ proc' = [proc EXCEPT ![p] = "closing"]
  /\ UNCHANGED <<dbVars, lateVars, reqVars, claimed, logged, exits>>

HandlersOf(p) == {r \in Requests : home[r] = p /\ pc[r] \in Handling}

\* No handler is left: Shutdown returns, main returns, and the process exits
\* with whatever correctUsage goroutines are still at work.
ExitClean(p) ==
  /\ proc[p] = "closing"
  /\ HandlersOf(p) = {}
  /\ GoDown(p, "abandoned")
  /\ UNCHANGED exits

\* shutdownGrace is over and handlers are still running.
DrainDeadline(p) ==
  /\ proc[p] = "closing"
  /\ HandlersOf(p) # {}
  /\ GoDown(p, "dead")
  /\ UNCHANGED exits

\* The platform starts the process again.
Restart(p) ==
  /\ proc[p] = "down"
  /\ proc' = [proc EXCEPT ![p] = "up"]
  /\ UNCHANGED <<dbVars, lateVars, reqVars, claimed, logged, exits>>

-----------------------------------------------------------------------------
Reserving(r) ==
  ReserveGranted(r) \/ ReserveRefused(r) \/ ReadHeadroom(r) \/ HeadroomFailed(r)

Correcting(r) == CorrectOk(r) \/ CorrectFailed(r) \/ CorrectRefused(r)

Request(r) ==
  \/ \E p \in Procs, n \in Sizes : Arrive(r, p, n)
  \/ Reserving(r) \/ ReserveAbandoned(r)
  \/ Finish(r)
  \/ Correcting(r) \/ CorrectAbandoned(r) \/ LateCorrection(r)

Leave(p) == ExitClean(p) \/ DrainDeadline(p)

Process(p) ==
  \/ SweepClaim(p) \/ SweepReport(p) \/ SweepReplyLost(p)
  \/ Crash(p) \/ BeginDrain(p) \/ CloseListener(p) \/ Leave(p) \/ Restart(p)

Next ==
  \/ \E r \in Requests : Request(r)
  \/ \E i \in Ids : LateReserve(i)
  \/ \E p \in Procs : Process(p)
  \/ Tick

Spec == Init /\ [][Next]_vars

\* What the scheduling guarantees: RPCs and streams end by their timeouts, the
\* ticker fires, the clock runs, a drain has a deadline, and the platform
\* restarts a process that is down.
Fairness ==
  /\ WF_vars(Tick)
  /\ \A r \in Requests : WF_vars(Reserving(r)) /\ WF_vars(Finish(r))
                         /\ WF_vars(Correcting(r))
  /\ \A p \in Procs : /\ WF_vars(SweepClaim(p)) /\ WF_vars(SweepReport(p))
                      /\ WF_vars(CloseListener(p)) /\ WF_vars(Leave(p))
                      /\ WF_vars(Restart(p))

FairSpec == Spec /\ Fairness

-----------------------------------------------------------------------------
\* Properties.

TypeOK ==
  /\ used \in Int
  /\ row \in [Ids -> {"none", "open", "closed", "swept"}]
  /\ amount \in [Ids -> Nat]
  /\ age \in [Ids -> 0..(StaleAfter + 1)]
  /\ lateHold \in [Ids -> Nat]
  /\ lateFix \in [Ids -> 0..MaxAttempts]
  /\ pc \in [Requests -> Handling \cup {"idle", "refused", "correcting", "done",
                                        "lost", "dead", "abandoned"}]
  /\ home \in [Requests -> Procs \cup {NoProc}]
  /\ attempt \in [Requests -> {1, 2}]
  /\ reserved \in [Requests -> Nat]
  /\ outcome \in [Requests -> [actual : Nat, produced : BOOLEAN]]
  /\ tries \in [Requests -> 0..MaxAttempts]
  /\ proc \in [Procs -> {"up", "draining", "closing", "down"}]
  /\ claimed \in [Procs -> SUBSET Ids]
  /\ logged \in [Ids -> Nat]
  /\ exits \in 0..MaxExits

\* A correction is attempted at most MaxAttempts times, and only an attempt can
\* leave a call behind that still runs.
AttemptsBounded ==
  \A r \in Requests :
    /\ pc[r] \in Handling \cup {"idle", "refused"} => tries[r] = 0
    /\ pc[r] = "correcting" => tries[r] < MaxAttempts
    /\ \A a \in {1, 2} : lateFix[<<r, a>>] <= tries[r]

\* A reservation whose request is still running, or whose correction is still
\* being attempted, is never taken by the sweep, in any process: the stale
\* window outlasts the request (0002_pending_corrections.sql, on
\* sweep_pending_corrections).
LiveRowNeverSwept ==
  \A r \in Live : row[RowOf(r)] \in {"open", "closed"}

\* An open outbox row is a real debt: its request holds it, or is gone without
\* its correction.  A request that was refused, or whose correction landed,
\* leaves no row behind for the sweep to report (I2 of moneypath_test.go), a
\* correction of zero included.
NoOrphanRow ==
  \A i \in Ids : row[i] = "open" =>
    /\ i = RowOf(i[1])
    /\ pc[i[1]] \in {"streaming", "correcting", "lost", "dead", "abandoned"}

\* The parts of the inductive invariant that the next properties rest on.

\* A row is opened once: an attempt's row is absent until that attempt is
\* granted, or runs late, and an attempt is made at most once.
FreshRows ==
  /\ \A r \in Requests :
       /\ attempt[r] = 1 => row[<<r, 2>>] = "none" /\ lateHold[<<r, 2>>] = 0
       /\ pc[r] \in {"idle", "reserving"} => row[RowOf(r)] = "none" /\ lateHold[RowOf(r)] = 0
       /\ pc[r] \in {"idle", "tail"} => attempt[r] = 1
  /\ \A i \in Ids : lateHold[i] > 0 => row[i] = "none"

\* A live request's row is younger than its timeouts.
LiveRowsYoung ==
  /\ \A i \in Ids : row[i] # "open" => age[i] = 0
  /\ \A r \in Live : age[RowOf(r)] <= Lifetime

\* A row is in one reply at most, and not yet reported while it is.
ClaimsExclusive ==
  \A p \in Procs : \A i \in claimed[p] :
    /\ row[i] = "swept"
    /\ logged[i] = 0
    /\ \A q \in Procs \ {p} : i \notin claimed[q]

\* What can be reserved: a size asked for, or the tail of the quota, which is
\* less.  What can be charged: that, nothing, or a usage figure.
Reservable == {0} \cup UNION {0..n : n \in Sizes}

LedgerCharges == Actuals \cup Reservable

\* While no call outlives its caller, a row and its request agree: a live
\* request's row is there, at the amount reserved; a row is deleted by a
\* correction only when its request is done, and swept only when it is gone.
RowsMatchRequests ==
  ~LoseReplies =>
    /\ \A i \in Ids : lateHold[i] = 0 /\ lateFix[i] = 0
    /\ \A r \in Live : row[RowOf(r)] = "open"
    /\ \A i \in Ids : row[i] # "none" =>
         /\ i = RowOf(i[1])
         /\ amount[i] = reserved[i[1]]
         /\ row[i] = "closed" <=> pc[i[1]] = "done"
         /\ row[i] = "swept" => pc[i[1]] \in {"lost", "dead", "abandoned"}
         /\ pc[i[1]] \in {"streaming", "correcting", "done", "lost", "dead", "abandoned"}
    /\ \A r \in Requests :
         /\ reserved[r] \in Reservable
         /\ outcome[r].actual \in Actuals \cup {0}

\* However many replicas sweep, a stranded reservation is reported once, and
\* only a row that the sweep took is reported.
ReportedAtMostOnce ==
  \A i \in Ids : logged[i] > 0 => /\ logged[i] = 1
                                  /\ row[i] = "swept"
                                  /\ \A p \in Procs : i \notin claimed[p]

\* What the request of a closed row consumed beyond its reservation.
TopUp(i) == IF row[i] = "closed" /\ Owed(i[1]) > amount[i]
            THEN Owed(i[1]) - amount[i] ELSE 0

TopUps == [i \in Ids |-> TopUp(i)]

\* tokens_used passes token_limit only by what finished requests consumed
\* beyond their reservations, however reservations, tail retries and
\* corrections of several processes interleave.
OverdraftIsTopUp == used <= Limit + SumFunction(TopUps)

\* The ledger the rows stand for: a row that is there is a hold, one deleted by
\* its correction is settled at what its request owed, one deleted by the
\* sweep is forfeit.
AcctState(i) ==
  CASE row[i] = "none"   -> "none"
    [] row[i] = "open"   -> "held"
    [] row[i] = "closed" -> "settled"
    [] row[i] = "swept"  -> "forfeit"

AcctCharge(i) ==
  IF row[i] = "closed" THEN Owed(i[1])
  ELSE IF row[i] = "none" THEN 0 ELSE amount[i]

Acct == [i \in Ids |-> [state |-> AcctState(i), charge |-> AcctCharge(i)]]

Account == INSTANCE QuotaAccount
             WITH total <- used, acct <- Acct, Charges <- LedgerCharges

\* While no RPC outlives its caller, the money path keeps the promise of
\* QuotaAccount: every admission is under the limit, every reservation is
\* settled at most once and at what was owed, and a stranded one stays charged.
ImplementsAccount == Account!Spec

\* No reservation is held for ever: its correction closes it, or the sweep
\* takes it, whatever crashes, drains and lost corrections happened before.
EveryReservationResolves ==
  \A i \in Ids : row[i] = "open" ~> row[i] \in {"closed", "swept"}

\* A row the sweep took is reported, unless the process that took it goes down.
SweptIsReported ==
  \A i \in Ids, p \in Procs :
    i \in claimed[p] ~> (logged[i] > 0 \/ proc[p] = "down")

-----------------------------------------------------------------------------
\* What comments and tests of the repository say, and the code does not keep.

\* moneypath_test.go, I3: "tokens_used never ends negative."
NeverNegative == used >= 0
=============================================================================
