----------------------------- MODULE QuotaPartsMC -----------------------------
\* The quota of a key where every reply arrives, and of another where replies may be
\* lost, in one run of TLC: each behaviour is one of one of the two, and the other
\* stays as it starts.
EXTENDS QuotaLedgerMC

VARIABLES
  part,
  lossyUsed, lossyRow, lossyAmount, lossyAge, lossyLateHold, lossyLateFix, lossyPc, lossyHome,
  lossyAttempt, lossyReserved, lossyOutcome, lossyTries, lossyProc, lossyClaimed, lossyLogged,
  lossyExits

\* The same key where a call may commit after its caller gave it up.
Lossy == INSTANCE QuotaLedger WITH
  MaxAttempts <- 1, LoseReplies <- TRUE, MaxExits <- 0,
  used <- lossyUsed, row <- lossyRow, amount <- lossyAmount, age <- lossyAge,
  lateHold <- lossyLateHold, lateFix <- lossyLateFix, pc <- lossyPc, home <- lossyHome,
  attempt <- lossyAttempt, reserved <- lossyReserved, outcome <- lossyOutcome,
  tries <- lossyTries, proc <- lossyProc, claimed <- lossyClaimed, logged <- lossyLogged,
  exits <- lossyExits

quotaVars == vars
lossyVars == <<lossyUsed, lossyRow, lossyAmount, lossyAge, lossyLateHold, lossyLateFix, lossyPc,
               lossyHome, lossyAttempt, lossyReserved, lossyOutcome, lossyTries, lossyProc,
               lossyClaimed, lossyLogged, lossyExits>>
allVars   == <<part, quotaVars, lossyVars>>

PartsInit == part \in {"quota", "lossy"} /\ Init /\ Lossy!Init

\* A step of one part, and not of the other.
PartsNext ==
  \/ part = "quota" /\ Next /\ UNCHANGED <<part, lossyVars>>
  \/ part = "lossy" /\ Lossy!Next /\ UNCHANGED <<part, quotaVars>>

PartsSpec == PartsInit /\ [][PartsNext]_allVars

-----------------------------------------------------------------------------
\* The first quota's properties are QuotaLedger's own.

\* QuotaLedger: where replies are lost, too, no reservation is reported twice.
ReportedOnceThoughLost == part = "lossy" => Lossy!TypeOK /\ Lossy!ReportedAtMostOnce
=============================================================================
