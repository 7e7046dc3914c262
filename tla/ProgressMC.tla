------------------------------- MODULE ProgressMC -------------------------------
\* The liveness of the money path, of the edit sessions and of the embedder helper,
\* which share no state, in one run of TLC: each behaviour is one of one of them,
\* and the others stay as they start.
EXTENDS HelperProcess

CONSTANTS r1, r2, p1, f1, tui, ext, undo2, Absent, Free

VARIABLES
  part,
  used, row, amount, age, lateHold, lateFix, requestPc, home, attempt, reserved, outcome, tries,
  proc, claimed, logged, exits,
  disk, kept, minted, fresh, box, lock, mutex, pc, block, prep, dir, cur, prev,
  upc, usession, batch, forced, found, landed, userEdits, faults

\* One replica, a key that can afford one and a half requests.
Ledger == INSTANCE QuotaLedger WITH
  Requests <- {r1, r2}, Procs <- {p1}, Limit <- 4, Sizes <- {3}, Actuals <- {4},
  StaleAfter <- 1, Lifetime <- 1, MaxAttempts <- 1, LoseReplies <- FALSE, MaxExits <- 1,
  pc <- requestPc

\* A terminal user beside the editor extension, which goes through the daemon, and an
\* undo at the command line. The runs change the file under each other, so the undo
\* comes to its question without the editor's user doing anything.
Edits == INSTANCE EditSessions WITH
  Files <- {f1}, Existing <- {f1}, Runs <- {tui, ext}, Undoers <- {undo2},
  Kind <- [x \in {tui, ext, undo2} |->
             CASE x = tui -> "tui" [] x = undo2 -> "cli" [] OTHER -> "daemon"],
  Blocks <- 1, Keep <- 1, MayDelete <- FALSE, MaxUserEdits <- 0, MaxFaults <- 1

ledgerVars == <<used, row, amount, age, lateHold, lateFix, requestPc, home, attempt, reserved,
                outcome, tries, proc, claimed, logged, exits>>
editVars   == <<disk, kept, minted, fresh, box, lock, mutex, pc, block, prep, dir, cur, prev,
                upc, usession, batch, forced, found, landed, userEdits, faults>>
allVars    == <<part, helperVars, ledgerVars, editVars>>

PartsInit == part \in {"helper", "ledger", "edits"} /\ HelperInit /\ Ledger!Init /\ Edits!Init

\* A step of one part, and no other.
OfHelper(step) == part = "helper" /\ step /\ UNCHANGED <<part, ledgerVars, editVars>>
OfLedger(step) == part = "ledger" /\ step /\ UNCHANGED <<part, helperVars, editVars>>
OfEdits(step)  == part = "edits" /\ step /\ UNCHANGED <<part, helperVars, ledgerVars>>

PartsNext == OfHelper(HelperNext) \/ OfLedger(Ledger!Next) \/ OfEdits(Edits!Next)

\* The fair actions of the parts.  No part comes back to a state it has left, so that
\* one condition on all of them asks of each what its own module's Fairness asks.
FairStep ==
  \/ OfHelper(\/ Monitor \/ Stopping
              \/ \E h \in Helpers : (h \in killed /\ HelperExits(h)) \/ Reap(h))
  \/ OfLedger(\/ Ledger!Tick
              \/ \E r \in {r1, r2} :
                   Ledger!Reserving(r) \/ Ledger!Finish(r) \/ Ledger!Correcting(r)
              \/ Ledger!SweepClaim(p1) \/ Ledger!SweepReport(p1)
              \/ Ledger!CloseListener(p1) \/ Ledger!Leave(p1) \/ Ledger!Restart(p1))
  \/ OfEdits(\E r \in {tui, ext} : pc[r] # "prepared" /\ Edits!ApplyStep(r))

PartsSpec == PartsInit /\ [][PartsNext]_allVars /\ WF_allVars(FairStep)

-----------------------------------------------------------------------------
\* The properties of the parts.  Those of the helper are HelperProcess's own; what
\* the others say is said in their modules.

\* QuotaLedger: every reservation is corrected or swept.
EveryReservationResolves == Ledger!EveryReservationResolves

\* QuotaLedger: what a surviving process sweeps is reported.
SweptIsReported == Ledger!SweptIsReported

\* EditSessions: every Apply that was begun ends.
EveryApplyEnds == Edits!EveryApplyEnds
=============================================================================
