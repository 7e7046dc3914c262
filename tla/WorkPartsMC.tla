----------------------------- MODULE WorkPartsMC -----------------------------
\* The tool approvals and the working copy of an agent task, and the application
\* and undo of edits where nothing fails, which share no state, in one run of TLC:
\* each behaviour is one of one of them, and the others stay as they start.
EXTENDS ToolApproval, WorkingCopy

CONSTANTS f1, f2, c1, c2, n1, n2, tui, ext, undo1, Unlocked

VARIABLES
  part,
  disk, kept, minted, fresh, box, lock, mutex, pc, block, prep, dir, cur, prev,
  upc, usession, batch, forced, found, landed, userEdits, faults

\* A tool that is allowed, one that executes code, one that does not, and one that
\* is denied.
FourTools == {"read", "exec", "note", "rm"}

\* A file of the project and one that is not there yet, two contents, a name.
TwoFiles    == {f1, f2}
TwoContents == {c1, c2}
OneName     == {n1}
OriginalOf  == [f \in TwoFiles |-> IF f = f1 THEN c1 ELSE Absent]
SizeOf      == [c \in TwoContents |-> 1]

\* A terminal user beside the editor extension, which goes through the daemon, and
\* its undo, of a file that both create; room for every session.
OneFile   == {f1}
TuiAndExt == {tui, ext}
OneUndo   == {undo1}
KindOf    == [x \in TuiAndExt \cup OneUndo |-> IF x = tui THEN "tui" ELSE "daemon"]

Edits == INSTANCE EditSessions WITH
  Files <- OneFile, Existing <- {}, Runs <- TuiAndExt, Undoers <- OneUndo, Kind <- KindOf,
  Free <- Unlocked,
  Blocks <- 2, Keep <- 5, MayDelete <- FALSE, MaxUserEdits <- 1, MaxFaults <- 0

editVars == <<disk, kept, minted, fresh, box, lock, mutex, pc, block, prep, dir, cur, prev,
              upc, usession, batch, forced, found, landed, userEdits, faults>>
allVars  == <<part, vars, copyVars, editVars>>

PartsInit ==
  part \in {"approval", "copy", "edits"} /\ Init /\ CopyInit /\ Edits!Init

\* A step of one part, and of no other.
PartsNext ==
  \/ part = "approval" /\ Next /\ UNCHANGED <<part, copyVars, editVars>>
  \/ part = "copy" /\ CopyNext /\ UNCHANGED <<part, vars, editVars>>
  \/ part = "edits" /\ Edits!Next /\ UNCHANGED <<part, vars, copyVars>>

PartsSpec == PartsInit /\ [][PartsNext]_allVars

-----------------------------------------------------------------------------
\* The properties of the parts.  Those of the approvals and of the copy are
\* ToolApproval's and WorkingCopy's own; what the edits say is said in EditSessions.

\* Every variable of the parts has its type, and the constants of the edits are what
\* their module takes them to be.
PartsTypeOK ==
  /\ part = "approval" => TypeOK
  /\ part = "copy" => CopyTypeOK
  /\ part = "edits" =>
       /\ Edits!FilesAssumption /\ Edits!ActorsAssumption /\ Edits!BoundsAssumption
       /\ Edits!TypeOK

\* EditSessions: undo puts back what the run found.
UndoRestoresWhatTheRunFound == Edits!UndoRestoresWhatTheRunFound
=============================================================================
