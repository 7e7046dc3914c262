---------------------------- MODULE EditSessionsMC ----------------------------
\* Instances of EditSessions for TLC.
EXTENDS EditSessions

CONSTANTS f1, tui, ext, undo2

OneFile  == {f1}

\* A terminal user beside the editor extension, which goes through the daemon.
TuiAndExt == {tui, ext}
OnlyTui   == {tui}
CliUndo   == {undo2}
NoUndo    == {}

KindOf == [x \in Runs \cup Undoers |->
             CASE x = tui -> "tui" [] x = ext -> "daemon" [] x = undo2 -> "cli"]

\* A save of the user's or a fault in one behaviour, and a file that is gone only
\* while no run is past its first block.
OneMishap ==
  /\ userEdits + faults <= 1
  /\ (\A f \in Files : disk[f] # Absent) \/ \A r \in Runs : block[r] <= 1
=============================================================================
