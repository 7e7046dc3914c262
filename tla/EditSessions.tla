----------------------------- MODULE EditSessions -----------------------------
(***************************************************************************)
(* Applying edit blocks to a workspace and undoing them: editapply.Apply,  *)
(* the backup sessions under .mochiii/backups, and runUndoSession.         *)
(*                                                                         *)
(* Three kinds of program write the same files: the CLI, the TUI and the   *)
(* daemon (for a socket client).  They exclude each other with a file lock *)
(* that the kernel drops when its holder dies; the daemon's own requests   *)
(* also take its in-process mutex, first and for longer.  The user's       *)
(* editor takes neither.                                                   *)
(*                                                                         *)
(* A file's content is the sequence of changes made to it, so that who     *)
(* changed what, and in which order, can be read off it.  Directories,     *)
(* file modes and the home-folder half of a session are left out.          *)
(***************************************************************************)
EXTENDS Integers, SequencesExt

CONSTANTS
  Files,
  Existing,     \* those there at the start; the others have to be created
  Runs,         \* apply runs: one answer's blocks, applied one after another
  Undoers,      \* undo requests
  Kind,         \* who makes a run or an undo: "cli", "tui" or "daemon"
  Blocks,       \* bound on the blocks of a run
  Keep,         \* backupSessionsToKeep
  Absent,       \* no such file
  Free,         \* nobody holds the lock
  MayDelete,    \* may the user delete files?
  MaxUserEdits, \* bounds on what the editor does,
  MaxFaults     \*   and on crashes and failing file operations

ASSUME FilesAssumption  == Existing \subseteq Files /\ Files # {}
ASSUME ActorsAssumption == /\ Runs \cap Undoers = {} /\ IsFiniteSet(Runs)
                           /\ "user" \notin Runs
                           /\ Kind \in [Runs \cup Undoers -> {"cli", "tui", "daemon"}]
                           /\ \A u \in Undoers : Kind[u] # "tui"
                           /\ Free \notin Runs \cup Undoers
ASSUME BoundsAssumption == /\ Blocks \in Nat \ {0} /\ Keep \in Nat \ {0}
                           /\ MayDelete \in BOOLEAN
                           /\ MaxUserEdits \in Nat /\ MaxFaults \in Nat

\* Backup sessions, numbered in the order their timestamped names sort.
Sessions == 1 .. Cardinality(Runs) * Blocks

VARIABLES
  \* -- on disk ---------------------------------------------------------------
  disk,       \* each file's content, or Absent
  kept,       \* the session directories that exist
  minted,     \* how many sessions there have been
  fresh,      \* sessions whose .in-flight marker is there and under two hours old
  box,        \* each session's before/ and after/ snapshots and created-files
  lock,       \* holder of apply.lock
  mutex,      \* holder of the daemon's lock for this workspace
  \* -- the runs --------------------------------------------------------------
  pc, block, prep,
  dir,        \* the session the run's client goes on using, or 0
  cur,        \* the session of the Apply in progress
  prev,       \* what the reversible bookkeeping would put back
  \* -- the undos -------------------------------------------------------------
  upc, usession, batch, forced,
  \* -- for the properties ----------------------------------------------------
  found,      \* what a session's first landed edit of a file replaced
  landed,     \* the changes a session has made, each with its file
  userEdits, faults

storeVars  == <<kept, minted, fresh>>
runVars    == <<pc, block, prep, dir, cur, prev>>
undoVars   == <<upc, usession, batch, forced>>
ghostVars  == <<found, landed>>
countVars  == <<userEdits, faults>>
vars == <<disk, storeVars, box, lock, mutex, runVars, undoVars, ghostVars, countVars>>

EmptyBox == [before  |-> [f \in Files |-> Absent],
             after   |-> [f \in Files |-> Absent],
             created |-> {}]

\* A file that is there but has no content, or lost it to a failed write.
Empty == <<>>

Init ==
  /\ disk = [f \in Files |-> IF f \in Existing THEN <<<<"original", 0>>>> ELSE Absent]
  /\ kept = {} /\ minted = 0 /\ fresh = {}
  /\ box = [s \in Sessions |-> EmptyBox]
  /\ lock = Free /\ mutex = Free
  /\ pc = [r \in Runs |-> "idle"]
  /\ block = [r \in Runs |-> 1]
  /\ prep = [r \in Runs |-> [file |-> CHOOSE f \in Files : TRUE, original |-> Absent]]
  /\ dir = [r \in Runs |-> 0]
  /\ cur = [r \in Runs |-> 0]
  /\ prev = [r \in Runs |-> [after |-> Absent, created |-> {}]]
  /\ upc = [u \in Undoers |-> "idle"]
  /\ usession = [u \in Undoers |-> 0]
  /\ batch = [u \in Undoers |-> {}]
  /\ forced = [u \in Undoers |-> FALSE]
  /\ found = [s \in Sessions |-> [f \in Files |-> Absent]]
  /\ landed = [s \in Sessions |-> {}]
  /\ userEdits = 0 /\ faults = 0

-----------------------------------------------------------------------------
\* One block of a run: PrepareEdit, the backup session, Apply.

Change(r)   == <<r, block[r]>>
Target(r)   == prep[r].file
Creates(r)  == prep[r].original = Absent
ContentFound(r) == IF Creates(r) THEN Empty ELSE prep[r].original
NewContent(r) == Append(ContentFound(r), Change(r))

\* The daemon's handler ends with the block and gives its mutex back.
ReleaseMutex(x) == mutex' = IF mutex = x THEN Free ELSE mutex

\* The block is over.  After a failure the CLI stops; the TUI and a client of
\* the daemon count it as refused and go on.
EndBlock(r, failed) ==
  /\ block' = [block EXCEPT ![r] = @ + 1]
  /\ pc' = [pc EXCEPT ![r] = IF block[r] = Blocks \/ (failed /\ Kind[r] = "cli")
                             THEN "over" ELSE "idle"]
  /\ ReleaseMutex(r)

\* A crash or a failing file operation, while there may still be one.
Fault == faults < MaxFaults /\ faults' = faults + 1

\* PrepareEdit reads the file, without the file lock.
Prepare(r) ==
  /\ pc[r] = "idle"
  /\ \E f \in Files : prep' = [prep EXCEPT ![r] = [file |-> f, original |-> disk[f]]]
  /\ pc' = [pc EXCEPT ![r] = "prepared"]
  /\ IF Kind[r] = "daemon" THEN mutex = Free /\ mutex' = r ELSE UNCHANGED mutex
  /\ UNCHANGED <<disk, storeVars, box, lock, block, dir, cur, prev, undoVars, ghostVars, countVars>>

\* The user answers no, or PrepareEdit refuses the block.
Decline(r) ==
  /\ pc[r] = "prepared"
  /\ EndBlock(r, FALSE)
  /\ UNCHANGED <<disk, storeVars, box, lock, prep, dir, cur, prev, undoVars, ghostVars, countVars>>

\* The daemon checks that the directory its client names is still there.
HasSession(r) == IF Kind[r] = "daemon" THEN dir[r] \in kept ELSE dir[r] # 0

ReuseSession(r) ==
  /\ pc[r] = "prepared"
  /\ HasSession(r)
  /\ cur' = [cur EXCEPT ![r] = dir[r]]
  /\ pc' = [pc EXCEPT ![r] = "session"]
  /\ UNCHANGED <<disk, storeVars, box, lock, mutex, block, prep, dir, prev, undoVars, ghostVars, countVars>>

\* pruneBackupSessions: all but the newest Keep go, but for those in flight.
Prunable(dirs) == {s \in dirs \ fresh : Cardinality({t \in dirs : t > s}) >= Keep}

\* NewBackupSessionDir, in one step: it holds the file lock throughout.
MintSession(r) ==
  LET s == minted + 1 IN
  /\ pc[r] = "prepared"
  /\ ~HasSession(r)
  /\ lock = Free
  /\ minted' = s
  /\ fresh' = fresh \cup {s}
  /\ kept' = (kept \cup {s}) \ Prunable(kept \cup {s})
  /\ box' = [t \in Sessions |-> IF t \in Prunable(kept \cup {s}) THEN EmptyBox ELSE box[t]]
  /\ cur' = [cur EXCEPT ![r] = s]
  /\ dir' = [dir EXCEPT ![r] = IF Kind[r] = "daemon" THEN @ ELSE s]
  /\ pc' = [pc EXCEPT ![r] = "session"]
  /\ UNCHANGED <<disk, lock, mutex, block, prep, prev, undoVars, ghostVars, countVars>>

MintFails(r) ==
  /\ pc[r] = "prepared" /\ ~HasSession(r) /\ lock = Free
  /\ Fault
  /\ EndBlock(r, TRUE)
  /\ UNCHANGED <<disk, storeVars, box, lock, prep, dir, cur, prev, undoVars, ghostVars, userEdits>>

\* Mutant: Apply does not wait for the lock.
BeginApplyUnlocked(r) ==
  /\ pc[r] = "session"
  /\ disk[Target(r)] = prep[r].original
  /\ lock' = r
  /\ pc' = [pc EXCEPT ![r] = "verified"]
  /\ UNCHANGED <<disk, storeVars, box, mutex, block, prep, dir, cur, prev, undoVars, ghostVars, countVars>>

\* Apply takes the file lock and re-reads the file: VerifyUnchanged.
BeginApply(r) ==
  /\ pc[r] = "session" /\ lock = Free
  /\ disk[Target(r)] = prep[r].original
  /\ lock' = r
  /\ pc' = [pc EXCEPT ![r] = "verified"]
  /\ UNCHANGED <<disk, storeVars, box, mutex, block, prep, dir, cur, prev, undoVars, ghostVars, countVars>>

RefuseStale(r) ==
  /\ pc[r] = "session" /\ lock = Free
  /\ disk[Target(r)] # prep[r].original
  /\ EndBlock(r, TRUE)
  /\ UNCHANGED <<disk, storeVars, box, lock, prep, dir, cur, prev, undoVars, ghostVars, countVars>>

\* BackupOriginal: only the first block of a session keeps a snapshot.
BackupOriginal(r) ==
  box' = [box EXCEPT ![cur[r]].before[Target(r)] = IF @ = Absent THEN ContentFound(r) ELSE @]

\* Writing a snapshot makes the session directory if it is not there any more.
SaveBefore(r) ==
  /\ pc[r] = "verified"
  /\ BackupOriginal(r)
  /\ kept' = kept \cup {cur[r]}
  /\ pc' = [pc EXCEPT ![r] = "before kept"]
  /\ UNCHANGED <<disk, minted, fresh, lock, mutex, block, prep, dir, cur, prev, undoVars, ghostVars, countVars>>

\* backupAfterReversible, then recordCreatedReversible for a new file.
SaveAfter(r) ==
  /\ pc[r] = "before kept"
  /\ prev' = [prev EXCEPT ![r] = [after   |-> box[cur[r]].after[Target(r)],
                                  created |-> box[cur[r]].created]]
  /\ box' = [box EXCEPT ![cur[r]].after[Target(r)] = NewContent(r)]
  /\ pc' = [pc EXCEPT ![r] = IF Creates(r) THEN "after kept" ELSE "ready"]
  /\ UNCHANGED <<disk, storeVars, lock, mutex, block, prep, dir, cur, undoVars, ghostVars, countVars>>

SaveCreated(r) ==
  /\ pc[r] = "after kept"
  /\ box' = [box EXCEPT ![cur[r]].created = @ \cup {Target(r)}]
  /\ pc' = [pc EXCEPT ![r] = "ready"]
  /\ UNCHANGED <<disk, storeVars, lock, mutex, block, prep, dir, cur, prev, undoVars, ghostVars, countVars>>

\* A snapshot cannot be written, or only in part: it is left as it fell - of
\* created-files, which is written anew, any of its lines - and the earlier
\* bookkeeping is put back, unless that fails too.
BackupFails(r) ==
  LET s == cur[r] IN LET f == Target(r) IN
  /\ Fault
  /\ \/ /\ pc[r] = "verified" /\ box[s].before[f] = Absent
        /\ \E c \in {Absent, Empty} : box' = [box EXCEPT ![s].before[f] = c]
        /\ kept' = kept \cup {s}
     \/ /\ pc[r] = "before kept"
        /\ \E c \in {box[s].after[f], Empty} : box' = [box EXCEPT ![s].after[f] = c]
        /\ UNCHANGED kept
     \/ /\ pc[r] = "after kept"
        /\ \E c \in SUBSET (box[s].created \cup {f}), a \in {prev[r].after, box[s].after[f]} :
             box' = [box EXCEPT ![s] = [@ EXCEPT !.created = c, !.after[f] = a]]
        /\ UNCHANGED kept
  /\ lock' = Free
  /\ EndBlock(r, TRUE)
  /\ UNCHANGED <<disk, minted, fresh, prep, dir, cur, prev, undoVars, ghostVars, userEdits>>

LandedIn(s) == {p[1] : p \in landed[s]}

\* writeFileAtomicNoFollow: the file becomes the new content in one rename.
\* A client of the daemon learns its session from the first block that lands.
WriteFile(r) ==
  LET s == cur[r] IN LET f == Target(r) IN
  /\ pc[r] = "ready"
  /\ disk' = [disk EXCEPT ![f] = NewContent(r)]
  /\ found' = [found EXCEPT ![s][f] = IF f \in LandedIn(s) THEN @ ELSE prep[r].original]
  /\ landed' = [landed EXCEPT ![s] = @ \cup {<<f, Change(r)>>}]
  /\ dir' = [dir EXCEPT ![r] = IF @ = 0 THEN s ELSE @]
  /\ lock' = Free
  /\ EndBlock(r, FALSE)
  /\ UNCHANGED <<storeVars, box, prep, cur, prev, undoVars, countVars>>

\* The write fails: after/ and created-files go back to what they were, as far
\* as that still works; before/ stays.
WriteFails(r) ==
  LET s == cur[r] IN LET f == Target(r) IN
  /\ pc[r] = "ready" /\ Fault
  /\ \E b \in {box[s], [box[s] EXCEPT !.after[f] = prev[r].after, !.created = prev[r].created]} :
       box' = [box EXCEPT ![s] = b]
  /\ lock' = Free
  /\ EndBlock(r, TRUE)
  /\ UNCHANGED <<disk, storeVars, prep, dir, cur, prev, undoVars, ghostVars, userEdits>>

-----------------------------------------------------------------------------
\* runUndoSession.

\* resolveBackupSession, or the session the caller names; no file lock yet.
ResolveSession(u) ==
  /\ upc[u] = "idle"
  /\ \E s \in kept : usession' = [usession EXCEPT ![u] = s]
  /\ upc' = [upc EXCEPT ![u] = "resolved"]
  /\ IF Kind[u] = "daemon" THEN mutex = Free /\ mutex' = u ELSE UNCHANGED mutex
  /\ UNCHANGED <<disk, storeVars, box, lock, runVars, batch, forced, ghostVars, countVars>>

BackedUp(s) == {f \in Files : s \in kept /\ box[s].before[f] # Absent}

\* Mutant: a file without an after/ snapshot counts as unchanged.
UnchangedOrUnknown(s) == {f \in BackedUp(s) : box[s].after[f] \in {Absent, disk[f]}}

\* Still what the apply run left: safe to revert without asking.
Unchanged(s) == {f \in BackedUp(s) : box[s].after[f] # Absent /\ disk[f] = box[s].after[f]}

\* The guard.  The CLI may be told, or may ask, to revert the guarded files
\* as well; the question is asked with the lock held.
GuardFiles(u) ==
  /\ upc[u] = "resolved" /\ lock = Free
  /\ \E force \in IF Kind[u] = "cli" THEN BOOLEAN ELSE {FALSE} :
       /\ batch' = [batch EXCEPT ![u] = IF force THEN BackedUp(usession[u]) ELSE Unchanged(usession[u])]
       /\ forced' = [forced EXCEPT ![u] = force]
  /\ upc' = [upc EXCEPT ![u] = "restoring"]
  /\ lock' = u
  /\ UNCHANGED <<disk, storeVars, box, mutex, runVars, usession, ghostVars, countVars>>

EndUndo(u) ==
  /\ upc' = [upc EXCEPT ![u] = "over"]
  /\ lock' = Free
  /\ ReleaseMutex(u)

\* Mutant: undo restores a file the run created instead of removing it.
RevertedAsBackup(s, f) == box[s].before[f]

\* What undo makes of a file: what it was, or nothing if the run created it.
Reverted(s, f) == IF f \in box[s].created THEN Absent ELSE box[s].before[f]

\* restoreBatch's commit phase, one rename or removal at a time.
CommitRestore(u, f) ==
  /\ upc[u] = "restoring" /\ f \in batch[u]
  /\ disk' = [disk EXCEPT ![f] = Reverted(usession[u], f)]
  /\ batch' = [batch EXCEPT ![u] = @ \ {f}]
  /\ UNCHANGED <<storeVars, box, lock, mutex, runVars, upc, usession, forced, ghostVars, countVars>>

UndoDone(u) ==
  /\ upc[u] = "restoring" /\ batch[u] = {}
  /\ EndUndo(u)
  /\ UNCHANGED <<disk, storeVars, box, runVars, usession, batch, forced, ghostVars, countVars>>

\* Staging or a commit fails: the files not yet reverted stay as they are.
UndoFails(u) ==
  /\ upc[u] = "restoring" /\ batch[u] # {} /\ Fault
  /\ EndUndo(u)
  /\ UNCHANGED <<disk, storeVars, box, runVars, usession, batch, forced, ghostVars, userEdits>>

-----------------------------------------------------------------------------
\* The user's editor, time and crashes.

UserWrites(f, c) ==
  /\ userEdits < MaxUserEdits /\ userEdits' = userEdits + 1
  /\ disk' = [disk EXCEPT ![f] = c]
  /\ UNCHANGED <<storeVars, box, lock, mutex, runVars, undoVars, ghostVars, faults>>

UserSaves(f) ==
  UserWrites(f, Append(IF disk[f] = Absent THEN Empty ELSE disk[f], <<"user", userEdits>>))

UserDeletes(f) == MayDelete /\ disk[f] # Absent /\ UserWrites(f, Absent)

\* Two hours after it was made, a session's marker no longer protects it.
MarkerAges(s) ==
  /\ s \in fresh
  /\ fresh' = {t \in fresh : t > s}
  /\ UNCHANGED <<disk, kept, minted, box, lock, mutex, runVars, undoVars, ghostVars, countVars>>

\* Mutant: the lock is a file that a dead holder leaves behind.
LockAfterDeathOfIgnored(dead) == lock

\* The kernel drops a dead holder's lock.
LockAfterDeathOf(dead) == IF lock \in dead THEN Free ELSE lock

\* A CLI or a TUI process dies: nothing of its run or undo goes on.
CrashProcess(x) ==
  /\ Fault
  /\ Kind[x] # "daemon"
  /\ \/ x \in Runs /\ pc[x] # "over"
     \/ x \in Undoers /\ upc[x] \notin {"idle", "over"}
  /\ pc' = [r \in Runs |-> IF r = x THEN "over" ELSE pc[r]]
  /\ upc' = [u \in Undoers |-> IF u = x THEN "over" ELSE upc[u]]
  /\ lock' = LockAfterDeathOf({x})
  /\ UNCHANGED <<disk, storeVars, box, mutex, block, prep, dir, cur, prev, usession, batch, forced,
                 ghostVars, userEdits>>

\* The daemon dies and is started again.  Its clients see the request in
\* flight fail and go on with their next block.
CrashDaemon ==
  LET inFlight == {r \in Runs : Kind[r] = "daemon" /\ pc[r] \notin {"idle", "over"}} IN
  LET undoing == {u \in Undoers : Kind[u] = "daemon" /\ upc[u] \notin {"idle", "over"}} IN
  /\ Fault
  /\ inFlight \cup undoing # {}
  /\ pc' = [r \in Runs |-> IF r \in inFlight THEN IF block[r] = Blocks THEN "over" ELSE "idle" ELSE pc[r]]
  /\ block' = [r \in Runs |-> IF r \in inFlight THEN block[r] + 1 ELSE block[r]]
  /\ upc' = [u \in Undoers |-> IF u \in undoing THEN "over" ELSE upc[u]]
  /\ mutex' = Free
  /\ lock' = LockAfterDeathOf(inFlight \cup undoing)
  /\ UNCHANGED <<disk, storeVars, box, prep, dir, cur, prev, usession, batch, forced,
                 ghostVars, userEdits>>

\* What a run does once the user has said yes.
ApplyStep(r) ==
  \/ ReuseSession(r) \/ MintSession(r) \/ MintFails(r)
  \/ BeginApply(r) \/ RefuseStale(r)
  \/ SaveBefore(r) \/ SaveAfter(r) \/ SaveCreated(r) \/ BackupFails(r)
  \/ WriteFile(r) \/ WriteFails(r)

UndoStep(u) ==
  \/ GuardFiles(u) \/ \E f \in Files : CommitRestore(u, f)
  \/ UndoDone(u) \/ UndoFails(u)

Next ==
  \/ \E r \in Runs : Prepare(r) \/ Decline(r) \/ ApplyStep(r)
  \/ \E u \in Undoers : ResolveSession(u) \/ UndoStep(u)
  \/ \E f \in Files : UserSaves(f) \/ UserDeletes(f)
  \/ \E s \in Sessions : MarkerAges(s)
  \/ \E x \in Runs \cup Undoers : CrashProcess(x)
  \/ CrashDaemon

Spec == Init /\ [][Next]_vars

\* A program goes on once it is past its question; the daemon asks none, so
\* its undo goes on too.
Fairness ==
  /\ \A r \in Runs : WF_vars(pc[r] # "prepared" /\ ApplyStep(r))
  /\ \A u \in Undoers : Kind[u] = "daemon" => WF_vars(UndoStep(u))

FairSpec == Spec /\ Fairness

-----------------------------------------------------------------------------
\* Properties.

\* Every variable keeps its type.
TypeOK ==
  /\ \A f \in Files : disk[f] = Absent \/ \A i \in DOMAIN disk[f] : disk[f][i][2] \in Nat
  /\ kept \subseteq Sessions /\ fresh \subseteq Sessions /\ minted \in 0 .. Cardinality(Sessions)
  /\ \A s \in Sessions : box[s].created \subseteq Files
  /\ lock \in Runs \cup Undoers \cup {Free}
  /\ mutex \in {x \in Runs \cup Undoers : Kind[x] = "daemon"} \cup {Free}
  /\ pc \in [Runs -> {"idle", "prepared", "session", "verified", "before kept", "after kept",
                      "ready", "over"}]
  /\ block \in [Runs -> 1 .. Blocks + 1]
  /\ dir \in [Runs -> Sessions \cup {0}] /\ cur \in [Runs -> Sessions \cup {0}]
  /\ upc \in [Undoers -> {"idle", "resolved", "restoring", "over"}]
  /\ usession \in [Undoers -> Sessions \cup {0}]
  /\ batch \in [Undoers -> SUBSET Files] /\ forced \in [Undoers -> BOOLEAN]
  /\ \A s \in Sessions : landed[s] \subseteq Files \X (Runs \X (1 .. Blocks))

EditsIn(c) == IF c = Absent THEN {} ELSE {c[i] : i \in DOMAIN c} \cap (Runs \X (1 .. Blocks))

\* Whatever the CLI, the TUI and the daemon do at once, and whatever fails or
\* dies, an edit that landed stays in its file until an undo or the user takes
\* it out: no Apply overwrites another's edit (LockWorkspaceApply, "the
\* lost-update TOCTOU").
NoAppliedEditLost ==
  [][batch' = batch =>
       \A f \in Files : disk'[f] = Absent \/ EditsIn(disk[f]) \subseteq EditsIn(disk'[f])]_vars

\* An undo that nobody forced changes a file only when the last change to it
\* was an edit of the session being undone (runUndoSession's guard), or when
\* there is nothing in it.
UndoStartsFromItsOwnEdit ==
  [][\A u \in Undoers :
       upc[u] = "resolved" /\ upc'[u] = "restoring" /\ ~forced'[u] =>
         \A f \in batch'[u] :
           disk[f] = Empty \/ <<f, Last(disk[f])>> \in landed[usession[u]]]_vars

\* A session's before/ snapshot is the file as it was just before the session's
\* first edit of it landed (BackupOriginal's comment).
BeforeIsWhatTheRunFound ==
  \A s \in kept : \A f \in LandedIn(s) :
    box[s].before[f] = IF found[s][f] = Absent THEN Empty ELSE found[s][f]

\* Undoing a file puts back what the session's first edit replaced; a file the
\* session created is gone again, not empty (Fix C).
UndoRestoresWhatTheRunFound ==
  [][\A u \in Undoers : \A f \in batch[u] \ batch'[u] :
       f \in LandedIn(usession[u]) => disk'[f] = found[usession[u]][f]]_vars

\* A program at its question: only its user ends that.
AtAPrompt == \E u \in Undoers : Kind[u] = "cli" /\ lock = u

\* A block whose Apply has begun ends: nobody waits for the lock for ever,
\* whoever failed or died while holding it -- except behind an undo at the
\* command line, which asks its question with the lock held.
EveryApplyEnds ==
  \A r \in Runs : pc[r] \notin {"idle", "prepared", "over"} ~> pc[r] \in {"idle", "over"} \/ AtAPrompt
=============================================================================
