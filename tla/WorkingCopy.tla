----------------------------- MODULE WorkingCopy -----------------------------
(***************************************************************************)
(* An agent turn's private copy of the project (stagedWorkspace): how it   *)
(* is made while the user goes on editing, what the turn's tools do to it, *)
(* its checkpoints, the judge that puts the best code back, the deletes    *)
(* and moves of the real project it follows, and the net changes offered   *)
(* for review when the turn ends.                                          *)
(*                                                                         *)
(* The tools of a turn run one after another; the user's editor runs       *)
(* beside all of them.  A file's content is a member of a small set; its   *)
(* size and modification time are compared with those recorded, which is   *)
(* here whether the file was written since.  An edit block is the whole    *)
(* file.  Folders, links, file modes and ignored files are left out.       *)
(***************************************************************************)
EXTENDS Integers, SequencesExt

CONSTANTS
  Files, Contents,
  Absent,          \* no such file
  Original,        \* what each file of the project holds at the start
  Size,            \* bytes of a content
  Names,           \* names the model gives checkpoints
  AutoName,        \* autoRestoreName
  MaxCheckpoints, MaxCheckpointBytes,
  MaxTools,        \* bounds on the turn's tool calls,
  MaxSaves,        \*   on what the user's editor does
  MaxRefusals      \*   and on files a restore cannot put back

ASSUME FilesAssumption ==
  /\ Original \in [Files -> Contents \cup {Absent}]
  /\ Absent \notin Contents
  /\ Size \in [Contents -> Nat]
ASSUME NamesAssumption == AutoName \notin Names
ASSUME LimitsAssumption ==
  /\ MaxCheckpoints \in Nat \ {0} /\ MaxCheckpointBytes \in Nat
  /\ MaxTools \in Nat /\ MaxSaves \in Nat /\ MaxRefusals \in Nat

VARIABLES
  \* -- the project and the user -------------------------------------------
  real,        \* the project's files
  dirty,       \* written since the copy took their size and time
  trash,       \* what delete_path put aside
  \* -- the copy ------------------------------------------------------------
  phase,       \* "copying", "working", "offering", "review" or "over"
  walk,        \* how far a walk over the files has come with each
  copy,
  known,       \* the keys of manifest: files that were in the project
  rewritten,   \* known files whose copy was written since it was made
  touched,     \* files an edit changed
  byCommand,   \* files a command changed
  reshaped,    \* deletes, moves and restores of the real project followed
  \* -- the turn ------------------------------------------------------------
  checkpoints,
  best,        \* the judge's snapshot of the best code, as a sequence of <= 1
  check,       \* the last check: "none", "current", or "stale" once edits follow
  offer,       \* the block offered for a file, as a sequence of <= 1
  \* -- for the properties --------------------------------------------------
  commands,    \* what commands did to each file
  savedSince,  \* files the user saved since the copy read them
  removed,     \* of the project, deleted or moved away with the user's consent
  discarded,   \* and what was only in the copy
  tools, saves, refusals

projectVars == <<real, dirty, trash>>
recordVars  == <<known, rewritten, touched, byCommand, reshaped>>
turnVars    == <<checkpoints, best, check, offer>>
ghostVars   == <<commands, savedSince, removed, discarded>>
copyVars == <<projectVars, phase, walk, copy, recordVars, turnVars, ghostVars, tools, saves, refusals>>

CopyInit ==
  /\ real = Original
  /\ dirty = {} /\ trash = [f \in Files |-> Absent]
  /\ phase = "copying"
  /\ walk = [f \in Files |-> "ahead"]
  /\ copy = [f \in Files |-> Absent]
  /\ known = {} /\ rewritten = {} /\ touched = {} /\ byCommand = {}
  /\ reshaped = 0
  /\ checkpoints = <<>> /\ best = <<>> /\ check = "none"
  /\ offer = [f \in Files |-> <<>>]
  /\ commands = [f \in Files |-> {}]
  /\ savedSince = {} /\ removed = {} /\ discarded = {}
  /\ tools = 0 /\ saves = 0 /\ refusals = 0

-----------------------------------------------------------------------------
\* copyFrom: for each file, its size and time first, then its content.

StatFile(f) ==
  /\ phase = "copying" /\ walk[f] = "ahead"
  /\ walk' = [walk EXCEPT ![f] = IF real[f] = Absent THEN "passed" ELSE "here"]
  /\ dirty' = dirty \ {f}
  /\ UNCHANGED <<real, trash, phase, copy, recordVars, turnVars, ghostVars, tools, saves, refusals>>

\* A file that cannot be read any more is left out.
CopyFile(f) ==
  /\ phase = "copying" /\ walk[f] = "here"
  /\ walk' = [walk EXCEPT ![f] = "passed"]
  /\ copy' = [copy EXCEPT ![f] = real[f]]
  /\ known' = IF real[f] = Absent THEN known ELSE known \cup {f}
  /\ savedSince' = savedSince \ {f}
  /\ UNCHANGED <<projectVars, phase, rewritten, touched, byCommand, reshaped, turnVars,
                 commands, removed, discarded, tools, saves, refusals>>

CopyMade ==
  /\ phase = "copying" /\ \A f \in Files : walk[f] = "passed"
  /\ phase' = "working"
  /\ UNCHANGED <<projectVars, walk, copy, recordVars, turnVars, ghostVars, tools, saves, refusals>>

-----------------------------------------------------------------------------
\* The turn's tools.

ToolCall == phase = "working" /\ tools < MaxTools /\ tools' = tools + 1

\* An edit makes the last check one of other code: editCount has moved on.
Outdated == IF check = "none" THEN "none" ELSE "stale"

\* apply, as propose_edit and an edit in the answer's text reach it.
Edit(f, c) ==
  /\ ToolCall
  /\ copy[f] # c
  /\ copy' = [copy EXCEPT ![f] = c]
  /\ touched' = touched \cup {f}
  /\ rewritten' = rewritten \cup {f}
  /\ check' = Outdated
  /\ removed' = removed \ {f} /\ discarded' = discarded \ {f}
  /\ UNCHANGED <<projectVars, phase, walk, known, byCommand, reshaped, checkpoints, best, offer,
                 commands, savedSince, saves, refusals>>

\* A command leaves a file changed, new or gone: noteCommandChanges.  Not every
\* command is recorded as a check.
Command(f, c) ==
  /\ ToolCall
  /\ copy' = [copy EXCEPT ![f] = c]
  /\ IF c = copy[f]
     THEN UNCHANGED <<rewritten, byCommand, commands, removed, discarded>>
     ELSE /\ rewritten' = rewritten \cup {f}
          /\ byCommand' = IF c = Absent THEN byCommand ELSE byCommand \cup {f}
          /\ commands' = [commands EXCEPT ![f] = @ \cup {IF c = Absent THEN "deleted" ELSE "wrote"}]
          /\ removed' = IF c = Absent THEN removed ELSE removed \ {f}
          /\ discarded' = IF c = Absent THEN discarded ELSE discarded \ {f}
  /\ check' \in {check, "current"}
  /\ UNCHANGED <<projectVars, phase, walk, known, touched, reshaped, checkpoints, best, offer,
                 savedSince, saves, refusals>>

\* A snapshot holds some of the files, as they are; the rest of saved is there
\* for the properties.
SnapshotOf(name, held) == [name |-> name, held |-> held, saved |-> copy, reshaped |-> reshaped]

Bytes(cp) == MapThenSumSet(LAMBDA f : Size[cp.saved[f]], {f \in cp.held : cp.saved[f] # Absent})

OthersThan(name) ==
  FoldLeft(LAMBDA kept, cp : IF cp.name = name THEN kept ELSE Append(kept, cp), <<>>, checkpoints)

\* keepCheckpoint.  The others are moved up in the array that the list goes on
\* using when cp is refused.
KeepCheckpoint(cp) ==
  LET kept == OthersThan(cp.name) IN
  LET total == Bytes(cp) + FoldLeft(LAMBDA n, old : n + Bytes(old), 0, kept) IN
  checkpoints' = IF Len(kept) >= MaxCheckpoints \/ total > MaxCheckpointBytes
                 THEN [i \in DOMAIN checkpoints |->
                         IF i <= Len(kept) THEN kept[i] ELSE checkpoints[i]]
                 ELSE Append(kept, cp)

SaveCheckpoint(name) ==
  /\ ToolCall
  /\ KeepCheckpoint(SnapshotOf(name, touched))
  /\ UNCHANGED <<projectVars, phase, walk, copy, recordVars, best, check, offer, ghostVars,
                 saves, refusals>>

\* Mutant: a restore goes back past a delete or a move.
RestorableAlways(cp) == TRUE

\* Not past a delete or a move that the copy followed.
Restorable(cp) == cp.reshaped = reshaped

\* Mutant: only what the checkpoint holds is put back.
PathsHeld(cp, withCommands) == cp.held

Paths(cp, withCommands) == cp.held \cup touched \cup (IF withCommands THEN byCommand ELSE {})

\* What the file should be: as held, or the project's version of it.
Wanted(cp, f) ==
  IF f \in cp.held THEN cp.saved[f] ELSE IF f \in known THEN real[f] ELSE Absent

\* The project's version cannot be read.
Missing(cp, f) == f \notin cp.held /\ f \in known /\ real[f] = Absent

\* restore: a file that differs is removed, or rewritten by an edit, unless
\* that is refused.
PutBack(cp, withCommands, refused) ==
  LET put == {f \in Paths(cp, withCommands) \ refused : copy[f] # Wanted(cp, f) /\ ~Missing(cp, f)} IN
  LET written == {f \in put : Wanted(cp, f) # Absent} IN
  /\ Cardinality(refused) <= MaxRefusals - refusals
  /\ refusals' = refusals + Cardinality(refused)
  /\ copy' = [f \in Files |-> IF f \in put THEN Wanted(cp, f) ELSE copy[f]]
  /\ touched' = touched \cup written
  /\ rewritten' = rewritten \cup written
  /\ check' = IF written = {} THEN check ELSE Outdated

Refusable == {{}} \cup {{f} : f \in Files}

Named(name) == {i \in DOMAIN checkpoints : checkpoints[i].name = name}

RestoreCheckpoint(name, refused) ==
  /\ ToolCall
  /\ Named(name) # {}
  /\ LET cp == checkpoints[Min(Named(name))] IN
       Restorable(cp) /\ PutBack(cp, FALSE, refused)
  /\ UNCHANGED <<projectVars, phase, walk, known, byCommand, reshaped, checkpoints, best, offer,
                 ghostVars, saves>>

\* A check the judge finds the best so far: its code is kept, if it is not
\* too large.
CheckIsBest ==
  LET snapshot == SnapshotOf("best", touched \cup byCommand) IN
  /\ ToolCall
  /\ check' = "current"
  /\ best' = IF Bytes(snapshot) > MaxCheckpointBytes THEN best ELSE <<snapshot>>
  /\ UNCHANGED <<projectVars, phase, walk, copy, recordVars, checkpoints, offer, ghostVars,
                 saves, refusals>>

\* A check the judge answers by putting the best code back, after keeping what
\* is there as a checkpoint, as far as that is possible.
CheckPutsBack(refused) ==
  LET before == SnapshotOf(AutoName, touched \cup byCommand) IN
  /\ ToolCall
  /\ best # <<>> /\ best[1].reshaped = reshaped /\ best[1].saved # copy
  /\ IF Bytes(before) > MaxCheckpointBytes THEN UNCHANGED checkpoints ELSE KeepCheckpoint(before)
  /\ PutBack(best[1], TRUE, refused)
  /\ UNCHANGED <<projectVars, phase, walk, known, byCommand, reshaped, best, offer,
                 ghostVars, saves>>

-----------------------------------------------------------------------------
\* The copy follows a delete, a move or a restore of the real project.

Renamed(set, f, g) == IF f \in set THEN (set \ {f}) \cup {g} ELSE set

Forget(f) ==
  /\ known' = known \ {f} /\ rewritten' = rewritten \ {f}
  /\ touched' = touched \ {f} /\ byCommand' = byCommand \ {f}

\* delete_path and mirrorDelete.
FollowDelete(f) ==
  /\ ToolCall
  /\ real[f] # Absent
  /\ real' = [real EXCEPT ![f] = Absent]
  /\ trash' = [trash EXCEPT ![f] = real[f]]
  /\ copy' = [copy EXCEPT ![f] = Absent]
  /\ Forget(f)
  /\ reshaped' = reshaped + 1
  /\ removed' = removed \cup {f}
  /\ UNCHANGED <<dirty, phase, walk, turnVars, commands, savedSince, discarded, saves, refusals>>

\* delete_path of a file that is only in the copy (stagedOnlyDelete), which the user was
\* asked about as for any other; it does not count as one that the copy followed.
DeleteStaged(f) ==
  /\ ToolCall
  /\ real[f] = Absent /\ copy[f] # Absent /\ f \notin known
  /\ copy' = [copy EXCEPT ![f] = Absent]
  /\ Forget(f)
  /\ discarded' = discarded \cup {f}
  /\ UNCHANGED <<projectVars, phase, walk, reshaped, turnVars, commands, savedSince, removed,
                 saves, refusals>>

MoveInCopy(f, g) ==
  /\ copy' = IF copy[f] = Absent THEN copy ELSE [copy EXCEPT ![g] = copy[f], ![f] = Absent]
  /\ known' = Renamed(known, f, g)
  /\ touched' = Renamed(touched, f, g)
  /\ byCommand' = Renamed(byCommand, f, g)
  /\ commands' = [commands EXCEPT ![g] = @ \cup commands[f]]

\* move_path and mirrorMove.  If the manifest has both names, either entry can
\* end up under the new one.
FollowMove(f, g) ==
  /\ ToolCall
  /\ real[f] # Absent /\ real[g] = Absent
  /\ real' = [real EXCEPT ![g] = real[f], ![f] = Absent]
  /\ MoveInCopy(f, g)
  /\ \E e \in IF {f, g} \cap known = {} THEN {f} ELSE {f, g} \cap known :
       /\ dirty' = (dirty \ {f, g}) \cup (IF e \in dirty THEN {g} ELSE {})
       /\ rewritten' = (rewritten \ {f, g}) \cup
            (IF e \in rewritten \/ (e = f) # (copy[f] # Absent) THEN {g} ELSE {})
  /\ savedSince' = Renamed(savedSince \ {g}, f, g)
  /\ removed' = (removed \cup {f}) \ {g} /\ discarded' = discarded \ {g}
  /\ reshaped' = reshaped + 1
  /\ UNCHANGED <<trash, phase, walk, turnVars, saves, refusals>>

\* move_path, the same way (stagedOnlyMove).
MoveStaged(f, g) ==
  /\ ToolCall
  /\ real[f] = Absent /\ copy[f] # Absent /\ f \notin known
  /\ real[g] = Absent /\ copy[g] = Absent
  /\ MoveInCopy(f, g)
  /\ rewritten' = (rewritten \ {f}) \cup {g}
  /\ removed' = removed \ {g} /\ discarded' = (discarded \cup {f}) \ {g}
  /\ UNCHANGED <<projectVars, phase, walk, reshaped, turnVars, savedSince, saves, refusals>>

\* restore_deleted and mirrorRestore: the file is the project's again, in the
\* copy too.
FollowRestore(f) ==
  /\ ToolCall
  /\ real[f] = Absent /\ trash[f] # Absent
  /\ real' = [real EXCEPT ![f] = trash[f]]
  /\ trash' = [trash EXCEPT ![f] = Absent]
  /\ copy' = [copy EXCEPT ![f] = trash[f]]
  /\ known' = known \cup {f}
  /\ dirty' = dirty \ {f} /\ rewritten' = rewritten \ {f}
  /\ reshaped' = reshaped + 1
  /\ savedSince' = savedSince \ {f} /\ removed' = removed \ {f} /\ discarded' = discarded \ {f}
  /\ UNCHANGED <<phase, walk, touched, byCommand, turnVars, commands, saves, refusals>>

-----------------------------------------------------------------------------
\* The turn ends: netChanges, and the review.

EndTurn ==
  /\ phase = "working"
  /\ phase' = "offering"
  /\ walk' = [f \in Files |-> "ahead"]
  /\ UNCHANGED <<projectVars, copy, recordVars, turnVars, ghostVars, tools, saves, refusals>>

\* An error or an interrupt: the turn offers nothing.
Discard ==
  /\ phase \in {"copying", "working"}
  /\ phase' = "over"
  /\ UNCHANGED <<projectVars, walk, copy, recordVars, turnVars, ghostVars, tools, saves, refusals>>

\* Mutant: netChanges does not ask whether the project's file changed.
OfferableAnyway(f) ==
  /\ copy[f] # Absent
  /\ \/ f \in known /\ f \in touched \cup rewritten /\ real[f] # Absent
     \/ f \notin known /\ f \in touched /\ real[f] = Absent

\* Mutant: a file gone from the copy is offered as a removal.
OfferableGone(f) ==
  \/ f \in known /\ f \in touched \cup rewritten /\ real[f] # Absent /\ f \notin dirty
  \/ f \notin known /\ f \in touched /\ real[f] = Absent

\* An edited file, or one of the project's that a command rewrote; but not over
\* a file of the project's that changed meanwhile, or that is new there.
Offerable(f) ==
  /\ copy[f] # Absent
  /\ \/ f \in known /\ f \in touched \cup rewritten /\ real[f] # Absent /\ f \notin dirty
     \/ f \notin known /\ f \in touched /\ real[f] = Absent

LookAtReal(f) ==
  /\ phase = "offering" /\ walk[f] = "ahead"
  /\ walk' = [walk EXCEPT ![f] = IF Offerable(f) THEN "here" ELSE "passed"]
  /\ UNCHANGED <<projectVars, phase, copy, recordVars, turnVars, ghostVars, tools, saves, refusals>>

ReadReal(f) ==
  LET before == IF f \in known THEN real[f] ELSE Absent IN
  /\ phase = "offering" /\ walk[f] = "here"
  /\ walk' = [walk EXCEPT ![f] = "passed"]
  /\ offer' = IF (f \in known /\ before = Absent) \/ before = copy[f] THEN offer
              ELSE [offer EXCEPT ![f] = <<[before |-> before, after |-> copy[f]]>>]
  /\ UNCHANGED <<projectVars, phase, copy, recordVars, checkpoints, best, check, ghostVars,
                 tools, saves, refusals>>

OffersMade ==
  /\ phase = "offering" /\ \A f \in Files : walk[f] = "passed"
  /\ phase' = "review"
  /\ UNCHANGED <<projectVars, walk, copy, recordVars, turnVars, ghostVars, tools, saves, refusals>>

\* The user reviews a block; it applies only to the text it was made from.
Review(f) ==
  /\ phase = "review" /\ offer[f] # <<>>
  /\ offer' = [offer EXCEPT ![f] = <<>>]
  /\ \/ UNCHANGED real
     \/ real[f] = offer[f][1].before /\ real' = [real EXCEPT ![f] = offer[f][1].after]
  /\ UNCHANGED <<dirty, trash, phase, walk, copy, recordVars, checkpoints, best, check, ghostVars,
                 tools, saves, refusals>>

-----------------------------------------------------------------------------
\* The user's editor.

CopyHasRead(f) == \/ phase = "copying" /\ walk[f] = "passed"
                  \/ phase = "working"
                  \/ phase = "offering" /\ walk[f] = "ahead"

UserWrites(f, c) ==
  /\ phase # "over"
  /\ saves < MaxSaves /\ saves' = saves + 1
  /\ real[f] # c
  /\ real' = [real EXCEPT ![f] = c]
  /\ dirty' = dirty \cup {f}
  /\ savedSince' = IF CopyHasRead(f) THEN savedSince \cup {f} ELSE savedSince
  /\ UNCHANGED <<trash, phase, walk, copy, recordVars, turnVars, commands, removed, discarded,
                 tools, refusals>>

Tool ==
  \/ \E f \in Files, c \in Contents : Edit(f, c)
  \/ \E f \in Files, c \in Contents \cup {Absent} : Command(f, c)
  \/ \E name \in Names : SaveCheckpoint(name)
  \/ \E name \in Names \cup {AutoName}, refused \in Refusable : RestoreCheckpoint(name, refused)
  \/ CheckIsBest
  \/ \E refused \in Refusable : CheckPutsBack(refused)
  \/ \E f \in Files : FollowDelete(f) \/ DeleteStaged(f) \/ FollowRestore(f)
  \/ \E f \in Files : \E g \in Files \ {f} : FollowMove(f, g) \/ MoveStaged(f, g)

Turn ==
  \/ \E f \in Files : StatFile(f) \/ CopyFile(f)
  \/ CopyMade
  \/ Tool
  \/ EndTurn \/ Discard
  \/ \E f \in Files : LookAtReal(f) \/ ReadReal(f) \/ Review(f)
  \/ OffersMade

CopyNext == Turn \/ \E f \in Files, c \in Contents \cup {Absent} : UserWrites(f, c)

CopySpec == CopyInit /\ [][CopyNext]_copyVars

-----------------------------------------------------------------------------
\* Properties.

FileStates == Contents \cup {Absent}

SnapshotType == [name : Names \cup {AutoName, "best"}, held : SUBSET Files,
                 saved : [Files -> FileStates], reshaped : Nat]

\* Every variable keeps its type; there are never more than MaxCheckpoints, and
\* what is offered is always a file's new content, never its removal.
CopyTypeOK ==
  /\ real \in [Files -> FileStates] /\ copy \in [Files -> FileStates]
  /\ trash \in [Files -> FileStates]
  /\ dirty \subseteq Files /\ known \subseteq Files /\ rewritten \subseteq Files
  /\ touched \subseteq Files /\ byCommand \subseteq Files
  /\ savedSince \subseteq Files /\ removed \subseteq Files /\ discarded \subseteq Files
  /\ phase \in {"copying", "working", "offering", "review", "over"}
  /\ walk \in [Files -> {"ahead", "here", "passed"}]
  /\ reshaped \in Nat
  /\ checkpoints \in Seq(SnapshotType) /\ Len(checkpoints) <= MaxCheckpoints
  /\ best \in Seq(SnapshotType) /\ Len(best) <= 1
  /\ check \in {"none", "current", "stale"}
  /\ offer \in [Files -> Seq([before : FileStates, after : Contents])]
  /\ \A f \in Files : Len(offer[f]) <= 1
  /\ commands \in [Files -> SUBSET {"wrote", "deleted"}]
  /\ tools \in 0 .. MaxTools /\ saves \in 0 .. MaxSaves /\ refusals \in 0 .. MaxRefusals

\* netChanges offers nothing that would undo what the user saved while the
\* agent worked, even a save in the middle of the copying, or of a file the
\* agent has since moved: "its version would silently undo the user's".
OfferSparesTheUser ==
  \A f \in Files : offer[f] # <<>> /\ offer[f][1].before # Absent => f \notin savedSince

\* What is restored is all of the code it was saved from, files it does not hold
\* included: a checkpoint, except a file that the user saved or that any command of
\* the turn changed, before it was saved or after, for what commands do it does not
\* hold (restoreCheckpoint, "puts every file changed now or at the checkpoint back as
\* it stood then"); and the judge's best code with what commands wrote, except a file
\* that a command deleted (restoreSnapshot).
RestoreBringsBack ==
  [][/\ \A name \in Names : RestoreCheckpoint(name, {}) =>
          \A f \in Files \ dirty : commands[f] = {} =>
            copy'[f] = checkpoints[Min(Named(name))].saved[f]
     /\ CheckPutsBack({}) =>
          \A f \in Files \ dirty : "deleted" \notin commands[f] => copy'[f] = best[1].saved[f]]_copyVars

\* A file of the project that the user agreed to delete or move away comes back only
\* when the agent makes it anew or restores it from the trash, never through a
\* checkpoint or the judge (TestACheckpointNeverUndoesADeleteOrMove).  What was only
\* in the copy is another matter: see ConsentedRemovalsStay.
RemovedStaysRemoved == \A f \in removed : copy[f] = Absent

\* What comments and tests of the repository say, and the code does not keep.

\* keepCheckpoint only adds a checkpoint or replaces one: a name saved once
\* stays restorable.
SavedNamesStay ==
  [][{checkpoints[i].name : i \in DOMAIN checkpoints}
       \subseteq {checkpoints'[i].name : i \in DOMAIN checkpoints'}]_copyVars

\* No checkpoint is restored past a delete or a move, since "it would bring back what
\* the user removed": whatever the user agreed to delete or move away stays so.
ConsentedRemovalsStay == \A f \in removed \cup discarded : copy[f] = Absent

\* "A restore is an edit like any other": after one that changed the code, the
\* finish gate wants a new check.
RestoreWantsACheck ==
  [][\A name \in Names : RestoreCheckpoint(name, {}) /\ copy' # copy => check' # "current"]_copyVars
=============================================================================
