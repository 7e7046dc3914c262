--------------------------- MODULE EditSessionsProofs ---------------------------
(***************************************************************************)
(* That every variable of EditSessions keeps its type, that no Apply loses *)
(* another's edit, and that an undo nobody forced starts from an edit of   *)
(* its own session, for any number of runs, undos, blocks, files, user     *)
(* edits and faults.                                                       *)
(*                                                                         *)
(* TypeInv is the types, with two facts they rest on: a run that is not    *)
(* over has a block to do, and a session is minted only for a block that   *)
(* has none, which is why the sessions never run out.  LockInv is the      *)
(* lock: whoever is past it holds it, and a run that is past it still      *)
(* finds, in its file, no edit that it did not read.  That alone keeps     *)
(* the applied edits.  For the undo, OnlyLanded says that an edit read     *)
(* anywhere has landed, and AfterInv that a snapshot in after/ ends with   *)
(* an edit that landed in this file in this session or never will, or is   *)
(* the one its run is about to land.                                       *)
(***************************************************************************)
EXTENDS EditSessions, SequenceTheorems, FiniteSetTheorems, TLAPS

\* Contents: what any program, and the user, may have written, one after another.
Writers  == Runs \cup {"user", "original"}
Contents == Seq(Writers \X Nat) \cup {Absent}
Edits    == Runs \X (1 .. Blocks)
Boxes    == [before : [Files -> Contents], after : [Files -> Contents], created : SUBSET Files]

Applying == {"verified", "before kept", "after kept", "ready"}

\* Each session was minted for a block, and for no other.
MintsAreCounted ==
  \E S \in SUBSET Edits :
    /\ minted = Cardinality(S)
    /\ \A p \in S : \/ p[2] < block[p[1]]
                    \/ p[2] = block[p[1]] /\ pc[p[1]] \notin {"idle", "prepared"}

States  == {"idle", "prepared", "session", "verified", "before kept", "after kept", "ready", "over"}
Daemons == {x \in Runs \cup Undoers : Kind[x] = "daemon"}

Types ==
  /\ disk \in [Files -> Contents] /\ box \in [Sessions -> Boxes]
  /\ kept \subseteq Sessions /\ fresh \subseteq Sessions /\ minted \in Nat
  /\ lock \in Runs \cup Undoers \cup {Free} /\ mutex \in Daemons \cup {Free}
  /\ pc \in [Runs -> States] /\ block \in [Runs -> 1 .. Blocks + 1]
  /\ prep \in [Runs -> [file : Files, original : Contents]]
  /\ dir \in [Runs -> Sessions \cup {0}] /\ cur \in [Runs -> Sessions \cup {0}]
  /\ prev \in [Runs -> [after : Contents, created : SUBSET Files]]
  /\ upc \in [Undoers -> {"idle", "resolved", "restoring", "over"}]
  /\ usession \in [Undoers -> Sessions \cup {0}]
  /\ batch \in [Undoers -> SUBSET Files] /\ forced \in [Undoers -> BOOLEAN]
  /\ landed \in [Sessions -> SUBSET (Files \X Edits)]
  /\ userEdits \in Nat /\ faults \in Nat

\* A run that is not over has a block to do, and what has a session has a real one.
Stages ==
  /\ \A r \in Runs : /\ pc[r] # "over" => block[r] <= Blocks
                     /\ pc[r] \in Applying \cup {"session"} => cur[r] \in Sessions
  /\ \A u \in Undoers : upc[u] \in {"resolved", "restoring"} => usession[u] \in Sessions

TypeInv == Types /\ Stages /\ MintsAreCounted

\* Whoever works on the files holds the lock, and a run that does still sees every edit it
\* read, and no other.
LockInv ==
  /\ \A r \in Runs : pc[r] \in Applying =>
       lock = r /\ EditsIn(disk[Target(r)]) \subseteq EditsIn(prep[r].original)
  /\ \A u \in Undoers : upc[u] = "restoring" => lock = u

HasLanded(e) == \E s \in Sessions : \E f \in Files : <<f, e>> \in landed[s]

\* An edit that is read anywhere landed once, and its run is past it.
OnlyLanded ==
  /\ \A f \in Files : \A e \in EditsIn(disk[f]) : HasLanded(e)
  /\ \A s \in Sessions : \A f \in Files : \A e \in EditsIn(box[s].before[f]) : HasLanded(e)
  /\ \A r \in Runs : \A e \in EditsIn(prep[r].original) : HasLanded(e)
  /\ \A e \in Edits : HasLanded(e) => e[2] < block[e[1]]

\* The run is past its edit.
IsPast(e) == e[2] < block[e[1]] \/ (e[2] = block[e[1]] /\ pc[e[1]] = "over")

\* It is the edit that its run is making, of this file, in this session.
Saved == {"after kept", "ready"}
IsMaking(e, s, f) ==
  LET r == e[1] IN e[2] = block[r] /\ pc[r] \in Saved /\ cur[r] = s /\ Target(r) = f

\* A snapshot in after/ ends with an edit that landed in this file in this session, or nowhere;
\* what the bookkeeping would put back does, too, and its run is past that edit.
EndsWithItsEdit(c, s, f) ==
  c \notin {Absent, Empty} =>
    Last(c) \in Edits /\ (HasLanded(Last(c)) => <<f, Last(c)>> \in landed[s])

IsSnapshot(c, s, f) ==
  /\ EndsWithItsEdit(c, s, f)
  /\ c \notin {Absent, Empty} => IsPast(Last(c)) \/ IsMaking(Last(c), s, f)

IsOldSnapshot(c, s, f) ==
  EndsWithItsEdit(c, s, f) /\ (c \notin {Absent, Empty} => IsPast(Last(c)))

AfterInv ==
  /\ \A s \in Sessions : \A f \in Files : \A c : c = box[s].after[f] => IsSnapshot(c, s, f)
  /\ \A r \in Runs : pc[r] \in Saved =>
       \A c, s, f : c = prev[r].after /\ s = cur[r] /\ f = Target(r) => IsOldSnapshot(c, s, f)

USE FilesAssumption, ActorsAssumption, BoundsAssumption
    DEF FilesAssumption, ActorsAssumption, BoundsAssumption

-----------------------------------------------------------------------------
\* Facts about contents.

LEMMA EditsAreWritten == Edits \subseteq Writers \X Nat
  BY DEF Edits, Writers

LEMMA AppendedTo ==
  ASSUME NEW c \in Contents, NEW e \in Writers \X Nat,
         NEW base, base = IF c = Absent THEN Empty ELSE c
  PROVE  /\ base \in Contents /\ Append(base, e) \in Contents
         /\ Append(base, e) # Empty /\ Last(Append(base, e)) = e
         /\ EditsIn(Append(base, e)) \subseteq EditsIn(c) \cup ({e} \cap Edits)
         /\ Append(base, e) # Absent => EditsIn(c) \subseteq EditsIn(Append(base, e))
<1>. DEFINE new == Append(base, e)
<1>1. base \in Seq(Writers \X Nat)
  BY EmptySeq DEF Contents, Empty
<1>2. /\ new \in Seq(Writers \X Nat) /\ new # Empty /\ Len(new) = Len(base) + 1
      /\ \A i \in 1 .. Len(base) : new[i] = base[i]
      /\ new[Len(base) + 1] = e
  BY <1>1, AppendProperties DEF Empty
<1>3. Len(base) \in Nat /\ DOMAIN base = 1 .. Len(base) /\ DOMAIN new = 1 .. Len(base) + 1
  BY <1>1, <1>2, LenProperties
<1>4. Last(new) = e
  BY <1>2 DEF Last
<1>5. c # Absent => EditsIn(c) = {base[i] : i \in 1 .. Len(base)} \cap Edits
  BY <1>3 DEF EditsIn, Edits
<1>6. c = Absent => EditsIn(c) = {}
  BY DEF EditsIn
<1>7. new # Absent => EditsIn(new) = {new[i] : i \in 1 .. Len(base) + 1} \cap Edits
  BY <1>3 DEF EditsIn, Edits
<1>8. new = Absent => EditsIn(new) = {}
  BY DEF EditsIn
<1>9. \A i \in 1 .. Len(base) + 1 : i \in 1 .. Len(base) \/ i = Len(base) + 1
  BY <1>3
<1>10. 1 .. Len(base) \subseteq 1 .. Len(base) + 1
  BY <1>3
<1>11. c = Absent => Len(base) = 0
  BY EmptySeq DEF Empty
<1>. HIDE DEF new
<1>12. EditsIn(new) \subseteq EditsIn(c) \cup ({e} \cap Edits)
  <2>1. SUFFICES ASSUME new # Absent, NEW i \in 1 .. Len(base) + 1, new[i] \in Edits
                 PROVE  new[i] \in EditsIn(c) \cup ({e} \cap Edits)
    BY <1>7, <1>8
  <2>2. CASE i = Len(base) + 1
    BY <1>2, <2>1, <2>2
  <2>3. CASE i \in 1 .. Len(base)
    <3>1. c # Absent /\ new[i] = base[i]
      BY <1>2, <1>3, <1>11, <2>3
    <3>. QED  BY <1>5, <2>1, <2>3, <3>1
  <2>. QED  BY <1>9, <2>2, <2>3
<1>13. new # Absent => EditsIn(c) \subseteq EditsIn(new)
  <2>1. SUFFICES ASSUME new # Absent, c # Absent, NEW i \in 1 .. Len(base), base[i] \in Edits
                 PROVE  base[i] \in EditsIn(new)
    BY <1>5, <1>6
  <2>2. new[i] = base[i] /\ i \in 1 .. Len(base) + 1
    BY <1>2, <1>10
  <2>. QED  BY <1>7, <2>1, <2>2
<1>. QED  BY <1>1, <1>2, <1>4, <1>12, <1>13 DEF Contents, new

LEMMA EditsOfNothing == EditsIn(Absent) = {} /\ EditsIn(Empty) = {}
<1>1. DOMAIN Empty = {}
  BY DEF Empty
<1>. QED  BY <1>1 DEF EditsIn

LEMMA SessionsAreNumbers ==
  /\ Cardinality(Runs) * Blocks \in Nat /\ Cardinality(Sessions) = Cardinality(Runs) * Blocks
  /\ Sessions \subseteq Nat \ {0}
<1>1. Cardinality(Runs) \in Nat
  BY FS_CardinalityType
<1>2. Cardinality(Runs) * Blocks \in Nat
  BY <1>1
<1>3. Cardinality(1 .. Cardinality(Runs) * Blocks) = Cardinality(Runs) * Blocks
  <2>. DEFINE n == Cardinality(Runs) * Blocks
  <2>1. n \in Nat
    BY <1>2
  <2>. HIDE DEF n
  <2>2. Cardinality(1 .. n) = n
    BY <2>1, FS_Interval
  <2>. QED  BY <2>2 DEF n
<1>. QED  BY <1>2, <1>3 DEF Sessions

\* There are as many sessions as blocks.
LEMMA EditsAreCounted ==
  ASSUME NEW S \in SUBSET Edits
  PROVE  IsFiniteSet(S) /\ Cardinality(S) \in Nat /\ Cardinality(S) <= Cardinality(Sessions)
<1>1. IsFiniteSet(1 .. Blocks) /\ Cardinality(1 .. Blocks) = Blocks
  BY FS_Interval
<1>2. IsFiniteSet(Edits) /\ Cardinality(Edits) = Cardinality(Runs) * Blocks
  BY <1>1, FS_Product DEF Edits
<1>3. IsFiniteSet(S) /\ Cardinality(S) <= Cardinality(Edits)
  BY <1>2, FS_Subset
<1>. QED  BY <1>2, <1>3, SessionsAreNumbers, FS_CardinalityType

-----------------------------------------------------------------------------
\* What the actions' common parts change.

LEMMA EndBlockTypes ==
  ASSUME Types, Stages, NEW r \in Runs, NEW failed \in BOOLEAN, EndBlock(r, failed),
         pc[r] # "over"
  PROVE  /\ pc' \in [Runs -> States] /\ block' \in [Runs -> 1 .. Blocks + 1]
         /\ mutex' \in Daemons \cup {Free}
         /\ pc'[r] \in {"idle", "over"} /\ block'[r] = block[r] + 1
         /\ pc'[r] # "over" => block'[r] <= Blocks
         /\ \A s \in Runs : s # r => pc'[s] = pc[s] /\ block'[s] = block[s]
<1>1. block[r] \in 1 .. Blocks
  BY DEF Types, Stages
<1>2. /\ block' = [block EXCEPT ![r] = @ + 1]
      /\ pc' = [pc EXCEPT ![r] = IF block[r] = Blocks \/ (failed /\ Kind[r] = "cli")
                                 THEN "over" ELSE "idle"]
      /\ ReleaseMutex(r)
  BY DEF EndBlock
<1>3. mutex' \in Daemons \cup {Free}
  BY <1>2 DEF ReleaseMutex, Types
<1>4. block' \in [Runs -> 1 .. Blocks + 1] /\ block'[r] = block[r] + 1
      /\ \A s \in Runs : s # r => block'[s] = block[s]
  BY <1>1, <1>2 DEF Types
<1>5. CASE block[r] = Blocks \/ (failed /\ Kind[r] = "cli")
  BY <1>1, <1>2, <1>3, <1>4, <1>5 DEF Types, States
<1>6. CASE ~(block[r] = Blocks \/ (failed /\ Kind[r] = "cli"))
  <2>1. block[r] # Blocks
    BY <1>6
  <2>2. block'[r] <= Blocks
    BY <1>1, <1>4, <2>1
  <2>3. pc' = [pc EXCEPT ![r] = "idle"]
    BY <1>2, <1>6
  <2>. QED  BY <1>3, <1>4, <2>2, <2>3 DEF Types, States
<1>. QED  BY <1>5, <1>6

\* A run goes on within its block.
LEMMA MovesTo ==
  ASSUME Types, NEW r \in Runs, NEW to \in States, pc' = [pc EXCEPT ![r] = to]
  PROVE  /\ pc' \in [Runs -> States] /\ pc'[r] = to
         /\ \A s \in Runs : s # r => pc'[s] = pc[s]
  BY DEF Types

\* One field of one session's box changes.
LEMMA BoxChanges ==
  ASSUME Types, NEW s \in Sessions, NEW b \in Boxes, box' = [box EXCEPT ![s] = b]
  PROVE  /\ box' \in [Sessions -> Boxes] /\ box'[s] = b
         /\ \A t \in Sessions : t # s => box'[t] = box[t]
  BY DEF Types

LEMMA BoxSetBefore ==
  ASSUME NEW b \in Boxes, NEW f \in Files, NEW c \in Contents
  PROVE  /\ [b EXCEPT !.before[f] = c] \in Boxes
         /\ [b EXCEPT !.before[f] = c].before = [b.before EXCEPT ![f] = c]
         /\ [b EXCEPT !.before[f] = c].after = b.after
         /\ [b EXCEPT !.before[f] = c].created = b.created
  BY DEF Boxes

LEMMA BoxSetAfter ==
  ASSUME NEW b \in Boxes, NEW f \in Files, NEW c \in Contents
  PROVE  /\ [b EXCEPT !.after[f] = c] \in Boxes
         /\ [b EXCEPT !.after[f] = c].after = [b.after EXCEPT ![f] = c]
         /\ [b EXCEPT !.after[f] = c].before = b.before
         /\ [b EXCEPT !.after[f] = c].created = b.created
  BY DEF Boxes

\* A mint is of a block that its run has not left.
LEMMA MintsStayCounted ==
  ASSUME Types, MintsAreCounted, minted' = minted,
         block' \in [Runs -> 1 .. Blocks + 1],
         \A r \in Runs : \/ block'[r] > block[r]
                         \/ /\ block'[r] = block[r]
                            /\ pc'[r] \in {"idle", "prepared"} => pc[r] \in {"idle", "prepared"}
  PROVE  MintsAreCounted'
<1>1. PICK S \in SUBSET Edits :
        /\ minted = Cardinality(S)
        /\ \A p \in S : \/ p[2] < block[p[1]]
                        \/ p[2] = block[p[1]] /\ pc[p[1]] \notin {"idle", "prepared"}
  BY DEF MintsAreCounted
<1>2. \A p \in S : p[1] \in Runs /\ p[2] \in Nat
  BY DEF Edits
<1>3. \A r \in Runs : block[r] \in Nat /\ block'[r] \in Nat
  BY DEF Types
<1>4. ASSUME NEW p \in S
      PROVE  \/ p[2] < block'[p[1]]
             \/ p[2] = block'[p[1]] /\ pc'[p[1]] \notin {"idle", "prepared"}
  BY <1>1, <1>2, <1>3
<1>. QED  BY <1>1, <1>4 DEF MintsAreCounted

\* A run goes on within its block: no mint is forgotten.
LEMMA MovesKeepsStages ==
  ASSUME TypeInv, NEW r \in Runs, NEW to \in States, pc' = [pc EXCEPT ![r] = to],
         pc[r] # "over", to # "over", pc[r] \notin {"idle", "prepared"} => to \notin {"idle", "prepared"},
         to \in Applying \cup {"session"} => cur'[r] \in Sessions,
         \A s \in Runs : s # r => cur'[s] = cur[s],
         block' = block, UNCHANGED <<upc, usession>>
  PROVE  Stages' /\ (minted' = minted => MintsAreCounted')
<1>1. Types /\ Stages /\ MintsAreCounted
  BY DEF TypeInv
<1>2. pc'[r] = to /\ \A s \in Runs : s # r => pc'[s] = pc[s]
  BY <1>1, MovesTo
<1>3. Stages'
  BY <1>1, <1>2 DEF Stages
<1>4. block' \in [Runs -> 1 .. Blocks + 1]
  BY <1>1 DEF Types
<1>5. \A s \in Runs : /\ block'[s] = block[s]
                      /\ pc'[s] \in {"idle", "prepared"} => pc[s] \in {"idle", "prepared"}
  BY <1>2
<1>6. minted' = minted => MintsAreCounted'
  BY <1>1, <1>4, <1>5, MintsStayCounted
<1>. QED  BY <1>3, <1>6

LEMMA EndBlockKeepsStages ==
  ASSUME TypeInv, NEW r \in Runs, NEW failed \in BOOLEAN, EndBlock(r, failed), pc[r] # "over",
         cur' = cur, minted' = minted, UNCHANGED <<upc, usession>>
  PROVE  Stages' /\ MintsAreCounted'
<1>1. Types /\ Stages /\ MintsAreCounted
  BY DEF TypeInv
<1>2. /\ block' \in [Runs -> 1 .. Blocks + 1]
      /\ pc'[r] \in {"idle", "over"} /\ block'[r] = block[r] + 1
      /\ pc'[r] # "over" => block'[r] <= Blocks
      /\ \A s \in Runs : s # r => pc'[s] = pc[s] /\ block'[s] = block[s]
  BY <1>1, EndBlockTypes
<1>3. Stages'
  BY <1>1, <1>2 DEF Stages, Applying
<1>4. \A s \in Runs : block[s] \in Nat
  BY <1>1 DEF Types
<1>5. \A s \in Runs : \/ block'[s] > block[s]
                      \/ /\ block'[s] = block[s]
                         /\ pc'[s] \in {"idle", "prepared"} => pc[s] \in {"idle", "prepared"}
  BY <1>2, <1>4
<1>6. MintsAreCounted'
  BY <1>1, <1>2, <1>5, MintsStayCounted
<1>. QED  BY <1>3, <1>6

-----------------------------------------------------------------------------
\* The types, step by step.

LEMMA PrepareKeepsTypeInv ==
  ASSUME TypeInv, NEW r \in Runs, Prepare(r)
  PROVE  TypeInv'
<1>. USE DEF States
<1>1. Types
  BY DEF TypeInv
<1>2. /\ pc[r] = "idle" /\ pc' = [pc EXCEPT ![r] = "prepared"]
      /\ UNCHANGED <<disk, kept, minted, fresh, box, lock, block, dir, cur, prev, upc, usession,
                     batch, forced, landed, userEdits, faults>>
  BY DEF Prepare, storeVars, undoVars, ghostVars, countVars
<1>3. prep' \in [Runs -> [file : Files, original : Contents]]
  <2>1. PICK f \in Files : prep' = [prep EXCEPT ![r] = [file |-> f, original |-> disk[f]]]
    BY DEF Prepare
  <2>2. disk[f] \in Contents /\ prep \in [Runs -> [file : Files, original : Contents]]
    BY <1>1 DEF Types
  <2>3. [file |-> f, original |-> disk[f]] \in [file : Files, original : Contents]
    BY <2>2
  <2>. QED  BY <2>1, <2>2, <2>3
<1>4. mutex' \in Daemons \cup {Free}
  BY <1>1 DEF Prepare, Types, Daemons
<1>5. pc' \in [Runs -> States]
  BY <1>1, <1>2, MovesTo
<1>6. Types'
  BY <1>1, <1>2, <1>3, <1>4, <1>5 DEF Types
<1>7. Stages' /\ MintsAreCounted'
  BY <1>2, MovesKeepsStages DEF Applying
<1>. QED  BY <1>6, <1>7 DEF TypeInv

\* The blocks that end with nothing but their count.
LEMMA EndsKeepsTypeInv ==
  ASSUME TypeInv, NEW r \in Runs, Decline(r) \/ MintFails(r) \/ RefuseStale(r)
  PROVE  TypeInv'
<1>1. Types /\ Stages
  BY DEF TypeInv
<1>2. /\ pc[r] # "over" /\ \E failed \in BOOLEAN : EndBlock(r, failed)
      /\ UNCHANGED <<disk, kept, minted, fresh, box, lock, prep, dir, cur, prev, upc, usession,
                     batch, forced, landed, userEdits>>
  BY DEF Decline, MintFails, RefuseStale, storeVars, undoVars, ghostVars, countVars
<1>3. faults' \in Nat
  <2>1. faults' = faults \/ faults' = faults + 1
    BY DEF Decline, MintFails, RefuseStale, Fault, countVars
  <2>. QED  BY <1>1, <2>1 DEF Types
<1>4. /\ pc' \in [Runs -> States] /\ block' \in [Runs -> 1 .. Blocks + 1]
      /\ mutex' \in Daemons \cup {Free}
  BY <1>1, <1>2, EndBlockTypes
<1>5. Types'
  BY <1>1, <1>2, <1>3, <1>4 DEF Types
<1>6. Stages' /\ MintsAreCounted'
  BY <1>2, EndBlockKeepsStages
<1>. QED  BY <1>5, <1>6 DEF TypeInv

LEMMA ReuseSessionKeepsTypeInv ==
  ASSUME TypeInv, NEW r \in Runs, ReuseSession(r)
  PROVE  TypeInv'
<1>. USE DEF States
<1>1. Types
  BY DEF TypeInv
<1>2. /\ pc[r] = "prepared" /\ pc' = [pc EXCEPT ![r] = "session"]
      /\ cur' = [cur EXCEPT ![r] = dir[r]]
      /\ UNCHANGED <<disk, kept, minted, fresh, box, lock, mutex, block, prep, dir, prev, upc,
                     usession, batch, forced, landed, userEdits, faults>>
  BY DEF ReuseSession, storeVars, undoVars, ghostVars, countVars
<1>3. dir[r] \in Sessions
  BY <1>1 DEF ReuseSession, HasSession, Types
<1>4. /\ cur' \in [Runs -> Sessions \cup {0}]
      /\ cur'[r] = dir[r] /\ \A s \in Runs : s # r => cur'[s] = cur[s]
  BY <1>1, <1>2, <1>3 DEF Types
<1>7. pc' \in [Runs -> States]
  BY <1>1, <1>2, MovesTo
<1>5. Types'
  BY <1>1, <1>2, <1>4, <1>7 DEF Types
<1>6. Stages' /\ MintsAreCounted'
  BY <1>2, <1>3, <1>4, MovesKeepsStages
<1>. QED  BY <1>5, <1>6 DEF TypeInv

\* A session is minted: for this block, which has none yet.
LEMMA MintSessionKeepsTypeInv ==
  ASSUME TypeInv, NEW r \in Runs, MintSession(r)
  PROVE  TypeInv' /\ minted + 1 \in Sessions
<1>. USE DEF States
<1>. DEFINE s == minted + 1
<1>1. Types /\ Stages /\ MintsAreCounted
  BY DEF TypeInv
<1>2. /\ pc[r] = "prepared" /\ minted' = s /\ pc' = [pc EXCEPT ![r] = "session"]
      /\ cur' = [cur EXCEPT ![r] = s]
      /\ fresh' = fresh \cup {s} /\ kept' \subseteq kept \cup {s}
      /\ dir' = [dir EXCEPT ![r] = IF Kind[r] = "daemon" THEN @ ELSE s]
      /\ box' = [t \in Sessions |-> IF t \in Prunable(kept \cup {s}) THEN EmptyBox ELSE box[t]]
      /\ UNCHANGED <<disk, lock, mutex, block, prep, prev, upc, usession, batch, forced, landed,
                     userEdits, faults>>
  BY DEF MintSession, undoVars, ghostVars, countVars
<1>3. PICK S \in SUBSET Edits :
        /\ minted = Cardinality(S)
        /\ \A p \in S : \/ p[2] < block[p[1]]
                        \/ p[2] = block[p[1]] /\ pc[p[1]] \notin {"idle", "prepared"}
  BY <1>1 DEF MintsAreCounted
<1>. DEFINE T == S \cup {Change(r)}
<1>4. block[r] \in 1 .. Blocks
  <2>1. block[r] \in 1 .. Blocks + 1
    BY <1>1 DEF Types
  <2>2. block[r] <= Blocks
    BY <1>1, <1>2 DEF Stages
  <2>. QED  BY <2>1, <2>2
<1>5. T \in SUBSET Edits /\ Change(r) \notin S
  BY <1>2, <1>3, <1>4 DEF Change, Edits
<1>6. Cardinality(T) = s
  BY <1>3, <1>5, EditsAreCounted, FS_AddElement
<1>7. s \in Sessions
  <2>1. Cardinality(T) <= Cardinality(Sessions)
    BY <1>5, EditsAreCounted
  <2>2. minted \in Nat
    BY <1>1 DEF Types
  <2>. HIDE DEF T
  <2>3. minted + 1 <= Cardinality(Sessions)
    BY <1>6, <2>1
  <2>. QED  BY <2>2, <2>3, SessionsAreNumbers DEF Sessions
<1>8. pc'[r] = "session" /\ pc' \in [Runs -> States] /\ \A t \in Runs : t # r => pc'[t] = pc[t]
  BY <1>1, <1>2, MovesTo
<1>9. ASSUME NEW p \in T
      PROVE  \/ p[2] < block'[p[1]]
             \/ p[2] = block'[p[1]] /\ pc'[p[1]] \notin {"idle", "prepared"}
  <2>1. CASE p \in S
    <3>1. p[1] \in Runs
      BY <2>1 DEF Edits
    <3>. QED  BY <1>2, <1>3, <1>8, <2>1, <3>1
  <2>2. CASE p = Change(r)
    BY <1>2, <1>8, <2>2 DEF Change
  <2>. QED  BY <2>1, <2>2
<1>. HIDE DEF T, s
<1>10. MintsAreCounted'
  BY <1>2, <1>5, <1>6, <1>9 DEF MintsAreCounted
<1>11. EmptyBox \in Boxes
  BY DEF EmptyBox, Boxes, Contents
<1>12. box' \in [Sessions -> Boxes]
  BY <1>1, <1>2, <1>11 DEF Types
<1>13. /\ dir' \in [Runs -> Sessions \cup {0}] /\ cur' \in [Runs -> Sessions \cup {0}]
       /\ cur'[r] = s /\ \A t \in Runs : t # r => cur'[t] = cur[t]
  BY <1>1, <1>2, <1>7 DEF Types
<1>14. s \in Nat
  BY <1>7, SessionsAreNumbers
<1>15. Types'
  BY <1>1, <1>2, <1>7, <1>8, <1>12, <1>13, <1>14 DEF Types
<1>16. Stages'
  BY <1>2, <1>7, <1>13, MovesKeepsStages
<1>17. minted + 1 \in Sessions
  BY <1>7 DEF s
<1>. QED  BY <1>10, <1>15, <1>16, <1>17 DEF TypeInv

LEMMA BeginApplyKeepsTypeInv ==
  ASSUME TypeInv, NEW r \in Runs, BeginApply(r)
  PROVE  TypeInv'
<1>. USE DEF States
<1>1. Types /\ Stages
  BY DEF TypeInv
<1>2. /\ pc[r] = "session" /\ pc' = [pc EXCEPT ![r] = "verified"] /\ lock' = r
      /\ UNCHANGED <<disk, kept, minted, fresh, box, mutex, block, prep, dir, cur, prev, upc,
                     usession, batch, forced, landed, userEdits, faults>>
  BY DEF BeginApply, storeVars, undoVars, ghostVars, countVars
<1>3. pc' \in [Runs -> States]
  BY <1>1, <1>2, MovesTo
<1>4. Types'
  BY <1>1, <1>2, <1>3 DEF Types
<1>5. Stages' /\ MintsAreCounted'
  BY <1>1, <1>2, MovesKeepsStages DEF Stages
<1>. QED  BY <1>4, <1>5 DEF TypeInv

\* The target, what it was read as, and what it becomes.
LEMMA TargetTypes ==
  ASSUME TypeInv, NEW r \in Runs, pc[r] # "over"
  PROVE  /\ Target(r) \in Files /\ prep[r].original \in Contents
         /\ Change(r) \in Edits /\ ContentFound(r) \in Contents /\ NewContent(r) \in Contents
         /\ NewContent(r) # Empty /\ Last(NewContent(r)) = Change(r)
         /\ EditsIn(NewContent(r)) \subseteq EditsIn(prep[r].original) \cup {Change(r)}
         /\ NewContent(r) # Absent => EditsIn(prep[r].original) \subseteq EditsIn(NewContent(r))
         /\ EditsIn(ContentFound(r)) \subseteq EditsIn(prep[r].original)
<1>1. Types /\ Stages
  BY DEF TypeInv
<1>2. Target(r) \in Files /\ prep[r].original \in Contents
  BY <1>1 DEF Types, Target
<1>3. block[r] \in 1 .. Blocks
  BY <1>1 DEF Types, Stages
<1>4. Change(r) \in Edits /\ Change(r) \in Writers \X Nat
  BY <1>3, EditsAreWritten DEF Change, Edits
<1>5. ContentFound(r) = IF prep[r].original = Absent THEN Empty ELSE prep[r].original
  BY DEF ContentFound, Creates
<1>6. NewContent(r) = Append(ContentFound(r), Change(r))
  BY DEF NewContent
<1>7. EditsIn(ContentFound(r)) \subseteq EditsIn(prep[r].original)
  BY <1>5, EditsOfNothing
<1>8. {Change(r)} \cap Edits = {Change(r)}
  BY <1>4
<1>9. /\ ContentFound(r) \in Contents /\ NewContent(r) \in Contents
      /\ NewContent(r) # Empty /\ Last(NewContent(r)) = Change(r)
      /\ EditsIn(NewContent(r)) \subseteq EditsIn(prep[r].original) \cup ({Change(r)} \cap Edits)
      /\ NewContent(r) # Absent => EditsIn(prep[r].original) \subseteq EditsIn(NewContent(r))
  <2>. DEFINE base == ContentFound(r)
              old  == prep[r].original
              e    == Change(r)
  <2>1. old \in Contents /\ e \in Writers \X Nat /\ base = IF old = Absent THEN Empty ELSE old
    BY <1>2, <1>4, <1>5
  <2>. HIDE DEF base, old, e
  <2>2. /\ base \in Contents /\ Append(base, e) \in Contents
        /\ Append(base, e) # Empty /\ Last(Append(base, e)) = e
        /\ EditsIn(Append(base, e)) \subseteq EditsIn(old) \cup ({e} \cap Edits)
        /\ Append(base, e) # Absent => EditsIn(old) \subseteq EditsIn(Append(base, e))
    BY <2>1, AppendedTo
  <2>. QED  BY Zenon, <1>6, <2>2 DEF base, old, e
<1>. QED  BY <1>2, <1>4, <1>7, <1>8, <1>9

LEMMA SaveBeforeKeepsTypeInv ==
  ASSUME TypeInv, NEW r \in Runs, SaveBefore(r)
  PROVE  /\ TypeInv'
         /\ \A s \in Sessions : \A f \in Files :
              /\ box'[s].after[f] = box[s].after[f]
              /\ box'[s].before[f] \in {box[s].before[f], ContentFound(r)}
<1>. USE DEF States
<1>. DEFINE c == cur[r]  f == Target(r)
            b == [box[c] EXCEPT !.before[f] = IF @ = Absent THEN ContentFound(r) ELSE @]
<1>1. Types /\ Stages
  BY DEF TypeInv
<1>2. /\ pc[r] = "verified" /\ pc' = [pc EXCEPT ![r] = "before kept"]
      /\ kept' = kept \cup {c} /\ BackupOriginal(r)
      /\ UNCHANGED <<disk, minted, fresh, lock, mutex, block, prep, dir, cur, prev, upc,
                     usession, batch, forced, landed, userEdits, faults>>
  BY DEF SaveBefore, undoVars, ghostVars, countVars
<1>3. c \in Sessions /\ f \in Files /\ ContentFound(r) \in Contents /\ box[c] \in Boxes
  BY <1>1, <1>2, TargetTypes DEF Stages, Applying, Types
<1>4. box' = [box EXCEPT ![c] = b]
  BY <1>2 DEF BackupOriginal
<1>5. /\ b \in Boxes /\ b.after = box[c].after
      /\ \A g \in Files : b.before[g] \in {box[c].before[g], ContentFound(r)}
  BY <1>3 DEF Boxes
<1>. HIDE DEF b, c, f
<1>6. /\ box' \in [Sessions -> Boxes] /\ box'[c] = b
      /\ \A s \in Sessions : s # c => box'[s] = box[s]
  BY <1>1, <1>3, <1>4, <1>5, BoxChanges
<1>7. pc' \in [Runs -> States]
  BY <1>1, <1>2, MovesTo
<1>8. Types'
  BY <1>1, <1>2, <1>3, <1>6, <1>7 DEF Types
<1>9. Stages' /\ MintsAreCounted'
  BY <1>1, <1>2, <1>3, MovesKeepsStages DEF c
<1>. QED  BY <1>5, <1>6, <1>8, <1>9 DEF TypeInv

LEMMA SaveAfterKeepsTypeInv ==
  ASSUME TypeInv, NEW r \in Runs, SaveAfter(r)
  PROVE  /\ TypeInv'
         /\ cur[r] \in Sessions /\ Target(r) \in Files
         /\ \A s \in Sessions : \A f \in Files :
              box'[s].after[f] = IF s = cur[r] /\ f = Target(r) THEN NewContent(r)
                                 ELSE box[s].after[f]
         /\ prev'[r].after = box[cur[r]].after[Target(r)]
         /\ \A s \in Runs : s # r => prev'[s] = prev[s]
         /\ pc'[r] \in {"after kept", "ready"} /\ \A s \in Runs : s # r => pc'[s] = pc[s]
<1>. USE DEF States
<1>. DEFINE c == cur[r]  f == Target(r)
            b == [box[c] EXCEPT !.after[f] = NewContent(r)]
            p == [after |-> box[c].after[f], created |-> box[c].created]
            to == IF Creates(r) THEN "after kept" ELSE "ready"
<1>1. Types /\ Stages
  BY DEF TypeInv
<1>2. /\ pc[r] = "before kept" /\ pc' = [pc EXCEPT ![r] = to]
      /\ prev' = [prev EXCEPT ![r] = p] /\ box' = [box EXCEPT ![c] = b]
      /\ UNCHANGED <<disk, kept, minted, fresh, lock, mutex, block, prep, dir, cur, upc,
                     usession, batch, forced, landed, userEdits, faults>>
  BY DEF SaveAfter, storeVars, undoVars, ghostVars, countVars
<1>3. c \in Sessions /\ f \in Files /\ NewContent(r) \in Contents /\ box[c] \in Boxes
  BY <1>1, <1>2, TargetTypes DEF Stages, Applying, Types
<1>4. to \in {"after kept", "ready"}
  OBVIOUS
<1>5. /\ b \in Boxes /\ b.before = box[c].before
      /\ b.after = [box[c].after EXCEPT ![f] = NewContent(r)]
  BY <1>3, BoxSetAfter
<1>6. p \in [after : Contents, created : SUBSET Files] /\ p.after = box[c].after[f]
  BY <1>3 DEF Boxes
<1>7. box[c].after \in [Files -> Contents]
  BY <1>3 DEF Boxes
<1>. HIDE DEF b, p, to
<1>8. /\ box' \in [Sessions -> Boxes] /\ box'[c] = b
      /\ \A s \in Sessions : s # c => box'[s] = box[s]
  BY <1>1, <1>2, <1>3, <1>5, BoxChanges
<1>9. /\ prev' \in [Runs -> [after : Contents, created : SUBSET Files]] /\ prev'[r] = p
      /\ \A s \in Runs : s # r => prev'[s] = prev[s]
  BY <1>1, <1>2, <1>6 DEF Types
<1>10. /\ pc' \in [Runs -> States] /\ pc'[r] = to
       /\ \A s \in Runs : s # r => pc'[s] = pc[s]
  BY <1>1, <1>2, <1>4, MovesTo
<1>11. Types'
  BY <1>1, <1>2, <1>8, <1>9, <1>10 DEF Types
<1>12. Stages' /\ MintsAreCounted'
  BY <1>2, <1>3, <1>4, MovesKeepsStages
<1>13. \A s \in Sessions : \A g \in Files :
         box'[s].after[g] = IF s = c /\ g = f THEN NewContent(r) ELSE box[s].after[g]
  BY <1>3, <1>5, <1>7, <1>8
<1>. QED  BY <1>3, <1>4, <1>6, <1>9, <1>10, <1>11, <1>12, <1>13 DEF TypeInv

LEMMA SaveAfterLeavesBefore ==
  ASSUME TypeInv, NEW r \in Runs, SaveAfter(r)
  PROVE  \A s \in Sessions : \A f \in Files : box'[s].before[f] = box[s].before[f]
<1>. DEFINE c == cur[r]
            b == [box[c] EXCEPT !.after[Target(r)] = NewContent(r)]
<1>1. Types
  BY DEF TypeInv
<1>2. box' = [box EXCEPT ![c] = b]
  BY DEF SaveAfter
<1>3. \A s \in Sessions : box[s] \in Boxes
  BY <1>1 DEF Types
<1>4. c \in Sessions => b.before = box[c].before
  BY <1>3 DEF Boxes
<1>. HIDE DEF b, c
<1>5. \A s \in Sessions : box'[s] = IF s = c THEN b ELSE box[s]
  BY <1>1, <1>2 DEF Types
<1>. QED  BY <1>4, <1>5

LEMMA SaveCreatedKeepsTypeInv ==
  ASSUME TypeInv, NEW r \in Runs, SaveCreated(r)
  PROVE  /\ TypeInv'
         /\ \A s \in Sessions : box'[s].before = box[s].before /\ box'[s].after = box[s].after
<1>. USE DEF States
<1>. DEFINE c == cur[r]
            b == [box[c] EXCEPT !.created = @ \cup {Target(r)}]
<1>1. Types /\ Stages
  BY DEF TypeInv
<1>2. /\ pc[r] = "after kept" /\ pc' = [pc EXCEPT ![r] = "ready"]
      /\ box' = [box EXCEPT ![c] = b]
      /\ UNCHANGED <<disk, kept, minted, fresh, lock, mutex, block, prep, dir, cur, prev, upc,
                     usession, batch, forced, landed, userEdits, faults>>
  BY DEF SaveCreated, storeVars, undoVars, ghostVars, countVars
<1>3. c \in Sessions /\ Target(r) \in Files /\ box[c] \in Boxes
  BY <1>1, <1>2, TargetTypes DEF Stages, Applying, Types
<1>4. b \in Boxes /\ b.before = box[c].before /\ b.after = box[c].after
  BY <1>3 DEF Boxes
<1>. HIDE DEF b
<1>5. /\ box' \in [Sessions -> Boxes] /\ box'[c] = b
      /\ \A s \in Sessions : s # c => box'[s] = box[s]
  BY <1>1, <1>2, <1>3, <1>4, BoxChanges
<1>6. pc' \in [Runs -> States]
  BY <1>1, <1>2, MovesTo
<1>7. Types'
  BY <1>1, <1>2, <1>5, <1>6 DEF Types
<1>8. Stages' /\ MintsAreCounted'
  BY <1>2, <1>3, MovesKeepsStages
<1>. QED  BY <1>4, <1>5, <1>7, <1>8 DEF TypeInv

\* Whatever part of the bookkeeping fails, before/ is left as it was, absent or
\* empty, and after/ as it was, empty, or what the bookkeeping had found there.
LEMMA BackupFailsKeepsTypeInv ==
  ASSUME TypeInv, NEW r \in Runs, BackupFails(r)
  PROVE  /\ TypeInv'
         /\ pc[r] \in Applying /\ cur[r] \in Sessions
         /\ \A s \in Sessions : \A f \in Files :
              /\ box'[s].before[f] \in {box[s].before[f], Absent, Empty}
              /\ \/ box'[s].after[f] \in {box[s].after[f], Empty}
                 \/ /\ s = cur[r] /\ f = Target(r) /\ pc[r] = "after kept"
                    /\ box'[s].after[f] = prev[r].after
<1>. DEFINE c == cur[r]  f == Target(r)
<1>1. Types /\ Stages
  BY DEF TypeInv
<1>2. /\ faults' = faults + 1 /\ lock' = Free /\ EndBlock(r, TRUE)
      /\ UNCHANGED <<disk, minted, fresh, prep, dir, cur, prev, upc, usession, batch, forced,
                     landed, userEdits>>
  BY DEF BackupFails, Fault, undoVars, ghostVars
<1>3. \/ /\ pc[r] = "verified"
         /\ \E d \in {Absent, Empty} : box' = [box EXCEPT ![c].before[f] = d]
         /\ kept' = kept \cup {c}
      \/ /\ pc[r] = "before kept" /\ kept' = kept
         /\ \E d \in {box[c].after[f], Empty} : box' = [box EXCEPT ![c].after[f] = d]
      \/ /\ pc[r] = "after kept" /\ kept' = kept
         /\ \E k \in SUBSET (box[c].created \cup {f}), a \in {prev[r].after, box[c].after[f]} :
              box' = [box EXCEPT ![c] = [@ EXCEPT !.created = k, !.after[f] = a]]
  BY DEF BackupFails
<1>4. pc[r] \in Applying
  BY <1>3 DEF Applying
<1>5. c \in Sessions /\ f \in Files /\ box[c] \in Boxes
  BY <1>1, <1>4, TargetTypes DEF Stages, Applying, Types
<1>6. Empty \in Contents /\ Absent \in Contents /\ prev[r].after \in Contents
  BY <1>1, EmptySeq DEF Contents, Empty, Types
<1>7. box[c].after \in [Files -> Contents] /\ box[c].before \in [Files -> Contents]
  BY <1>5 DEF Boxes
<1>8. PICK b \in Boxes :
        /\ box' = [box EXCEPT ![c] = b]
        /\ \A g \in Files :
             /\ b.before[g] \in {box[c].before[g], Absent, Empty}
             /\ \/ b.after[g] \in {box[c].after[g], Empty}
                \/ g = f /\ pc[r] = "after kept" /\ b.after[g] = prev[r].after
  <2>1. CASE /\ pc[r] = "verified"
             /\ \E d \in {Absent, Empty} : box' = [box EXCEPT ![c].before[f] = d]
    <3>1. PICK d \in {Absent, Empty} : box' = [box EXCEPT ![c] = [box[c] EXCEPT !.before[f] = d]]
      BY <2>1
    <3>2. /\ [box[c] EXCEPT !.before[f] = d] \in Boxes
          /\ [box[c] EXCEPT !.before[f] = d].before = [box[c].before EXCEPT ![f] = d]
          /\ [box[c] EXCEPT !.before[f] = d].after = box[c].after
      BY <1>5, <1>6, BoxSetBefore
    <3>. QED  BY <1>7, <2>1, <3>1, <3>2
  <2>2. CASE /\ pc[r] = "before kept"
             /\ \E d \in {box[c].after[f], Empty} : box' = [box EXCEPT ![c].after[f] = d]
    <3>1. PICK d \in {box[c].after[f], Empty} :
            box' = [box EXCEPT ![c] = [box[c] EXCEPT !.after[f] = d]]
      BY <2>2
    <3>2. d \in Contents
      BY <1>5, <1>6, <1>7
    <3>. DEFINE b == [box[c] EXCEPT !.after[f] = d]
    <3>3. b \in Boxes /\ b.after = [box[c].after EXCEPT ![f] = d] /\ b.before = box[c].before
      BY <1>5, <3>2, BoxSetAfter
    <3>. HIDE DEF b
    <3>4. \A g \in Files : b.after[g] \in {box[c].after[g], Empty}
      BY <1>7, <3>1, <3>3
    <3>. QED  BY <3>1, <3>3, <3>4 DEF b
  <2>3. CASE /\ pc[r] = "after kept"
             /\ \E k \in SUBSET (box[c].created \cup {f}), a \in {prev[r].after, box[c].after[f]} :
                  box' = [box EXCEPT ![c] = [@ EXCEPT !.created = k, !.after[f] = a]]
    <3>1. PICK k \in SUBSET (box[c].created \cup {f}), a \in {prev[r].after, box[c].after[f]} :
            box' = [box EXCEPT ![c] = [box[c] EXCEPT !.created = k, !.after[f] = a]]
      BY <2>3
    <3>2. a \in Contents /\ k \subseteq Files
      BY <1>5, <1>6, <1>7 DEF Boxes
    <3>3. PICK d : d = [box[c] EXCEPT !.created = k, !.after[f] = a]
      OBVIOUS
    <3>4. d \in Boxes /\ d.after = [box[c].after EXCEPT ![f] = a] /\ d.before = box[c].before
      <4>1. PICK e \in Boxes : e = box[c]
        BY <1>5
      <4>2. PICK g \in Files : g = f
        BY <1>5
      <4>3. d = [[e EXCEPT !.created = k] EXCEPT !.after[g] = a]
        BY <3>3, <4>1, <4>2, Zenon
      <4>4. PICK l : l = [e EXCEPT !.created = k]
        OBVIOUS
      <4>5. l \in Boxes /\ l.after = e.after /\ l.before = e.before
        BY <3>2, <4>4 DEF Boxes
      <4>6. d = [l EXCEPT !.after[g] = a]
        BY <4>3, <4>4, Zenon
      <4>7. /\ [l EXCEPT !.after[g] = a] \in Boxes
            /\ [l EXCEPT !.after[g] = a].after = [l.after EXCEPT ![g] = a]
            /\ [l EXCEPT !.after[g] = a].before = l.before
        BY <3>2, <4>5, BoxSetAfter
      <4>8. d \in Boxes /\ d.after = [l.after EXCEPT ![g] = a] /\ d.before = l.before
        BY <4>6, <4>7, Zenon
      <4>. QED  BY <4>1, <4>2, <4>5, <4>8, Zenon
    <3>5. \A g \in Files : d.after[g] = IF g = f THEN a ELSE box[c].after[g]
      BY <1>7, <3>4
    <3>6. box' = [box EXCEPT ![c] = d]
      BY <3>1, <3>3
    <3>. QED  BY <2>3, <3>4, <3>5, <3>6
  <2>. QED  BY <1>3, <2>1, <2>2, <2>3
<1>9. /\ box' \in [Sessions -> Boxes] /\ box'[c] = b
      /\ \A s \in Sessions : s # c => box'[s] = box[s]
  BY <1>1, <1>5, <1>8, BoxChanges
<1>10. /\ pc' \in [Runs -> States] /\ block' \in [Runs -> 1 .. Blocks + 1]
       /\ mutex' \in Daemons \cup {Free}
  BY <1>1, <1>2, <1>4, EndBlockTypes DEF Applying
<1>11. kept' \subseteq Sessions
  BY <1>1, <1>3, <1>5 DEF Types
<1>12. faults' \in Nat
  BY <1>1, <1>2 DEF Types
<1>13. Types'
  BY <1>1, <1>2, <1>9, <1>10, <1>11, <1>12 DEF Types
<1>14. Stages' /\ MintsAreCounted'
  BY <1>2, <1>4, EndBlockKeepsStages DEF Applying
<1>. HIDE DEF c, f
<1>15. ASSUME NEW s \in Sessions, NEW g \in Files
       PROVE  /\ box'[s].before[g] \in {box[s].before[g], Absent, Empty}
              /\ \/ box'[s].after[g] \in {box[s].after[g], Empty}
                 \/ /\ s = c /\ g = f /\ pc[r] = "after kept"
                    /\ box'[s].after[g] = prev[r].after
  <2>1. CASE s = c
    BY <1>8, <1>9, <2>1
  <2>2. CASE s # c
    BY <1>9, <2>2
  <2>. QED  BY <2>1, <2>2
<1>. QED  BY <1>4, <1>5, <1>13, <1>14, <1>15 DEF TypeInv, c, f

LEMMA WriteFileKeepsTypeInv ==
  ASSUME TypeInv, NEW r \in Runs, WriteFile(r)
  PROVE  /\ TypeInv'
         /\ cur[r] \in Sessions /\ Target(r) \in Files
         /\ \A f \in Files : disk'[f] = IF f = Target(r) THEN NewContent(r) ELSE disk[f]
         /\ \A s \in Sessions :
              landed'[s] = IF s = cur[r] THEN landed[s] \cup {<<Target(r), Change(r)>>}
                           ELSE landed[s]
<1>. DEFINE c == cur[r]  f == Target(r)
<1>1. Types /\ Stages
  BY DEF TypeInv
<1>2. /\ pc[r] = "ready" /\ lock' = Free /\ EndBlock(r, FALSE)
      /\ disk' = [disk EXCEPT ![f] = NewContent(r)]
      /\ landed' = [landed EXCEPT ![c] = @ \cup {<<f, Change(r)>>}]
      /\ dir' = [dir EXCEPT ![r] = IF @ = 0 THEN c ELSE @]
      /\ UNCHANGED <<kept, minted, fresh, box, prep, cur, prev, upc, usession, batch, forced,
                     userEdits, faults>>
  BY DEF WriteFile, storeVars, undoVars, countVars
<1>3. /\ c \in Sessions /\ f \in Files /\ NewContent(r) \in Contents /\ Change(r) \in Edits
      /\ pc[r] # "over"
  BY <1>1, <1>2, TargetTypes DEF Stages, Applying, Types
<1>4. /\ disk' \in [Files -> Contents]
      /\ \A g \in Files : disk'[g] = IF g = f THEN NewContent(r) ELSE disk[g]
  BY <1>1, <1>2, <1>3 DEF Types
<1>5. /\ landed' \in [Sessions -> SUBSET (Files \X Edits)]
      /\ \A s \in Sessions :
           landed'[s] = IF s = c THEN landed[s] \cup {<<f, Change(r)>>} ELSE landed[s]
  <2>. DEFINE l == landed[c] \cup {<<f, Change(r)>>}
  <2>1. landed \in [Sessions -> SUBSET (Files \X Edits)] /\ landed' = [landed EXCEPT ![c] = l]
    BY <1>1, <1>2 DEF Types
  <2>2. l \in SUBSET (Files \X Edits)
    BY <1>3, <2>1
  <2>. HIDE DEF l, c, f
  <2>3. /\ landed' \in [Sessions -> SUBSET (Files \X Edits)]
        /\ \A s \in Sessions : landed'[s] = IF s = c THEN l ELSE landed[s]
    BY <1>3, <2>1, <2>2
  <2>. QED  BY <2>3 DEF l
<1>6. dir' \in [Runs -> Sessions \cup {0}]
  BY <1>1, <1>2, <1>3 DEF Types
<1>7. /\ pc' \in [Runs -> States] /\ block' \in [Runs -> 1 .. Blocks + 1]
      /\ mutex' \in Daemons \cup {Free}
  BY <1>1, <1>2, <1>3, EndBlockTypes
<1>8. Types'
  BY <1>1, <1>2, <1>4, <1>5, <1>6, <1>7 DEF Types
<1>9. Stages' /\ MintsAreCounted'
  BY <1>2, <1>3, EndBlockKeepsStages
<1>. QED  BY <1>3, <1>4, <1>5, <1>8, <1>9 DEF TypeInv

LEMMA WriteFailsKeepsTypeInv ==
  ASSUME TypeInv, NEW r \in Runs, WriteFails(r)
  PROVE  /\ TypeInv'
         /\ cur[r] \in Sessions
         /\ \A s \in Sessions : \A f \in Files :
              /\ box'[s].before[f] = box[s].before[f]
              /\ \/ box'[s].after[f] = box[s].after[f]
                 \/ /\ s = cur[r] /\ f = Target(r)
                    /\ box'[s].after[f] = prev[r].after
<1>. DEFINE c == cur[r]  f == Target(r)
            put == [box[c] EXCEPT !.after[f] = prev[r].after, !.created = prev[r].created]
<1>1. Types /\ Stages
  BY DEF TypeInv
<1>2. /\ pc[r] = "ready" /\ faults' = faults + 1 /\ lock' = Free /\ EndBlock(r, TRUE)
      /\ \E b \in {box[c], put} : box' = [box EXCEPT ![c] = b]
      /\ UNCHANGED <<disk, kept, minted, fresh, prep, dir, cur, prev, upc, usession, batch, forced,
                     landed, userEdits>>
  BY DEF WriteFails, Fault, storeVars, undoVars, ghostVars
<1>3. c \in Sessions /\ f \in Files /\ box[c] \in Boxes /\ pc[r] # "over"
  BY <1>1, <1>2, TargetTypes DEF Stages, Applying, Types
<1>4. prev[r] \in [after : Contents, created : SUBSET Files]
  BY <1>1 DEF Types
<1>5. /\ put \in Boxes /\ put.before = box[c].before
      /\ put.after = [box[c].after EXCEPT ![f] = prev[r].after]
  BY <1>3, <1>4 DEF Boxes
<1>6. box[c].after \in [Files -> Contents]
  BY <1>3 DEF Boxes
<1>. HIDE DEF put, c, f
<1>7. PICK b \in Boxes :
        /\ box' = [box EXCEPT ![c] = b] /\ b.before = box[c].before
        /\ \A g \in Files : b.after[g] = box[c].after[g] \/ (g = f /\ b.after[g] = prev[r].after)
  BY <1>2, <1>3, <1>5, <1>6
<1>8. /\ box' \in [Sessions -> Boxes] /\ box'[c] = b
      /\ \A s \in Sessions : s # c => box'[s] = box[s]
  BY <1>1, <1>3, <1>7, BoxChanges
<1>9. /\ pc' \in [Runs -> States] /\ block' \in [Runs -> 1 .. Blocks + 1]
      /\ mutex' \in Daemons \cup {Free}
  BY <1>1, <1>2, <1>3, EndBlockTypes
<1>10. faults' \in Nat
  BY <1>1, <1>2 DEF Types
<1>11. Types'
  BY <1>1, <1>2, <1>8, <1>9, <1>10 DEF Types
<1>12. Stages' /\ MintsAreCounted'
  BY <1>2, <1>3, EndBlockKeepsStages
<1>. QED  BY <1>3, <1>7, <1>8, <1>11, <1>12 DEF TypeInv, c, f

\* What the undos, the user, time and the crashes do to a run: nothing, or it is over, or on
\* to its next block.
LEMMA ResolveSessionKeepsTypeInv ==
  ASSUME TypeInv, NEW u \in Undoers, ResolveSession(u)
  PROVE  TypeInv'
<1>1. Types /\ Stages /\ MintsAreCounted
  BY DEF TypeInv
<1>2. /\ upc' = [upc EXCEPT ![u] = "resolved"]
      /\ UNCHANGED <<disk, kept, minted, fresh, box, lock, pc, block, prep, dir, cur, prev,
                     batch, forced, landed, userEdits, faults>>
  BY DEF ResolveSession, storeVars, runVars, ghostVars, countVars
<1>3. /\ usession' \in [Undoers -> Sessions \cup {0}] /\ usession'[u] \in Sessions
      /\ \A v \in Undoers : v # u => usession'[v] = usession[v]
  <2>1. PICK s \in kept : usession' = [usession EXCEPT ![u] = s]
    BY DEF ResolveSession
  <2>. QED  BY <1>1, <2>1 DEF Types
<1>4. mutex' \in Daemons \cup {Free}
  BY <1>1 DEF ResolveSession, Types, Daemons
<1>5. Types'
  BY <1>1, <1>2, <1>3, <1>4 DEF Types
<1>6. Stages'
  BY <1>1, <1>2, <1>3 DEF Types, Stages
<1>. QED  BY <1>1, <1>2, <1>5, <1>6 DEF TypeInv, MintsAreCounted

LEMMA BackedUpAreFiles ==
  \A s : BackedUp(s) \subseteq Files /\ Unchanged(s) \subseteq Files
  BY DEF BackedUp, Unchanged

\* What an undo puts back was read from a snapshot.
LEMMA RevertedTypes ==
  ASSUME TypeInv, NEW s \in Sessions, NEW f \in Files
  PROVE  Reverted(s, f) \in Contents /\ Reverted(s, f) \in {Absent, box[s].before[f]}
<1>1. box[s] \in Boxes
  BY DEF TypeInv, Types
<1>. QED  BY <1>1 DEF Reverted, Boxes, Contents

LEMMA UndoStepKeepsTypeInv ==
  ASSUME TypeInv, NEW u \in Undoers, UndoStep(u)
  PROVE  TypeInv'
<1>1. Types /\ Stages /\ MintsAreCounted
  BY DEF TypeInv
<1>2. UNCHANGED <<kept, minted, fresh, box, pc, block, prep, dir, cur, prev, usession, landed,
                  userEdits>>
  BY DEF UndoStep, GuardFiles, CommitRestore, UndoDone, UndoFails, storeVars, runVars, ghostVars,
         countVars
<1>3. CASE GuardFiles(u)
  <2>1. /\ upc[u] = "resolved" /\ upc' = [upc EXCEPT ![u] = "restoring"] /\ lock' = u
        /\ UNCHANGED <<disk, mutex, faults>>
    BY <1>3 DEF GuardFiles, countVars
  <2>2. PICK force \in BOOLEAN :
          /\ batch' = [batch EXCEPT ![u] = IF force THEN BackedUp(usession[u])
                                           ELSE Unchanged(usession[u])]
          /\ forced' = [forced EXCEPT ![u] = force]
    BY <1>3 DEF GuardFiles
  <2>3. batch' \in [Undoers -> SUBSET Files] /\ forced' \in [Undoers -> BOOLEAN]
    BY <1>1, <2>2, BackedUpAreFiles DEF Types
  <2>4. Types'
    BY <1>1, <1>2, <2>1, <2>3 DEF Types
  <2>5. Stages'
    BY <1>1, <1>2, <2>1 DEF Types, Stages
  <2>. QED  BY <1>1, <1>2, <2>4, <2>5 DEF TypeInv, MintsAreCounted
<1>4. ASSUME NEW f \in Files, CommitRestore(u, f)
      PROVE  TypeInv'
  <2>1. /\ disk' = [disk EXCEPT ![f] = Reverted(usession[u], f)]
        /\ batch' = [batch EXCEPT ![u] = @ \ {f}]
        /\ upc[u] = "restoring"
        /\ UNCHANGED <<lock, mutex, upc, forced, faults>>
    BY <1>4 DEF CommitRestore, countVars
  <2>2. batch' \in [Undoers -> SUBSET Files]
    BY <1>1, <2>1 DEF Types
  <2>3. Reverted(usession[u], f) \in Contents
    BY <1>1, <2>1, RevertedTypes DEF Stages
  <2>4. Types'
    BY <1>1, <1>2, <2>1, <2>2, <2>3 DEF Types
  <2>. QED  BY <1>1, <1>2, <2>1, <2>4 DEF TypeInv, Stages, MintsAreCounted
<1>5. CASE UndoDone(u) \/ UndoFails(u)
  <2>1. /\ upc' = [upc EXCEPT ![u] = "over"] /\ lock' = Free
        /\ mutex' \in {Free, mutex} /\ faults' \in {faults, faults + 1}
        /\ UNCHANGED <<disk, batch, forced>>
    BY <1>5 DEF UndoDone, UndoFails, EndUndo, ReleaseMutex, Fault, countVars
  <2>2. faults' \in Nat
    BY <1>1, <2>1 DEF Types
  <2>3. Types'
    BY <1>1, <1>2, <2>1, <2>2 DEF Types
  <2>4. Stages'
    BY <1>1, <1>2, <2>1 DEF Types, Stages
  <2>. QED  BY <1>1, <1>2, <2>3, <2>4 DEF TypeInv, MintsAreCounted
<1>. QED  BY <1>3, <1>4, <1>5 DEF UndoStep

LEMMA UserKeepsTypeInv ==
  ASSUME TypeInv, NEW f \in Files, UserSaves(f) \/ UserDeletes(f)
  PROVE  /\ TypeInv'
         /\ \A g \in Files :
              /\ EditsIn(disk'[g]) \subseteq EditsIn(disk[g])
              /\ disk'[g] = Absent \/ EditsIn(disk[g]) \subseteq EditsIn(disk'[g])
<1>1. Types /\ Stages /\ MintsAreCounted
  BY DEF TypeInv
<1>. DEFINE base == IF disk[f] = Absent THEN Empty ELSE disk[f]
            e    == <<"user", userEdits>>
<1>2. disk[f] \in Contents /\ e \in Writers \X Nat /\ {e} \cap Edits = {}
  BY <1>1 DEF Types, Writers, Edits
<1>3. /\ base \in Contents /\ Append(base, e) \in Contents
      /\ EditsIn(Append(base, e)) \subseteq EditsIn(disk[f]) \cup ({e} \cap Edits)
      /\ Append(base, e) # Absent => EditsIn(disk[f]) \subseteq EditsIn(Append(base, e))
  BY <1>2, AppendedTo
<1>4. \E c \in {Append(base, e), Absent} : UserWrites(f, c)
  BY DEF UserSaves, UserDeletes
<1>. HIDE DEF base, e
<1>5. PICK c \in {Append(base, e), Absent} :
        /\ disk' = [disk EXCEPT ![f] = c] /\ userEdits' = userEdits + 1
        /\ UNCHANGED <<kept, minted, fresh, box, lock, mutex, pc, block, prep, dir, cur, prev, upc,
                       usession, batch, forced, landed, faults>>
  BY <1>4 DEF UserWrites, storeVars, runVars, undoVars, ghostVars
<1>6. /\ c \in Contents /\ EditsIn(c) \subseteq EditsIn(disk[f])
      /\ c = Absent \/ EditsIn(disk[f]) \subseteq EditsIn(c)
  BY <1>2, <1>3, EditsOfNothing DEF Contents
<1>7. disk' \in [Files -> Contents] /\ \A g \in Files : disk'[g] = IF g = f THEN c ELSE disk[g]
  BY <1>1, <1>5, <1>6 DEF Types
<1>8. userEdits' \in Nat
  BY <1>1, <1>5 DEF Types
<1>9. Types'
  BY <1>1, <1>5, <1>7, <1>8 DEF Types
<1>10. Stages' /\ MintsAreCounted'
  BY <1>1, <1>5 DEF Stages, MintsAreCounted
<1>. QED  BY <1>6, <1>7, <1>9, <1>10 DEF TypeInv

LEMMA MarkerAgesKeepsTypeInv ==
  ASSUME TypeInv, NEW s \in Sessions, MarkerAges(s)
  PROVE  TypeInv'
<1>1. Types /\ Stages /\ MintsAreCounted
  BY DEF TypeInv
<1>2. /\ fresh' \subseteq fresh
      /\ UNCHANGED <<disk, kept, minted, box, lock, mutex, pc, block, prep, dir, cur, prev, upc,
                     usession, batch, forced, landed, userEdits, faults>>
  BY DEF MarkerAges, runVars, undoVars, ghostVars, countVars
<1>3. Types'
  BY <1>1, <1>2 DEF Types
<1>. QED  BY <1>1, <1>2, <1>3 DEF TypeInv, Stages, MintsAreCounted


\* What a crash leaves: everyone goes on where they were, or is over, or stops with the block.
Crash == CrashDaemon \/ \E x \in Runs \cup Undoers : CrashProcess(x)

RunSurvives(r) == pc'[r] = pc[r] /\ block'[r] = block[r] /\ (lock = r => lock' = r)
RunDies(r)     == pc'[r] = "over" /\ block'[r] = block[r]
BlockDies(r)   == /\ block[r] <= Blocks /\ block'[r] = block[r] + 1
                  /\ pc'[r] = IF block[r] = Blocks THEN "over" ELSE "idle"
UndoSurvives(u) == upc'[u] = upc[u] /\ (lock = u => lock' = u)

LEMMA CrashParts ==
  ASSUME TypeInv, Crash
  PROVE  /\ faults' = faults + 1 /\ mutex' \in {mutex, Free} /\ lock' \in {lock, Free}
         /\ UNCHANGED <<disk, kept, minted, fresh, box, prep, dir, cur, prev, usession, batch,
                        forced, landed, userEdits>>
         /\ pc' = [r \in Runs |-> pc'[r]] /\ block' = [r \in Runs |-> block'[r]]
         /\ upc' = [u \in Undoers |-> upc'[u]]
         /\ \A r \in Runs : RunSurvives(r) \/ RunDies(r) \/ BlockDies(r)
         /\ \A u \in Undoers : UndoSurvives(u) \/ upc'[u] = "over"
<1>1. Types /\ Stages
  BY DEF TypeInv
<1>2. /\ faults' = faults + 1 /\ mutex' \in {mutex, Free}
      /\ UNCHANGED <<disk, kept, minted, fresh, box, prep, dir, cur, prev, usession, batch, forced,
                     landed, userEdits>>
  BY DEF Crash, CrashDaemon, CrashProcess, Fault, storeVars, ghostVars
<1>3. ASSUME NEW x \in Runs \cup Undoers, CrashProcess(x)
      PROVE  /\ pc' = [r \in Runs |-> pc'[r]] /\ block' = [r \in Runs |-> block'[r]]
             /\ upc' = [u \in Undoers |-> upc'[u]] /\ lock' \in {lock, Free}
             /\ \A r \in Runs : RunSurvives(r) \/ RunDies(r) \/ BlockDies(r)
             /\ \A u \in Undoers : UndoSurvives(u) \/ upc'[u] = "over"
  <2>1. /\ pc' = [r \in Runs |-> IF r = x THEN "over" ELSE pc[r]]
        /\ upc' = [u \in Undoers |-> IF u = x THEN "over" ELSE upc[u]]
        /\ lock' = IF lock \in {x} THEN Free ELSE lock
        /\ block' = block
    BY <1>3 DEF CrashProcess, LockAfterDeathOf
  <2>2. \A r \in Runs : RunSurvives(r) \/ RunDies(r)
    BY <2>1 DEF RunSurvives, RunDies
  <2>3. \A u \in Undoers : UndoSurvives(u) \/ upc'[u] = "over"
    BY <2>1 DEF UndoSurvives
  <2>. QED  BY <1>1, <2>1, <2>2, <2>3 DEF Types
<1>4. ASSUME CrashDaemon
      PROVE  /\ pc' = [r \in Runs |-> pc'[r]] /\ block' = [r \in Runs |-> block'[r]]
             /\ upc' = [u \in Undoers |-> upc'[u]] /\ lock' \in {lock, Free}
             /\ \A r \in Runs : RunSurvives(r) \/ RunDies(r) \/ BlockDies(r)
             /\ \A u \in Undoers : UndoSurvives(u) \/ upc'[u] = "over"
  <2>. DEFINE inFlight == {r \in Runs : Kind[r] = "daemon" /\ pc[r] \notin {"idle", "over"}}
              undoing  == {u \in Undoers : Kind[u] = "daemon" /\ upc[u] \notin {"idle", "over"}}
  <2>1. /\ pc' = [r \in Runs |-> IF r \in inFlight THEN IF block[r] = Blocks THEN "over" ELSE "idle"
                                 ELSE pc[r]]
        /\ block' = [r \in Runs |-> IF r \in inFlight THEN block[r] + 1 ELSE block[r]]
        /\ upc' = [u \in Undoers |-> IF u \in undoing THEN "over" ELSE upc[u]]
        /\ lock' = IF lock \in inFlight \cup undoing THEN Free ELSE lock
    BY <1>4 DEF CrashDaemon, LockAfterDeathOf
  <2>2. \A r \in inFlight : block[r] <= Blocks
    BY <1>1 DEF Stages
  <2>3. inFlight \subseteq Runs /\ undoing \subseteq Undoers
    OBVIOUS
  <2>. HIDE DEF inFlight, undoing
  <2>4. \A r \in Runs : RunSurvives(r) \/ BlockDies(r)
    BY <2>1, <2>2, <2>3 DEF RunSurvives, BlockDies
  <2>5. \A u \in Undoers : UndoSurvives(u) \/ upc'[u] = "over"
    BY <2>1, <2>3 DEF UndoSurvives
  <2>6. /\ pc' = [r \in Runs |-> pc'[r]] /\ block' = [r \in Runs |-> block'[r]]
        /\ upc' = [u \in Undoers |-> upc'[u]]
    BY <2>1
  <2>. QED  BY <2>1, <2>4, <2>5, <2>6
<1>. QED  BY <1>2, <1>3, <1>4 DEF Crash

LEMMA CrashKeepsTypeInv ==
  ASSUME TypeInv, Crash
  PROVE  TypeInv'
<1>1. Types /\ Stages /\ MintsAreCounted
  BY DEF TypeInv
<1>2. /\ faults' = faults + 1 /\ mutex' \in {mutex, Free} /\ lock' \in {lock, Free}
      /\ UNCHANGED <<disk, kept, minted, fresh, box, prep, dir, cur, prev, usession, batch,
                     forced, landed, userEdits>>
      /\ pc' = [r \in Runs |-> pc'[r]] /\ block' = [r \in Runs |-> block'[r]]
      /\ upc' = [u \in Undoers |-> upc'[u]]
      /\ \A r \in Runs : RunSurvives(r) \/ RunDies(r) \/ BlockDies(r)
      /\ \A u \in Undoers : UndoSurvives(u) \/ upc'[u] = "over"
  BY CrashParts
<1>3. ASSUME NEW r \in Runs
      PROVE  /\ pc'[r] \in States /\ block'[r] \in 1 .. Blocks + 1
             /\ pc'[r] # "over" => block'[r] <= Blocks
             /\ pc'[r] \in Applying \cup {"session"} => pc'[r] = pc[r]
             /\ \/ block'[r] > block[r]
                \/ /\ block'[r] = block[r]
                   /\ pc'[r] \in {"idle", "prepared"} => pc[r] \in {"idle", "prepared"}
  <2>1. /\ block[r] \in 1 .. Blocks + 1 /\ pc[r] \in States
        /\ pc[r] # "over" => block[r] <= Blocks
    BY <1>1 DEF Types, Stages
  <2>2. CASE RunSurvives(r)
    BY <2>1, <2>2 DEF RunSurvives
  <2>3. CASE RunDies(r)
    BY <2>1, <2>3 DEF RunDies, States, Applying
  <2>4. CASE BlockDies(r)
    <3>1. /\ block[r] <= Blocks /\ block'[r] = block[r] + 1
          /\ pc'[r] = IF block[r] = Blocks THEN "over" ELSE "idle"
      BY <2>4 DEF BlockDies
    <3>2. block'[r] \in 1 .. Blocks + 1 /\ block'[r] > block[r]
      BY <2>1, <3>1
    <3>3. pc'[r] \in {"idle", "over"} /\ (pc'[r] # "over" => block[r] # Blocks)
      BY <3>1
    <3>4. block[r] # Blocks => block'[r] <= Blocks
      BY <2>1, <3>1
    <3>. QED  BY <3>2, <3>3, <3>4 DEF States, Applying
  <2>. QED  BY <1>2, <2>2, <2>3, <2>4
<1>4. \A u \in Undoers : upc'[u] \in {upc[u], "over"}
  BY <1>2 DEF UndoSurvives
<1>5. pc' \in [Runs -> States] /\ block' \in [Runs -> 1 .. Blocks + 1]
  BY <1>2, <1>3
<1>6. upc' \in [Undoers -> {"idle", "resolved", "restoring", "over"}]
  BY <1>1, <1>2, <1>4 DEF Types
<1>7. faults' \in Nat
  BY <1>1, <1>2 DEF Types
<1>8. Types'
  BY <1>1, <1>2, <1>5, <1>6, <1>7 DEF Types
<1>9. Stages'
  BY <1>1, <1>2, <1>3, <1>4 DEF Stages
<1>10. MintsAreCounted'
  BY <1>1, <1>2, <1>3, <1>5, MintsStayCounted
<1>. QED  BY <1>8, <1>9, <1>10 DEF TypeInv

LEMMA UnchangedKeepsTypeInv == TypeInv /\ UNCHANGED vars => TypeInv'
  BY DEF vars, storeVars, runVars, undoVars, ghostVars, countVars, TypeInv, Types, Stages,
         MintsAreCounted

LEMMA NextKeepsTypeInv == TypeInv /\ [Next]_vars => TypeInv'
<1>. SUFFICES ASSUME TypeInv, [Next]_vars
              PROVE  TypeInv'
  OBVIOUS
<1>1. ASSUME NEW r \in Runs, Prepare(r) \/ Decline(r)
      PROVE  TypeInv'
  BY <1>1, PrepareKeepsTypeInv, EndsKeepsTypeInv
<1>2. ASSUME NEW r \in Runs, ApplyStep(r)
      PROVE  TypeInv'
  BY <1>2, ReuseSessionKeepsTypeInv, MintSessionKeepsTypeInv, EndsKeepsTypeInv,
     BeginApplyKeepsTypeInv, SaveBeforeKeepsTypeInv, SaveAfterKeepsTypeInv,
     SaveCreatedKeepsTypeInv, BackupFailsKeepsTypeInv, WriteFileKeepsTypeInv,
     WriteFailsKeepsTypeInv DEF ApplyStep
<1>3. ASSUME NEW u \in Undoers, ResolveSession(u) \/ UndoStep(u)
      PROVE  TypeInv'
  BY <1>3, ResolveSessionKeepsTypeInv, UndoStepKeepsTypeInv
<1>4. CASE Crash
  BY <1>4, CrashKeepsTypeInv
<1>. QED  BY <1>1, <1>2, <1>3, <1>4, UserKeepsTypeInv, MarkerAgesKeepsTypeInv,
             UnchangedKeepsTypeInv DEF Next, Crash

LEMMA InitIsTyped == Init => TypeInv
<1>. SUFFICES ASSUME Init
              PROVE  TypeInv
  OBVIOUS
<1>1. <<<<"original", 0>>>> \in Contents /\ Absent \in Contents
  BY DEF Contents, Writers
<1>2. \A f \in Files : disk[f] \in Contents
  BY <1>1 DEF Init
<1>3. disk \in [Files -> Contents]
  BY <1>2 DEF Init
<1>4. box \in [Sessions -> Boxes]
  BY <1>1 DEF Init, EmptyBox, Boxes
<1>5. prep \in [Runs -> [file : Files, original : Contents]]
  <2>1. (CHOOSE f \in Files : TRUE) \in Files
    OBVIOUS
  <2>. QED  BY <1>1, <2>1 DEF Init
<1>6. prev \in [Runs -> [after : Contents, created : SUBSET Files]]
  BY <1>1 DEF Init
<1>7. /\ kept = {} /\ fresh = {} /\ minted = 0 /\ lock = Free /\ mutex = Free
      /\ dir = [r \in Runs |-> 0] /\ cur = [r \in Runs |-> 0]
      /\ pc = [r \in Runs |-> "idle"] /\ block = [r \in Runs |-> 1]
      /\ upc = [u \in Undoers |-> "idle"] /\ usession = [u \in Undoers |-> 0]
      /\ batch = [u \in Undoers |-> {}] /\ forced = [u \in Undoers |-> FALSE]
      /\ landed = [s \in Sessions |-> {}] /\ userEdits = 0 /\ faults = 0
  BY DEF Init
<1>8. Types
  BY <1>3, <1>4, <1>5, <1>6, <1>7 DEF Types, States
<1>9. Stages
  BY <1>7 DEF Stages, Applying
<1>10. MintsAreCounted
  <2>1. {} \in SUBSET Edits /\ minted = Cardinality({})
    BY <1>7, FS_EmptySet
  <2>. QED  BY <2>1 DEF MintsAreCounted
<1>. QED  BY <1>8, <1>9, <1>10 DEF TypeInv

LEMMA TypeInvIsType == TypeInv => TypeOK
<1>. SUFFICES ASSUME TypeInv
              PROVE  TypeOK
  OBVIOUS
<1>1. Types
  BY DEF TypeInv
<1>2. ASSUME NEW f \in Files
      PROVE  disk[f] = Absent \/ \A i \in DOMAIN disk[f] : disk[f][i][2] \in Nat
  <2>1. disk[f] = Absent \/ disk[f] \in Seq(Writers \X Nat)
    BY <1>1 DEF Types, Contents
  <2>2. ASSUME disk[f] \in Seq(Writers \X Nat), NEW i \in DOMAIN disk[f]
        PROVE  disk[f][i][2] \in Nat
    <3>1. disk[f][i] \in Writers \X Nat
      BY <2>2, ElementOfSeq, LenProperties
    <3>. QED  BY <3>1
  <2>. QED  BY <2>1, <2>2
<1>3. minted \in 0 .. Cardinality(Sessions)
  <2>1. minted \in Nat /\ minted <= Cardinality(Sessions)
    BY <1>1, EditsAreCounted DEF TypeInv, Types, MintsAreCounted
  <2>. QED  BY <2>1, SessionsAreNumbers
<1>4. \A s \in Sessions : box[s].created \subseteq Files
  BY <1>1 DEF Types, Boxes
<1>5. \A s \in Sessions : landed[s] \subseteq Files \X (Runs \X (1 .. Blocks))
  BY <1>1 DEF Types, Edits
<1>. QED  BY <1>1, <1>2, <1>3, <1>4, <1>5 DEF Types, TypeOK, States, Daemons

\* Every variable keeps its type: there are never more sessions than blocks, since a session is
\* minted for a block that has none.
THEOREM SessionsAreCounted == Spec => []TypeOK
BY InitIsTyped, NextKeepsTypeInv, TypeInvIsType, PTL DEF Spec

-----------------------------------------------------------------------------
\* Who holds the lock.

\* A step of a run leaves the others, and the undos, where they are.
RunStep(r) == Prepare(r) \/ Decline(r) \/ ApplyStep(r)

LEMMA RunStepIsItsOwn ==
  ASSUME TypeInv, NEW r \in Runs, RunStep(r)
  PROVE  /\ UNCHANGED <<upc, usession, batch, forced>>
         /\ \A q \in Runs : q # r => /\ pc'[q] = pc[q] /\ block'[q] = block[q]
                                     /\ cur'[q] = cur[q] /\ prep'[q] = prep[q] /\ prev'[q] = prev[q]
         /\ pc[r] # "over"
         /\ \/ block'[r] = block[r] + 1 /\ pc'[r] \in {"idle", "over"}
            \/ block'[r] = block[r] /\ pc'[r] \notin {"idle", "over"}
<1>1. Types
  BY DEF TypeInv
<1>2. UNCHANGED <<upc, usession, batch, forced>>
  BY DEF RunStep, ApplyStep, Prepare, Decline, ReuseSession, MintSession, MintFails, BeginApply,
         RefuseStale, SaveBefore, SaveAfter, SaveCreated, BackupFails, WriteFile, WriteFails, undoVars
<1>3. CASE \E failed \in BOOLEAN : EndBlock(r, failed) /\ pc[r] # "over" /\ UNCHANGED <<cur, prep, prev>>
  <2>1. PICK failed \in BOOLEAN : EndBlock(r, failed) /\ pc[r] # "over"
    BY <1>3
  <2>2. Stages
    BY DEF TypeInv
  <2>. QED  BY <1>1, <1>2, <1>3, <2>1, <2>2, EndBlockTypes
<1>4. CASE \E to \in {"prepared", "session", "verified", "before kept", "after kept", "ready"} :
             /\ pc' = [pc EXCEPT ![r] = to] /\ block' = block /\ pc[r] # "over"
             /\ \A q \in Runs : q # r => cur'[q] = cur[q] /\ prep'[q] = prep[q] /\ prev'[q] = prev[q]
  <2>1. PICK to \in {"prepared", "session", "verified", "before kept", "after kept", "ready"} :
             pc' = [pc EXCEPT ![r] = to] /\ block' = block /\ pc[r] # "over"
    BY <1>4
  <2>2. pc'[r] = to /\ \A q \in Runs : q # r => pc'[q] = pc[q]
    BY <1>1, <2>1, MovesTo DEF States
  <2>. QED  BY <1>2, <1>4, <2>1, <2>2
<1>5. CASE Prepare(r)
  <2>1. PICK f \in Files : prep' = [prep EXCEPT ![r] = [file |-> f, original |-> disk[f]]]
    BY <1>5 DEF Prepare
  <2>2. \A q \in Runs : q # r => prep'[q] = prep[q]
    BY <1>1, <2>1 DEF Types
  <2>. QED  BY <1>4, <1>5, <2>2 DEF Prepare
<1>6. CASE Decline(r) \/ MintFails(r) \/ RefuseStale(r) \/ BackupFails(r) \/ WriteFile(r) \/ WriteFails(r)
  BY <1>3, <1>6 DEF Decline, MintFails, RefuseStale, BackupFails, WriteFile, WriteFails
<1>7. CASE ReuseSession(r) \/ MintSession(r)
  <2>1. \A q \in Runs : q # r => cur'[q] = cur[q]
    BY <1>1, <1>7 DEF ReuseSession, MintSession, Types
  <2>. QED  BY <1>4, <1>7, <2>1 DEF ReuseSession, MintSession
<1>8. CASE BeginApply(r) \/ SaveBefore(r) \/ SaveCreated(r)
  BY <1>4, <1>8 DEF BeginApply, SaveBefore, SaveCreated
<1>9. CASE SaveAfter(r)
  <2>1. \A q \in Runs : q # r => prev'[q] = prev[q]
    BY <1>1, <1>9 DEF SaveAfter, Types
  <2>. QED  BY <1>4, <1>9, <2>1 DEF SaveAfter
<1>. QED  BY <1>5, <1>6, <1>7, <1>8, <1>9 DEF RunStep, ApplyStep

LEMMA OnlyTheHolderWorks ==
  ASSUME LockInv
  PROVE  /\ \A r \in Runs : lock # r => pc[r] \notin Applying
         /\ \A u \in Undoers : lock # u => upc[u] # "restoring"
  BY DEF LockInv

\* Nobody begins, nobody is disturbed.
LEMMA LockInvStays ==
  ASSUME LockInv,
         \A r \in Runs : pc'[r] \in Applying /\ pc[r] \in Applying =>
           /\ prep'[r] = prep[r] /\ (lock = r => lock' = r)
           /\ EditsIn(disk'[Target(r)]) \subseteq EditsIn(disk[Target(r)]),
         \A r \in Runs : pc'[r] \in Applying => pc[r] \in Applying,
         \A u \in Undoers : upc'[u] = "restoring" => upc[u] = "restoring" /\ (lock = u => lock' = u)
  PROVE  LockInv'
  BY DEF LockInv, Target

LEMMA NextKeepsLockInv == TypeInv /\ LockInv /\ [Next]_vars => LockInv'
<1>. SUFFICES ASSUME TypeInv, LockInv, [Next]_vars
              PROVE  LockInv'
  OBVIOUS
<1>1. ASSUME NEW r \in Runs, RunStep(r), lock' = lock, UNCHANGED disk,
             pc'[r] \in Applying => pc[r] \in Applying /\ UNCHANGED prep
      PROVE  LockInv'
  <2>1. /\ UNCHANGED upc
        /\ \A q \in Runs : q # r => pc'[q] = pc[q] /\ prep'[q] = prep[q]
    BY <1>1, RunStepIsItsOwn
  <2>. QED  BY <1>1, <2>1, LockInvStays
<1>2. ASSUME NEW r \in Runs, RunStep(r), pc[r] \in Applying, pc'[r] \notin Applying
      PROVE  LockInv'
  <2>1. lock = r
    BY <1>2 DEF LockInv
  <2>2. /\ \A q \in Runs : q # r => pc[q] \notin Applying
        /\ \A u \in Undoers : upc[u] # "restoring"
    BY <2>1, OnlyTheHolderWorks
  <2>3. /\ UNCHANGED upc
        /\ \A q \in Runs : q # r => pc'[q] = pc[q] /\ prep'[q] = prep[q]
    BY <1>2, RunStepIsItsOwn
  <2>. QED  BY <1>2, <2>2, <2>3, LockInvStays
<1>3. ASSUME NEW r \in Runs, Prepare(r) \/ Decline(r) \/ MintFails(r) \/ RefuseStale(r)
      PROVE  LockInv'
  <2>1. RunStep(r) /\ lock' = lock /\ UNCHANGED disk
    BY <1>3 DEF RunStep, ApplyStep, Prepare, Decline, MintFails, RefuseStale
  <2>2. pc'[r] \notin Applying
    <3>1. CASE Prepare(r)
      BY <3>1 DEF Prepare, TypeInv, Types, Applying
    <3>2. CASE Decline(r) \/ MintFails(r) \/ RefuseStale(r)
      BY <3>2, EndBlockTypes DEF Decline, MintFails, RefuseStale, TypeInv, Applying
    <3>. QED  BY <1>3, <3>1, <3>2
  <2>. QED  BY <1>1, <2>1, <2>2
<1>4. ASSUME NEW r \in Runs, ReuseSession(r) \/ MintSession(r)
      PROVE  LockInv'
  <2>1. RunStep(r) /\ lock' = lock /\ UNCHANGED disk /\ pc' = [pc EXCEPT ![r] = "session"]
    BY <1>4 DEF RunStep, ApplyStep, ReuseSession, MintSession
  <2>2. pc'[r] \notin Applying
    BY <2>1 DEF TypeInv, Types, Applying
  <2>. QED  BY <1>1, <2>1, <2>2
<1>5. ASSUME NEW r \in Runs, SaveBefore(r) \/ SaveAfter(r) \/ SaveCreated(r)
      PROVE  LockInv'
  <2>1. /\ RunStep(r) /\ lock' = lock /\ UNCHANGED <<disk, prep>> /\ pc[r] \in Applying
    BY <1>5 DEF RunStep, ApplyStep, SaveBefore, SaveAfter, SaveCreated, Applying, storeVars
  <2>. QED  BY <1>1, <2>1
<1>6. ASSUME NEW r \in Runs, BackupFails(r) \/ WriteFile(r) \/ WriteFails(r)
      PROVE  LockInv'
  <2>1. /\ RunStep(r) /\ pc[r] \in Applying /\ \E failed \in BOOLEAN : EndBlock(r, failed)
    BY <1>6 DEF RunStep, ApplyStep, BackupFails, WriteFile, WriteFails, Applying
  <2>2. pc'[r] \notin Applying
    BY <2>1, EndBlockTypes DEF TypeInv, Applying
  <2>. QED  BY <1>2, <2>1, <2>2
<1>7. ASSUME NEW r \in Runs, BeginApply(r)
      PROVE  LockInv'
  <2>1. /\ lock = Free /\ disk[Target(r)] = prep[r].original /\ lock' = r
        /\ RunStep(r) /\ UNCHANGED <<disk, prep>>
    BY <1>7 DEF BeginApply, RunStep, ApplyStep
  <2>2. /\ \A q \in Runs : pc[q] \notin Applying
        /\ \A u \in Undoers : upc[u] # "restoring"
    BY <2>1, OnlyTheHolderWorks
  <2>3. UNCHANGED upc /\ \A q \in Runs : q # r => pc'[q] = pc[q]
    BY <2>1, RunStepIsItsOwn
  <2>. QED  BY <2>1, <2>2, <2>3 DEF LockInv, Target
<1>8. ASSUME NEW u \in Undoers, ResolveSession(u)
      PROVE  LockInv'
  <2>1. /\ lock' = lock /\ UNCHANGED <<pc, prep, disk>> /\ upc' = [upc EXCEPT ![u] = "resolved"]
    BY <1>8 DEF ResolveSession, runVars
  <2>2. \A v \in Undoers : upc'[v] = "restoring" => upc[v] = "restoring"
    BY <2>1 DEF TypeInv, Types
  <2>. QED  BY <2>1, <2>2, LockInvStays
<1>9. ASSUME NEW u \in Undoers, GuardFiles(u)
      PROVE  LockInv'
  <2>1. /\ lock = Free /\ lock' = u /\ UNCHANGED <<pc, prep, disk>>
        /\ upc' = [upc EXCEPT ![u] = "restoring"]
    BY <1>9 DEF GuardFiles, runVars
  <2>2. /\ \A q \in Runs : pc[q] \notin Applying
        /\ \A v \in Undoers : upc[v] # "restoring"
    BY <2>1, OnlyTheHolderWorks
  <2>3. \A v \in Undoers : v # u => upc'[v] # "restoring"
    BY <2>1, <2>2 DEF TypeInv, Types
  <2>. QED  BY <2>1, <2>2, <2>3 DEF LockInv
<1>10. ASSUME NEW u \in Undoers,
              UndoDone(u) \/ UndoFails(u) \/ \E f \in Files : CommitRestore(u, f)
       PROVE  LockInv'
  <2>1. upc[u] = "restoring" /\ UNCHANGED <<pc, prep>>
    BY <1>10 DEF UndoDone, UndoFails, CommitRestore, runVars
  <2>2. lock = u
    BY <2>1 DEF LockInv
  <2>3. \A q \in Runs : pc'[q] \notin Applying
    BY <2>1, <2>2, OnlyTheHolderWorks
  <2>4. CASE \E f \in Files : CommitRestore(u, f)
    <3>1. UNCHANGED <<upc, lock>>
      BY <2>4 DEF CommitRestore
    <3>. QED  BY <2>3, <3>1 DEF LockInv
  <2>5. CASE UndoDone(u) \/ UndoFails(u)
    <3>1. upc' = [upc EXCEPT ![u] = "over"]
      BY <2>5 DEF UndoDone, UndoFails, EndUndo
    <3>2. \A v \in Undoers : upc'[v] # "restoring"
      BY <2>2, <3>1, OnlyTheHolderWorks DEF TypeInv, Types
    <3>. QED  BY <2>3, <3>2 DEF LockInv
  <2>. QED  BY <1>10, <2>4, <2>5
<1>11. ASSUME NEW f \in Files, UserSaves(f) \/ UserDeletes(f)
       PROVE  LockInv'
  <2>1. \A g \in Files : EditsIn(disk'[g]) \subseteq EditsIn(disk[g])
    BY <1>11, UserKeepsTypeInv
  <2>2. UNCHANGED <<pc, prep, lock, upc>>
    BY <1>11 DEF UserSaves, UserDeletes, UserWrites, runVars, undoVars
  <2>3. \A r \in Runs : Target(r) \in Files
    BY DEF TypeInv, Types, Target
  <2>. QED  BY <2>1, <2>2, <2>3, LockInvStays
<1>12. ASSUME NEW s \in Sessions, MarkerAges(s)
       PROVE  LockInv'
  BY <1>12, LockInvStays DEF MarkerAges, runVars, undoVars
<1>13. CASE Crash
  <2>1. /\ UNCHANGED <<disk, prep>>
        /\ \A r \in Runs : RunSurvives(r) \/ RunDies(r) \/ BlockDies(r)
        /\ \A u \in Undoers : UndoSurvives(u) \/ upc'[u] = "over"
    BY <1>13, CrashParts
  <2>2. \A r \in Runs : pc'[r] \in Applying => RunSurvives(r)
    BY <2>1 DEF RunDies, BlockDies, Applying
  <2>. QED  BY <2>1, <2>2, LockInvStays DEF RunSurvives, UndoSurvives
<1>14. CASE UNCHANGED vars
  BY <1>14, LockInvStays DEF vars, runVars, undoVars
<1>. QED  BY <1>3, <1>4, <1>5, <1>6, <1>7, <1>8, <1>9, <1>10, <1>11, <1>12, <1>13, <1>14
          DEF Next, ApplyStep, UndoStep, Crash

LEMMA InitHoldsLock == Init => LockInv
  BY DEF Init, LockInv, Applying

\* Whatever the programs do at once and whatever fails, an edit that landed stays in its file
\* until an undo or the user takes it out.
THEOREM AppliedEditsStay == Spec => NoAppliedEditLost
<1>1. ASSUME TypeInv, LockInv, [Next]_vars
      PROVE  [batch' = batch =>
                \A f \in Files : disk'[f] = Absent \/ EditsIn(disk[f]) \subseteq EditsIn(disk'[f])]_vars
  <2>. SUFFICES ASSUME Next, batch' = batch, NEW f \in Files, disk'[f] # Absent
                PROVE  EditsIn(disk[f]) \subseteq EditsIn(disk'[f])
    BY <1>1
  <2>1. CASE UNCHANGED disk
    BY <2>1
  <2>2. ASSUME NEW r \in Runs, WriteFile(r)
        PROVE  EditsIn(disk[f]) \subseteq EditsIn(disk'[f])
    <3>1. pc[r] = "ready"
      BY <2>2 DEF WriteFile
    <3>2. EditsIn(disk[Target(r)]) \subseteq EditsIn(prep[r].original)
      BY <1>1, <3>1 DEF LockInv, Applying
    <3>3. disk'[f] = IF f = Target(r) THEN NewContent(r) ELSE disk[f]
      BY <1>1, <2>2, WriteFileKeepsTypeInv
    <3>4. NewContent(r) # Absent => EditsIn(prep[r].original) \subseteq EditsIn(NewContent(r))
      BY <1>1, <3>1, TargetTypes
    <3>. QED  BY <3>2, <3>3, <3>4
  <2>3. ASSUME NEW g \in Files, UserSaves(g) \/ UserDeletes(g)
        PROVE  EditsIn(disk[f]) \subseteq EditsIn(disk'[f])
    BY <1>1, <2>3, UserKeepsTypeInv
  <2>4. ASSUME NEW u \in Undoers, NEW g \in Files, CommitRestore(u, g)
        PROVE  FALSE
    <3>1. g \in batch[u] /\ batch' = [batch EXCEPT ![u] = @ \ {g}]
      BY <2>4 DEF CommitRestore
    <3>2. batch'[u] = batch[u] \ {g}
      BY <1>1, <3>1 DEF TypeInv, Types
    <3>. QED  BY <3>1, <3>2
  <2>5. ASSUME NEW r \in Runs, RunStep(r), ~WriteFile(r)
        PROVE  UNCHANGED disk
    BY <2>5 DEF RunStep, ApplyStep, Prepare, Decline, ReuseSession, MintSession, MintFails, BeginApply,
           RefuseStale, SaveBefore, SaveAfter, SaveCreated, BackupFails, WriteFails
  <2>6. ASSUME NEW u \in Undoers, ResolveSession(u) \/ UndoStep(u),
               ~\E g \in Files : CommitRestore(u, g)
        PROVE  UNCHANGED disk
    BY <2>6 DEF ResolveSession, UndoStep, GuardFiles, UndoDone, UndoFails
  <2>7. ASSUME Crash \/ \E s \in Sessions : MarkerAges(s)
        PROVE  UNCHANGED disk
    BY <2>7 DEF Crash, CrashDaemon, CrashProcess, MarkerAges
  <2>. QED  BY <2>1, <2>2, <2>3, <2>4, <2>5, <2>6, <2>7 DEF Next, Crash, RunStep
<1>. QED  BY <1>1, InitIsTyped, NextKeepsTypeInv, InitHoldsLock, NextKeepsLockInv, PTL
          DEF Spec, NoAppliedEditLost

-----------------------------------------------------------------------------
\* What is read anywhere has landed.

\* A step that lands nothing, and reads only what was there to read.
LEMMA OnlyLandedStays ==
  ASSUME OnlyLanded, landed' = landed,
         \A r \in Runs : block[r] \in Nat /\ block'[r] \in Nat /\ block'[r] >= block[r],
         \A f \in Files : \A e \in EditsIn(disk'[f]) : HasLanded(e),
         \A s \in Sessions : \A f \in Files : \A e \in EditsIn(box'[s].before[f]) : HasLanded(e),
         \A r \in Runs : \A e \in EditsIn(prep'[r].original) : HasLanded(e)
  PROVE  OnlyLanded'
<1>1. \A e : HasLanded(e)' <=> HasLanded(e)
  BY DEF HasLanded
<1>2. ASSUME NEW e \in Edits, HasLanded(e)
      PROVE  e[2] < block'[e[1]]
  <2>1. e[1] \in Runs /\ e[2] \in Nat /\ e[2] < block[e[1]]
    BY <1>2 DEF OnlyLanded, Edits
  <2>. QED  BY <2>1
<1>. QED  BY <1>1, <1>2 DEF OnlyLanded

LEMMA BlocksOnlyGrow ==
  ASSUME TypeInv, [Next]_vars
  PROVE  \A r \in Runs : /\ block[r] \in Nat /\ block'[r] \in Nat /\ block'[r] >= block[r]
                         /\ block'[r] = block[r] /\ pc[r] = "over" => pc'[r] = "over"
<1>1. Types /\ Types'
  BY NextKeepsTypeInv DEF TypeInv
<1>2. ASSUME NEW q \in Runs, RunStep(q)
      PROVE  \A r \in Runs : /\ block'[r] = block[r] \/ block'[r] = block[r] + 1
                             /\ block'[r] = block[r] /\ pc[r] = "over" => pc'[r] = "over"
  BY <1>2, RunStepIsItsOwn
<1>3. ASSUME Crash
      PROVE  \A r \in Runs : /\ block'[r] = block[r] \/ block'[r] = block[r] + 1
                             /\ block'[r] = block[r] /\ pc[r] = "over" => pc'[r] = "over"
  <2>1. ASSUME NEW r \in Runs, block[r] <= Blocks, block'[r] = block[r] + 1
        PROVE  block'[r] # block[r]
    BY <1>1, <2>1 DEF Types
  <2>. QED  BY <1>3, <2>1, CrashParts DEF RunSurvives, RunDies, BlockDies
<1>4. ASSUME \/ UNCHANGED vars
             \/ \E u \in Undoers : ResolveSession(u) \/ UndoStep(u)
             \/ \E f \in Files : UserSaves(f) \/ UserDeletes(f)
             \/ \E s \in Sessions : MarkerAges(s)
      PROVE  UNCHANGED <<block, pc>>
  BY <1>4 DEF vars, runVars, ResolveSession, UndoStep, GuardFiles, CommitRestore, UndoDone,
         UndoFails, UserSaves, UserDeletes, UserWrites, MarkerAges
<1>5. \A r \in Runs : /\ block'[r] = block[r] \/ block'[r] = block[r] + 1
                      /\ block'[r] = block[r] /\ pc[r] = "over" => pc'[r] = "over"
  BY <1>2, <1>3, <1>4 DEF Next, RunStep, Crash
<1>6. \A r \in Runs : block[r] \in Nat /\ block'[r] \in Nat
  BY <1>1 DEF Types
<1>7. ASSUME NEW r \in Runs
      PROVE  block'[r] >= block[r]
  <2>1. block'[r] = block[r] \/ block'[r] = block[r] + 1
    BY Zenon, <1>5
  <2>2. block[r] \in Nat /\ block'[r] \in Nat
    BY <1>6
  <2>. QED  BY <2>1, <2>2
<1>. QED  BY Zenon, <1>5, <1>6, <1>7

LEMMA WriteFileLands ==
  ASSUME TypeInv, NEW r \in Runs, WriteFile(r)
  PROVE  \A e : HasLanded(e)' <=> HasLanded(e) \/ e = Change(r)
<1>0. /\ cur[r] \in Sessions /\ Target(r) \in Files
      /\ \A s \in Sessions :
           landed'[s] = IF s = cur[r] THEN landed[s] \cup {<<Target(r), Change(r)>>}
                        ELSE landed[s]
  BY WriteFileKeepsTypeInv
<1>1. \A e : HasLanded(e) => HasLanded(e)'
  BY <1>0 DEF HasLanded
<1>2. \A e : e = Change(r) => HasLanded(e)'
  <2>1. <<Target(r), Change(r)>> \in landed'[cur[r]]
    BY <1>0
  <2>. QED  BY <1>0, <2>1 DEF HasLanded
<1>3. ASSUME NEW e, HasLanded(e)', e # Change(r)
      PROVE  HasLanded(e)
  <2>1. PICK s \in Sessions, f \in Files : <<f, e>> \in landed'[s]
    BY <1>3 DEF HasLanded
  <2>2. <<f, e>> # <<Target(r), Change(r)>>
    BY <1>3
  <2>3. landed'[s] = landed[s] \/ landed'[s] = landed[s] \cup {<<Target(r), Change(r)>>}
    BY <1>0
  <2>4. <<f, e>> \in landed[s]
    BY <2>1, <2>2, <2>3
  <2>. QED  BY <2>4 DEF HasLanded
<1>. QED  BY <1>1, <1>2, <1>3

LEMMA NextKeepsOnlyLanded == TypeInv /\ OnlyLanded /\ [Next]_vars => OnlyLanded'
<1>. SUFFICES ASSUME TypeInv, OnlyLanded, [Next]_vars
              PROVE  OnlyLanded'
  OBVIOUS
<1>1. Types /\ Types'
  BY NextKeepsTypeInv DEF TypeInv
<1>2. \A r \in Runs : block[r] \in Nat /\ block'[r] \in Nat /\ block'[r] >= block[r]
  BY BlocksOnlyGrow
<1>3. EditsIn(Absent) = {} /\ EditsIn(Empty) = {}
  BY EditsOfNothing
<1>4. ASSUME UNCHANGED <<landed, disk, prep>>,
             \A s \in Sessions : \A f \in Files :
               box'[s].before[f] \in {box[s].before[f], Absent, Empty}
      PROVE  OnlyLanded'
  BY <1>2, <1>3, <1>4, OnlyLandedStays DEF OnlyLanded
<1>5. ASSUME NEW r \in Runs, Prepare(r)
      PROVE  OnlyLanded'
  <2>1. PICK f \in Files : prep' = [prep EXCEPT ![r] = [file |-> f, original |-> disk[f]]]
    BY <1>5 DEF Prepare
  <2>2. \A q \in Runs : prep'[q].original \in {prep[q].original, disk[f]}
    BY <1>1, <2>1 DEF Types
  <2>3. UNCHANGED <<landed, disk, box>>
    BY <1>5 DEF Prepare, ghostVars
  <2>. QED  BY <1>2, <2>2, <2>3, OnlyLandedStays DEF OnlyLanded
<1>6. ASSUME NEW r \in Runs,
             \/ Decline(r) \/ MintFails(r) \/ RefuseStale(r) \/ ReuseSession(r) \/ BeginApply(r)
      PROVE  OnlyLanded'
  <2>1. UNCHANGED <<landed, disk, prep, box>>
    BY <1>6 DEF Decline, MintFails, RefuseStale, ReuseSession, BeginApply, ghostVars
  <2>. QED  BY <1>4, <2>1
<1>7. ASSUME NEW r \in Runs, MintSession(r)
      PROVE  OnlyLanded'
  <2>1. /\ UNCHANGED <<landed, disk, prep>>
        /\ \A s \in Sessions : box'[s] \in {box[s], EmptyBox}
    BY <1>7 DEF MintSession, ghostVars
  <2>2. \A f \in Files : EmptyBox.before[f] = Absent
    BY DEF EmptyBox
  <2>. QED  BY <1>4, <2>1, <2>2
<1>8. ASSUME NEW r \in Runs, SaveBefore(r)
      PROVE  OnlyLanded'
  <2>1. UNCHANGED <<landed, disk, prep>> /\ pc[r] = "verified"
    BY <1>8 DEF SaveBefore, ghostVars
  <2>2. EditsIn(ContentFound(r)) \subseteq EditsIn(prep[r].original)
    BY <2>1, TargetTypes
  <2>3. \A s \in Sessions : \A f \in Files :
          box'[s].before[f] \in {box[s].before[f], ContentFound(r)}
    BY <1>8, SaveBeforeKeepsTypeInv
  <2>. QED  BY <1>2, <2>1, <2>2, <2>3, OnlyLandedStays DEF OnlyLanded
<1>9. ASSUME NEW r \in Runs, SaveAfter(r) \/ SaveCreated(r) \/ BackupFails(r) \/ WriteFails(r)
      PROVE  OnlyLanded'
  <2>1. UNCHANGED <<landed, disk, prep>>
    BY <1>9 DEF SaveAfter, SaveCreated, BackupFails, WriteFails, ghostVars
  <2>2. \A s \in Sessions : \A f \in Files :
               box'[s].before[f] \in {box[s].before[f], Absent, Empty}
    <3>1. CASE SaveAfter(r)
      BY <3>1, SaveAfterLeavesBefore
    <3>2. CASE SaveCreated(r)
      BY <3>2, SaveCreatedKeepsTypeInv
    <3>3. CASE BackupFails(r)
      BY <3>3, BackupFailsKeepsTypeInv
    <3>4. CASE WriteFails(r)
      BY <3>4, WriteFailsKeepsTypeInv
    <3>. QED  BY <1>9, <3>1, <3>2, <3>3, <3>4
  <2>. QED  BY <1>4, <2>1, <2>2
<1>10. ASSUME NEW r \in Runs, WriteFile(r)
       PROVE  OnlyLanded'
  <2>1. /\ UNCHANGED <<prep, box>> /\ EndBlock(r, FALSE) /\ pc[r] = "ready"
    BY <1>10 DEF WriteFile
  <2>2. /\ cur[r] \in Sessions /\ Target(r) \in Files
        /\ \A f \in Files : disk'[f] = IF f = Target(r) THEN NewContent(r) ELSE disk[f]
        /\ \A s \in Sessions :
             landed'[s] = IF s = cur[r] THEN landed[s] \cup {<<Target(r), Change(r)>>}
                          ELSE landed[s]
    BY <1>10, WriteFileKeepsTypeInv
  <2>3. \A e : HasLanded(e)' <=> HasLanded(e) \/ e = Change(r)
    BY <1>10, WriteFileLands
  <2>4. EditsIn(NewContent(r)) \subseteq EditsIn(prep[r].original) \cup {Change(r)}
    BY <2>1, TargetTypes
  <2>5. \A f \in Files : \A e \in EditsIn(disk'[f]) : HasLanded(e)'
    BY <2>2, <2>3, <2>4 DEF OnlyLanded
  <2>6. block'[r] = block[r] + 1
    BY <2>1, EndBlockTypes DEF TypeInv
  <2>7. ASSUME NEW e \in Edits, HasLanded(e)'
        PROVE  e[2] < block'[e[1]]
    <3>1. e[1] \in Runs /\ e[2] \in Nat
      BY DEF Edits
    <3>2. CASE e = Change(r)
      BY <1>2, <2>6, <3>2 DEF Change
    <3>3. CASE HasLanded(e)
      BY <1>2, <3>1, <3>3 DEF OnlyLanded
    <3>. QED  BY <2>3, <2>7, <3>2, <3>3
  <2>. QED  BY <2>1, <2>3, <2>5, <2>7 DEF OnlyLanded
<1>11. ASSUME NEW u \in Undoers, NEW f \in Files, CommitRestore(u, f)
       PROVE  OnlyLanded'
  <2>1. /\ disk' = [disk EXCEPT ![f] = Reverted(usession[u], f)] /\ upc[u] = "restoring"
        /\ UNCHANGED <<landed, prep, box>>
    BY <1>11 DEF CommitRestore, runVars, ghostVars
  <2>2. usession[u] \in Sessions
    BY <2>1 DEF TypeInv, Stages
  <2>3. Reverted(usession[u], f) \in {Absent, box[usession[u]].before[f]}
    BY <2>2, RevertedTypes
  <2>4. \A g \in Files : disk'[g] \in {disk[g], Absent, box[usession[u]].before[f]}
    BY <1>1, <2>1, <2>3 DEF Types
  <2>. QED  BY <1>2, <1>3, <2>1, <2>2, <2>4, OnlyLandedStays DEF OnlyLanded
<1>12. ASSUME NEW u \in Undoers, ResolveSession(u) \/ UndoStep(u),
              ~\E f \in Files : CommitRestore(u, f)
       PROVE  OnlyLanded'
  <2>1. UNCHANGED <<landed, disk, prep, box>>
    BY <1>12 DEF ResolveSession, UndoStep, GuardFiles, UndoDone, UndoFails, runVars, ghostVars
  <2>. QED  BY <1>4, <2>1
<1>13. ASSUME NEW f \in Files, UserSaves(f) \/ UserDeletes(f)
       PROVE  OnlyLanded'
  <2>1. UNCHANGED <<landed, prep, box>>
    BY <1>13 DEF UserSaves, UserDeletes, UserWrites, runVars, ghostVars
  <2>2. \A g \in Files : EditsIn(disk'[g]) \subseteq EditsIn(disk[g])
    BY <1>13, UserKeepsTypeInv
  <2>. QED  BY <1>2, <2>1, <2>2, OnlyLandedStays DEF OnlyLanded
<1>14. ASSUME Crash \/ (\E s \in Sessions : MarkerAges(s)) \/ UNCHANGED vars
       PROVE  OnlyLanded'
  <2>1. UNCHANGED <<landed, disk, prep, box>>
    BY <1>14, CrashParts DEF MarkerAges, vars, runVars, ghostVars
  <2>. QED  BY <1>4, <2>1
<1>. QED  BY <1>5, <1>6, <1>7, <1>8, <1>9, <1>10, <1>11, <1>12, <1>13, <1>14
          DEF Next, ApplyStep, Crash

LEMMA InitHasLandedNothing == Init => OnlyLanded
<1>. SUFFICES ASSUME Init
              PROVE  OnlyLanded
  OBVIOUS
<1>1. EditsIn(<<<<"original", 0>>>>) = {}
  <2>1. <<<<"original", 0>>>> # Absent => EditsIn(<<<<"original", 0>>>>) = {<<"original", 0>>} \cap Edits
    BY DEF EditsIn, Edits
  <2>2. <<"original", 0>> \notin Edits
    BY DEF Edits
  <2>. QED  BY <2>1, <2>2, EditsOfNothing
<1>2. EditsIn(Absent) = {}
  BY EditsOfNothing
<1>3. \A f \in Files : EditsIn(disk[f]) = {}
  BY <1>1, <1>2 DEF Init
<1>4. \A s \in Sessions : \A f \in Files : EditsIn(box[s].before[f]) = {}
  BY <1>2 DEF Init, EmptyBox
<1>5. \A r \in Runs : EditsIn(prep[r].original) = {}
  BY <1>2 DEF Init
<1>6. \A e : ~HasLanded(e)
  BY DEF Init, HasLanded
<1>. QED  BY <1>3, <1>4, <1>5, <1>6 DEF OnlyLanded

-----------------------------------------------------------------------------
\* What a snapshot in after/ ends with.

LEMMA PastStays ==
  ASSUME TypeInv, [Next]_vars, NEW e \in Edits, IsPast(e)
  PROVE  IsPast(e)'
<1>1. e[1] \in Runs /\ e[2] \in Nat
  BY DEF Edits
<1>2. /\ block[e[1]] \in Nat /\ block'[e[1]] \in Nat /\ block'[e[1]] >= block[e[1]]
      /\ block'[e[1]] = block[e[1]] /\ pc[e[1]] = "over" => pc'[e[1]] = "over"
  BY <1>1, BlocksOnlyGrow
<1>. QED  BY <1>1, <1>2 DEF IsPast

\* A run that keeps its snapshot goes on with it, or its block is past.
KeepsMaking(r) ==
  /\ pc'[r] \in Saved <=> pc[r] \in Saved
  /\ block'[r] = block[r] /\ cur'[r] = cur[r] /\ prep'[r] = prep[r] /\ prev'[r] = prev[r]
GivesUp(r) ==
  pc'[r] \notin Saved /\ (block'[r] > block[r] \/ (block'[r] = block[r] /\ pc'[r] = "over"))
Prepares(r) == pc'[r] \notin Saved /\ pc[r] \notin Saved

LEMMA MakingStays ==
  ASSUME TypeInv, [Next]_vars, NEW e \in Edits, NEW s, NEW f, IsMaking(e, s, f),
         \A r \in Runs : KeepsMaking(r) \/ GivesUp(r) \/ Prepares(r)
  PROVE  IsPast(e)' \/ IsMaking(e, s, f)'
<1>1. /\ e[1] \in Runs /\ e[2] = block[e[1]] /\ pc[e[1]] \in Saved /\ cur[e[1]] = s
      /\ prep[e[1]].file = f
  BY DEF Edits, IsMaking, Target
<1>2. CASE KeepsMaking(e[1])
  BY <1>1, <1>2 DEF KeepsMaking, IsMaking, Target
<1>3. CASE GivesUp(e[1])
  BY <1>1, <1>3, BlocksOnlyGrow DEF GivesUp, IsPast
<1>4. CASE Prepares(e[1])
  BY <1>1, <1>4 DEF Prepares
<1>. QED  BY <1>1, <1>2, <1>3, <1>4

LEMMA AfterInvStays ==
  ASSUME TypeInv, AfterInv, [Next]_vars, landed' = landed,
         \A r \in Runs : KeepsMaking(r) \/ GivesUp(r) \/ Prepares(r),
         \A s \in Sessions : \A f \in Files :
           \/ box'[s].after[f] \in {box[s].after[f], Absent, Empty}
           \/ \E r \in Runs : /\ pc[r] \in Saved /\ s = cur[r] /\ f = Target(r)
                              /\ box'[s].after[f] = prev[r].after
  PROVE  AfterInv'
<1>1. \A e : HasLanded(e)' <=> HasLanded(e)
  BY DEF HasLanded
<1>2. \A c, s, f : EndsWithItsEdit(c, s, f) => EndsWithItsEdit(c, s, f)'
  BY <1>1 DEF EndsWithItsEdit
<1>3. ASSUME NEW c, NEW s, NEW f, IsOldSnapshot(c, s, f)
      PROVE  IsOldSnapshot(c, s, f)'
  BY <1>2, <1>3, PastStays DEF IsOldSnapshot, EndsWithItsEdit
<1>4. ASSUME NEW c, NEW s, NEW f, IsSnapshot(c, s, f)
      PROVE  IsSnapshot(c, s, f)'
  <2>1. EndsWithItsEdit(c, s, f)'
    BY <1>2, <1>4 DEF IsSnapshot
  <2>2. c \notin {Absent, Empty} => IsPast(Last(c))' \/ IsMaking(Last(c), s, f)'
    BY <1>4, PastStays, MakingStays DEF IsSnapshot, EndsWithItsEdit
  <2>. QED  BY <2>1, <2>2 DEF IsSnapshot
<1>5. \A c, s, f : IsOldSnapshot(c, s, f) => IsSnapshot(c, s, f)
  BY DEF IsOldSnapshot, IsSnapshot
<1>6. \A c \in {Absent, Empty} : \A s, f : IsSnapshot(c, s, f)
  BY DEF IsSnapshot, EndsWithItsEdit
<1>7. ASSUME NEW s \in Sessions, NEW f \in Files, NEW c, c = box'[s].after[f]
      PROVE  IsSnapshot(c, s, f)'
  <2>1. CASE c \in {box[s].after[f], Absent, Empty}
    BY <1>4, <1>6, <2>1 DEF AfterInv
  <2>2. CASE \E r \in Runs : pc[r] \in Saved /\ s = cur[r] /\ f = Target(r) /\ c = prev[r].after
    BY <1>4, <1>5, <2>2 DEF AfterInv
  <2>. QED  BY <1>7, <2>1, <2>2
<1>8. ASSUME NEW r \in Runs, pc'[r] \in Saved,
             NEW c, NEW s, NEW f, c = prev'[r].after, s = cur'[r], f = prep'[r].file
      PROVE  IsOldSnapshot(c, s, f)'
  <2>1. KeepsMaking(r)
    BY <1>8 DEF GivesUp, Prepares
  <2>2. pc[r] \in Saved /\ c = prev[r].after /\ s = cur[r] /\ f = Target(r)
    BY <1>8, <2>1 DEF KeepsMaking, Target
  <2>3. IsOldSnapshot(c, s, f)
    BY <2>2 DEF AfterInv
  <2>. QED  BY <1>3, <2>3
<1>. QED  BY <1>7, <1>8 DEF AfterInv, Target

LEMMA RunKeepsMaking ==
  ASSUME TypeInv, [Next]_vars, NEW r \in Runs, RunStep(r)
  PROVE  /\ \A q \in Runs : q # r => KeepsMaking(q)
         /\ pc'[r] \in {"idle", "over"} => GivesUp(r)
         /\ pc'[r] \notin Saved /\ pc[r] \notin Saved => Prepares(r)
<1>1. /\ \A q \in Runs : q # r => /\ pc'[q] = pc[q] /\ block'[q] = block[q]
                                  /\ cur'[q] = cur[q] /\ prep'[q] = prep[q] /\ prev'[q] = prev[q]
      /\ \/ block'[r] = block[r] + 1 /\ pc'[r] \in {"idle", "over"}
         \/ block'[r] = block[r] /\ pc'[r] \notin {"idle", "over"}
  BY RunStepIsItsOwn
<1>2. block[r] \in Nat
  BY DEF TypeInv, Types
<1>3. ASSUME pc'[r] \in {"idle", "over"}
      PROVE  GivesUp(r)
  <2>1. block'[r] = block[r] + 1
    BY <1>1, <1>3
  <2>2. block'[r] > block[r]
    BY <1>2, <2>1
  <2>. QED  BY <1>3, <2>2 DEF GivesUp, Saved
<1>. QED  BY <1>1, <1>3 DEF KeepsMaking, Prepares

LEMMA CrashKeepsMaking ==
  ASSUME TypeInv, Crash
  PROVE  \A r \in Runs : KeepsMaking(r) \/ GivesUp(r) \/ Prepares(r)
<1>1. /\ UNCHANGED <<prep, cur, prev>>
      /\ \A r \in Runs : RunSurvives(r) \/ RunDies(r) \/ BlockDies(r)
  BY CrashParts
<1>2. ASSUME NEW r \in Runs, RunSurvives(r)
      PROVE  KeepsMaking(r)
  BY <1>1, <1>2 DEF RunSurvives, KeepsMaking
<1>3. ASSUME NEW r \in Runs, RunDies(r)
      PROVE  GivesUp(r)
  BY <1>3 DEF RunDies, GivesUp, Saved
<1>4. ASSUME NEW r \in Runs, BlockDies(r)
      PROVE  GivesUp(r)
  <2>1. block[r] \in Nat
    BY DEF TypeInv, Types
  <2>2. block'[r] > block[r] /\ pc'[r] \in {"idle", "over"}
    BY <1>4, <2>1 DEF BlockDies
  <2>. QED  BY <2>2 DEF GivesUp, Saved
<1>. QED  BY <1>1, <1>2, <1>3, <1>4

\* A run that is making an edit holds the lock.
LEMMA MakerHoldsLock ==
  ASSUME TypeInv, LockInv, NEW e \in Edits, NEW s, NEW f, IsMaking(e, s, f)
  PROVE  lock = e[1]
  BY DEF Edits, IsMaking, LockInv, Saved, Applying

LEMMA NextKeepsAfterInv ==
  TypeInv /\ LockInv /\ OnlyLanded /\ AfterInv /\ [Next]_vars => AfterInv'
<1>. SUFFICES ASSUME TypeInv, LockInv, OnlyLanded, AfterInv, [Next]_vars
              PROVE  AfterInv'
  OBVIOUS
<1>1. ASSUME NEW r \in Runs, RunStep(r), landed' = landed,
             \/ pc'[r] \in {"idle", "over"}
             \/ pc'[r] \notin Saved /\ pc[r] \notin Saved
             \/ KeepsMaking(r),
             \A s \in Sessions : \A f \in Files :
               \/ box'[s].after[f] \in {box[s].after[f], Absent, Empty}
               \/ /\ pc[r] \in Saved /\ s = cur[r] /\ f = Target(r)
                  /\ box'[s].after[f] = prev[r].after
      PROVE  AfterInv'
  <2>1. \A q \in Runs : KeepsMaking(q) \/ GivesUp(q) \/ Prepares(q)
    BY <1>1, RunKeepsMaking
  <2>. QED  BY <1>1, <2>1, AfterInvStays
<1>2. ASSUME NEW r \in Runs, Prepare(r) \/ Decline(r) \/ MintFails(r) \/ RefuseStale(r)
      PROVE  AfterInv'
  <2>1. RunStep(r) /\ landed' = landed /\ box' = box
    BY <1>2 DEF RunStep, ApplyStep, Prepare, Decline, MintFails, RefuseStale, ghostVars
  <2>2. CASE Prepare(r)
    <3>1. pc[r] = "idle" /\ pc'[r] = "prepared"
      BY <2>2 DEF Prepare, TypeInv, Types
    <3>. QED  BY <1>1, <2>1, <3>1 DEF Saved
  <2>3. CASE Decline(r) \/ MintFails(r) \/ RefuseStale(r)
    <3>1. pc'[r] \in {"idle", "over"}
      BY <2>3, EndBlockTypes DEF Decline, MintFails, RefuseStale, TypeInv
    <3>. QED  BY <1>1, <2>1, <3>1
  <2>. QED  BY <1>2, <2>2, <2>3
<1>3. ASSUME NEW r \in Runs, ReuseSession(r) \/ BeginApply(r) \/ MintSession(r)
      PROVE  AfterInv'
  <2>1. RunStep(r) /\ landed' = landed /\ pc[r] \in {"prepared", "session"}
    BY <1>3 DEF RunStep, ApplyStep, ReuseSession, BeginApply, MintSession, ghostVars
  <2>2. pc'[r] \in {"session", "verified"}
    BY <1>3 DEF ReuseSession, BeginApply, MintSession, TypeInv, Types
  <2>3. \A s \in Sessions : box'[s] \in {box[s], EmptyBox}
    BY <1>3 DEF ReuseSession, BeginApply, MintSession
  <2>4. \A f \in Files : EmptyBox.after[f] = Absent
    BY DEF EmptyBox
  <2>5. pc'[r] \notin Saved /\ pc[r] \notin Saved
    BY <2>1, <2>2 DEF Saved
  <2>6. \A s \in Sessions : \A f \in Files : box'[s].after[f] \in {box[s].after[f], Absent, Empty}
    BY <2>3, <2>4
  <2>. QED  BY <1>1, <2>1, <2>5, <2>6
<1>4. ASSUME NEW r \in Runs, SaveBefore(r)
      PROVE  AfterInv'
  <2>1. RunStep(r) /\ landed' = landed /\ pc[r] = "verified"
    BY <1>4 DEF RunStep, ApplyStep, SaveBefore, ghostVars
  <2>2. pc'[r] = "before kept"
    BY <1>4 DEF SaveBefore, TypeInv, Types
  <2>3. \A s \in Sessions : \A f \in Files : box'[s].after[f] = box[s].after[f]
    BY <1>4, SaveBeforeKeepsTypeInv
  <2>. QED  BY <1>1, <2>1, <2>2, <2>3 DEF Saved
<1>5. ASSUME NEW r \in Runs, SaveCreated(r)
      PROVE  AfterInv'
  <2>1. RunStep(r) /\ pc[r] = "after kept" /\ UNCHANGED <<landed, block, cur, prep, prev>>
    BY <1>5 DEF RunStep, ApplyStep, SaveCreated, ghostVars
  <2>2. pc'[r] = "ready"
    BY <1>5 DEF SaveCreated, TypeInv, Types
  <2>3. KeepsMaking(r)
    BY <2>1, <2>2 DEF KeepsMaking, Saved
  <2>4. \A s \in Sessions : box'[s].after = box[s].after
    BY <1>5, SaveCreatedKeepsTypeInv
  <2>. QED  BY <1>1, <2>1, <2>3, <2>4
<1>6. ASSUME NEW r \in Runs, BackupFails(r)
      PROVE  AfterInv'
  <2>1. RunStep(r) /\ landed' = landed /\ EndBlock(r, TRUE)
    BY <1>6 DEF RunStep, ApplyStep, BackupFails, ghostVars
  <2>2. /\ pc[r] \in Applying
        /\ \A s \in Sessions : \A f \in Files :
             \/ box'[s].after[f] \in {box[s].after[f], Empty}
             \/ /\ s = cur[r] /\ f = Target(r) /\ pc[r] = "after kept"
                /\ box'[s].after[f] = prev[r].after
    BY <1>6, BackupFailsKeepsTypeInv
  <2>3. pc'[r] \in {"idle", "over"}
    BY <2>1, <2>2, EndBlockTypes DEF TypeInv, Applying
  <2>4. \A s \in Sessions : \A f \in Files :
          \/ box'[s].after[f] \in {box[s].after[f], Absent, Empty}
          \/ /\ pc[r] \in Saved /\ s = cur[r] /\ f = Target(r)
             /\ box'[s].after[f] = prev[r].after
    BY <2>2 DEF Saved
  <2>. QED  BY <1>1, <2>1, <2>3, <2>4
<1>7. ASSUME NEW r \in Runs, WriteFails(r)
      PROVE  AfterInv'
  <2>1. RunStep(r) /\ landed' = landed /\ EndBlock(r, TRUE) /\ pc[r] = "ready"
    BY <1>7 DEF RunStep, ApplyStep, WriteFails, ghostVars
  <2>2. \A s \in Sessions : \A f \in Files :
          \/ box'[s].after[f] = box[s].after[f]
          \/ s = cur[r] /\ f = Target(r) /\ box'[s].after[f] = prev[r].after
    BY <1>7, WriteFailsKeepsTypeInv
  <2>3. pc'[r] \in {"idle", "over"}
    BY <2>1, EndBlockTypes DEF TypeInv
  <2>4. \A s \in Sessions : \A f \in Files :
          \/ box'[s].after[f] \in {box[s].after[f], Absent, Empty}
          \/ /\ pc[r] \in Saved /\ s = cur[r] /\ f = Target(r)
             /\ box'[s].after[f] = prev[r].after
    BY <2>1, <2>2 DEF Saved
  <2>. QED  BY <1>1, <2>1, <2>3, <2>4
<1>8. ASSUME NEW r \in Runs, SaveAfter(r)
      PROVE  AfterInv'
  <2>1. /\ RunStep(r) /\ pc[r] = "before kept"
        /\ UNCHANGED <<landed, block, cur, prep>>
    BY <1>8 DEF RunStep, ApplyStep, SaveAfter, ghostVars
  <2>2. /\ cur[r] \in Sessions /\ Target(r) \in Files
        /\ \A s \in Sessions : \A f \in Files :
             box'[s].after[f] = IF s = cur[r] /\ f = Target(r) THEN NewContent(r)
                                ELSE box[s].after[f]
        /\ prev'[r].after = box[cur[r]].after[Target(r)]
        /\ pc'[r] \in {"after kept", "ready"} /\ \A q \in Runs : q # r => pc'[q] = pc[q]
    BY <1>8, SaveAfterKeepsTypeInv
  <2>3. lock = r
    BY <2>1 DEF LockInv, Applying
  <2>4. \A e : HasLanded(e)' <=> HasLanded(e)
    BY <2>1 DEF HasLanded
  <2>5. ASSUME NEW s \in Sessions, NEW f \in Files, NEW c, c = box[s].after[f]
        PROVE  IsOldSnapshot(c, s, f)'
    <3>1. IsSnapshot(c, s, f)
      BY <2>5 DEF AfterInv
    <3>2. ASSUME NEW e \in Edits
          PROVE  ~IsMaking(e, s, f)
      <4>1. pc[r] \notin Saved
        BY <2>1 DEF Saved
      <4>. QED  BY <2>3, <4>1, MakerHoldsLock DEF IsMaking
    <3>3. EndsWithItsEdit(c, s, f)'
      BY <2>1, <2>4, <3>1 DEF IsSnapshot, EndsWithItsEdit
    <3>4. c \notin {Absent, Empty} => IsPast(Last(c))'
      BY <3>1, <3>2, PastStays DEF IsSnapshot, EndsWithItsEdit
    <3>. QED  BY <3>3, <3>4 DEF IsOldSnapshot
  <2>6. ASSUME NEW c, NEW s, NEW f, c = NewContent(r), s = cur[r], f = Target(r)
        PROVE  IsSnapshot(c, s, f)'
    <3>. DEFINE e == Last(c)
    <3>1. e = <<r, block[r]>> /\ e \in Edits
      BY <2>1, <2>6, TargetTypes DEF Change
    <3>2. ~HasLanded(e)
      <4>1. block[r] \in Nat
        BY DEF TypeInv, Types
      <4>. QED  BY <3>1, <4>1 DEF OnlyLanded
    <3>3. IsMaking(e, s, f)'
      <4>1. e[1] = r /\ e[2] = block[r]
        BY <3>1
      <4>2. block'[r] = block[r] /\ pc'[r] \in Saved /\ cur'[r] = s /\ prep'[r].file = f
        BY <2>1, <2>2, <2>6 DEF Target, Saved
      <4>. HIDE DEF e
      <4>. QED  BY <4>1, <4>2 DEF IsMaking, Target
    <3>4. ~HasLanded(e)'
      BY <2>4, <3>2
    <3>5. EndsWithItsEdit(c, s, f)'
      BY <3>1, <3>4 DEF EndsWithItsEdit
    <3>. QED  BY <3>3, <3>5 DEF IsSnapshot
  <2>7. ASSUME NEW s \in Sessions, NEW f \in Files, NEW c, c = box'[s].after[f]
        PROVE  IsSnapshot(c, s, f)'
    <3>1. CASE s = cur[r] /\ f = Target(r)
      BY <2>2, <2>6, <2>7, <3>1
    <3>2. CASE ~(s = cur[r] /\ f = Target(r))
      BY <2>2, <2>5, <2>7, <3>2 DEF IsOldSnapshot, IsSnapshot
    <3>. QED  BY <3>1, <3>2
  <2>8. ASSUME NEW q \in Runs, pc'[q] \in Saved,
               NEW c, NEW s, NEW f, c = prev'[q].after, s = cur'[q], f = prep'[q].file
        PROVE  IsOldSnapshot(c, s, f)'
    <3>1. q = r
      <4>1. q # r => pc[q] \in Applying
        BY <2>2, <2>8 DEF Saved, Applying
      <4>. QED  BY <2>3, <4>1, OnlyTheHolderWorks
    <3>2. s = cur[r] /\ f = Target(r) /\ c = box[s].after[f]
      BY <2>1, <2>2, <2>8, <3>1 DEF Target
    <3>. QED  BY <2>2, <2>5, <3>2
  <2>. QED  BY <2>7, <2>8 DEF AfterInv, Target
<1>9. ASSUME NEW r \in Runs, WriteFile(r)
      PROVE  AfterInv'
  <2>1. /\ RunStep(r) /\ pc[r] = "ready" /\ EndBlock(r, FALSE)
        /\ UNCHANGED <<box, cur, prep, prev>>
    BY <1>9 DEF RunStep, ApplyStep, WriteFile
  <2>2. /\ \A s \in Sessions :
             landed'[s] = IF s = cur[r] THEN landed[s] \cup {<<Target(r), Change(r)>>}
                          ELSE landed[s]
        /\ \A e : HasLanded(e)' <=> HasLanded(e) \/ e = Change(r)
    BY <1>9, WriteFileKeepsTypeInv, WriteFileLands
  <2>3. lock = r
    BY <2>1 DEF LockInv, Applying
  <2>4. pc'[r] \in {"idle", "over"} /\ \A q \in Runs : q # r => pc'[q] = pc[q]
    BY <2>1, EndBlockTypes DEF TypeInv
  <2>5. \A q \in Runs : pc'[q] \notin Saved
    <3>1. \A q \in Runs : q # r => pc[q] \notin Applying
      BY <2>3, OnlyTheHolderWorks
    <3>. QED  BY <2>4, <3>1 DEF Saved, Applying
  <2>6. \A q \in Runs : KeepsMaking(q) \/ GivesUp(q) \/ Prepares(q)
    BY <2>1, <2>4, RunKeepsMaking
  <2>7. ASSUME NEW s \in Sessions, NEW f \in Files, NEW c, c = box[s].after[f],
               c \notin {Absent, Empty}
        PROVE  IsSnapshot(c, s, f)'
    <3>. DEFINE e == Last(c)
    <3>1. /\ e \in Edits /\ (HasLanded(e) => <<f, e>> \in landed[s])
          /\ IsPast(e) \/ IsMaking(e, s, f)
      BY <2>7 DEF AfterInv, IsSnapshot, EndsWithItsEdit
    <3>. HIDE DEF e
    <3>2. IsPast(e)' \/ IsMaking(e, s, f)'
      BY <2>6, <3>1, PastStays, MakingStays
    <3>3. HasLanded(e) => <<f, e>> \in landed'[s]
      BY <2>2, <3>1
    <3>4. ASSUME e = Change(r)
          PROVE  <<f, e>> \in landed'[s]
      <4>1. e[1] = r /\ e[2] = block[r] /\ block[r] \in Nat
        BY <3>4 DEF Change, TypeInv, Types
      <4>2. ~IsPast(e)
        BY <2>1, <4>1 DEF IsPast
      <4>3. s = cur[r] /\ f = Target(r)
        BY <3>1, <4>1, <4>2 DEF IsMaking
      <4>. QED  BY <2>2, <3>4, <4>3
    <3>5. HasLanded(e)' => <<f, e>> \in landed'[s]
      BY <2>2, <3>3, <3>4
    <3>. QED  BY <3>1, <3>2, <3>5 DEF IsSnapshot, EndsWithItsEdit, e
  <2>8. ASSUME NEW s \in Sessions, NEW f \in Files, NEW c, c = box'[s].after[f]
        PROVE  IsSnapshot(c, s, f)'
    <3>1. c \in {Absent, Empty} => IsSnapshot(c, s, f)'
      BY DEF IsSnapshot, EndsWithItsEdit
    <3>. QED  BY <2>1, <2>7, <2>8, <3>1
  <2>. QED  BY <2>5, <2>8 DEF AfterInv
<1>10. ASSUME UNCHANGED <<landed, box>>,
              \A q \in Runs : KeepsMaking(q) \/ GivesUp(q) \/ Prepares(q)
       PROVE  AfterInv'
  BY <1>10, AfterInvStays
<1>11. ASSUME NEW u \in Undoers, ResolveSession(u) \/ UndoStep(u)
       PROVE  AfterInv'
  <2>1. UNCHANGED <<landed, box, pc, block, cur, prep, prev>>
    BY <1>11 DEF ResolveSession, UndoStep, GuardFiles, CommitRestore, UndoDone, UndoFails, runVars,
             ghostVars
  <2>. QED  BY <1>10, <2>1 DEF KeepsMaking
<1>12. ASSUME \/ \E f \in Files : UserSaves(f) \/ UserDeletes(f)
              \/ \E s \in Sessions : MarkerAges(s)
              \/ UNCHANGED vars
       PROVE  AfterInv'
  <2>1. UNCHANGED <<landed, box, pc, block, cur, prep, prev>>
    BY <1>12 DEF UserSaves, UserDeletes, UserWrites, MarkerAges, vars, runVars, ghostVars
  <2>. QED  BY <1>10, <2>1 DEF KeepsMaking
<1>13. CASE Crash
  <2>1. UNCHANGED <<landed, box>>
    BY <1>13, CrashParts
  <2>. QED  BY <1>10, <1>13, <2>1, CrashKeepsMaking
<1>. QED  BY <1>2, <1>3, <1>4, <1>5, <1>6, <1>7, <1>8, <1>9, <1>11, <1>12, <1>13
          DEF Next, ApplyStep, Crash

LEMMA InitHasNoSnapshots == Init => AfterInv
  BY DEF Init, AfterInv, IsSnapshot, EndsWithItsEdit, EmptyBox, Saved

\* An undo that nobody forced changes a file only when the last change to it was an edit of the
\* session being undone, or when there is nothing in it.
THEOREM UndoKnowsItsOwnEdits == Spec => UndoStartsFromItsOwnEdit
<1>1. ASSUME TypeInv, OnlyLanded, AfterInv, [Next]_vars
      PROVE  [\A u \in Undoers :
                upc[u] = "resolved" /\ upc'[u] = "restoring" /\ ~forced'[u] =>
                  \A f \in batch'[u] :
                    disk[f] = Empty \/ <<f, Last(disk[f])>> \in landed[usession[u]]]_vars
  <2>. SUFFICES ASSUME Next, NEW u \in Undoers,
                       upc[u] = "resolved", upc'[u] = "restoring", ~forced'[u],
                       NEW f \in batch'[u], disk[f] # Empty
                PROVE  <<f, Last(disk[f])>> \in landed[usession[u]]
    BY <1>1
  <2>. DEFINE s == usession[u]  c == disk[f]
  <2>1. GuardFiles(u)
    <3>1. ASSUME NEW r \in Runs, RunStep(r)
          PROVE  UNCHANGED upc
      BY <1>1, <3>1, RunStepIsItsOwn
    <3>2. ASSUME Crash
          PROVE  upc'[u] \in {upc[u], "over"}
      BY <1>1, <3>2, CrashParts DEF UndoSurvives
    <3>3. ASSUME \/ \E g \in Files : UserSaves(g) \/ UserDeletes(g)
                 \/ \E t \in Sessions : MarkerAges(t)
          PROVE  UNCHANGED upc
      BY <3>3 DEF UserSaves, UserDeletes, UserWrites, MarkerAges, undoVars
    <3>4. ASSUME NEW v \in Undoers, ResolveSession(v)
          PROVE  upc'[u] \in {upc[u], "resolved"}
      BY <1>1, <3>4 DEF ResolveSession, TypeInv, Types
    <3>5. ASSUME NEW v \in Undoers, \/ UndoDone(v) \/ UndoFails(v)
                                    \/ \E g \in Files : CommitRestore(v, g)
          PROVE  upc'[u] \in {upc[u], "over"}
      BY <1>1, <3>5 DEF UndoDone, UndoFails, CommitRestore, EndUndo, TypeInv, Types
    <3>6. ASSUME NEW v \in Undoers, GuardFiles(v)
          PROVE  v = u
      BY <1>1, <3>6 DEF GuardFiles, TypeInv, Types
    <3>. QED  BY <3>1, <3>2, <3>3, <3>4, <3>5, <3>6 DEF Next, Crash, RunStep, UndoStep
  <2>2. s \in Sessions
    BY <1>1 DEF TypeInv, Stages
  <2>3. f \in Unchanged(s)
    BY <1>1, <2>1 DEF GuardFiles, TypeInv, Types
  <2>4. f \in Files /\ c # Absent /\ c = box[s].after[f]
    BY <2>3 DEF Unchanged, BackedUp
  <2>5. Last(c) \in Edits /\ (HasLanded(Last(c)) => <<f, Last(c)>> \in landed[s])
    BY <1>1, <2>2, <2>4 DEF AfterInv, IsSnapshot, EndsWithItsEdit
  <2>6. Last(c) \in EditsIn(c)
    <3>1. c \in Seq(Writers \X Nat) /\ c # << >>
      BY <1>1, <2>4 DEF TypeInv, Types, Contents, Empty
    <3>2. Len(c) \in DOMAIN c
      BY <3>1, LenProperties, EmptySeq
    <3>. QED  BY <2>4, <2>5, <3>2 DEF EditsIn, Edits, Last
  <2>. QED  BY <1>1, <2>4, <2>5, <2>6 DEF OnlyLanded
<1>. QED  BY <1>1, InitIsTyped, NextKeepsTypeInv, InitHoldsLock, NextKeepsLockInv,
             InitHasLandedNothing, NextKeepsOnlyLanded, InitHasNoSnapshots, NextKeepsAfterInv, PTL
          DEF Spec, UndoStartsFromItsOwnEdit
=============================================================================
