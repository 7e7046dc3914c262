-------------------------- MODULE WorkingCopyProofs --------------------------
(***************************************************************************)
(* What a turn's working copy keeps, for any files, contents, names,       *)
(* limits and bounds: the types, that a review undoes no save of the       *)
(* user's, that what of the project was removed with the user's consent    *)
(* stays removed, and that a checkpoint and the judge's best code come     *)
(* back whole.                                                             *)
(***************************************************************************)
EXTENDS WorkingCopy, NumberTheorems, FiniteSetTheorems, SequenceTheorems, TLAPS

-----------------------------------------------------------------------------
\* Least and greatest numbers.

LEMMA MinIsLeast ==
  ASSUME NEW T \in SUBSET Nat, T # {}
  PROVE  Min(T) \in T
  BY LeastNumber DEF Min

LEMMA MaxIsGreatest ==
  ASSUME NEW n \in Nat, NEW T \in SUBSET (1 .. n), T # {}
  PROVE  Max(T) \in T
<1>. DEFINE Below == {n - k : k \in T}
<1>1. Below \in SUBSET Nat /\ Below # {}
  <2>1. \A k \in T : n - k \in Nat
    OBVIOUS
  <2>2. PICK k \in T : TRUE
    OBVIOUS
  <2>3. n - k \in Below
    OBVIOUS
  <2>. QED  BY <2>1, <2>3
<1>2. PICK m \in Below : \A k \in Below : m <= k
  <2>. HIDE DEF Below
  <2>. QED  BY <1>1, LeastNumber
<1>3. PICK x \in T : m = n - x
  BY <1>2
<1>4. \A y \in T : x >= y
  <2>1. \A y \in T : m <= n - y
    BY <1>2
  <2>. QED  BY <1>3, <2>1
<1>. QED  BY <1>3, <1>4 DEF Max

-----------------------------------------------------------------------------
\* The checkpoints of other names are checkpoints, and no more than there were.  OthersThan
\* walks over the list; Walks gives what it has found after each set of places, and which it
\* is follows by induction over how many places those are.

Walk(seq, name, it, s) ==
  IF s = {} THEN <<>>
  ELSE IF seq[Max(s)].name = name THEN it[s \ {Max(s)}]
       ELSE Append(it[s \ {Max(s)}], seq[Max(s)])

Walks(seq, name, it) == it = [s \in SUBSET DOMAIN seq |-> Walk(seq, name, it, s)]

\* Sequences over T that are no longer than n.
UpTo(T, n) == {seq \in Seq(T) : Len(seq) <= n}

LEMMA Places ==
  ASSUME NEW n \in Nat, NEW s \in SUBSET (1 .. n)
  PROVE  /\ Cardinality(s) \in Nat
         /\ Cardinality(s) = 0 <=> s = {}
         /\ s # {} => /\ Max(s) \in s /\ s \ {Max(s)} \in SUBSET (1 .. n)
                      /\ Cardinality(s \ {Max(s)}) = Cardinality(s) - 1
<1>1. IsFiniteSet(1 .. n)
  BY FS_Interval
<1>2. IsFiniteSet(s)
  BY <1>1, FS_Subset
<1>3. Cardinality(s) \in Nat
  BY <1>2, FS_CardinalityType
<1>4. Cardinality(s) = 0 <=> s = {}
  BY <1>2, FS_EmptySet
<1>5. s # {} => Max(s) \in s
  BY MaxIsGreatest
<1>6. s # {} => Cardinality(s \ {Max(s)}) = Cardinality(s) - 1
  BY <1>2, <1>5, FS_RemoveElement
<1>. QED  BY <1>3, <1>4, <1>5, <1>6

\* One more place.
LEMMA WalkFinds ==
  ASSUME NEW T, NEW seq \in Seq(T), NEW name, NEW it,
         NEW s \in SUBSET DOMAIN seq, s # {},
         it[s \ {Max(s)}] \in UpTo(T, Cardinality(s \ {Max(s)}))
  PROVE  Walk(seq, name, it, s) \in UpTo(T, Cardinality(s))
<1>1. DOMAIN seq = 1 .. Len(seq) /\ Len(seq) \in Nat
  OBVIOUS
<1>2. /\ Cardinality(s) \in Nat /\ Cardinality(s \ {Max(s)}) = Cardinality(s) - 1
      /\ Max(s) \in DOMAIN seq
  BY <1>1, Places
<1>3. PICK found \in Seq(T) : found = it[s \ {Max(s)}] /\ Len(found) <= Cardinality(s) - 1
  BY <1>2 DEF UpTo
<1>4. seq[Max(s)] \in T
  BY <1>2
<1>5. /\ Append(found, seq[Max(s)]) \in Seq(T)
      /\ Len(Append(found, seq[Max(s)])) = Len(found) + 1 /\ Len(found) \in Nat
  BY <1>4
<1>6. found \in UpTo(T, Cardinality(s))
  BY <1>2, <1>3, <1>5 DEF UpTo
<1>7. Append(found, seq[Max(s)]) \in UpTo(T, Cardinality(s))
  BY <1>2, <1>3, <1>5 DEF UpTo
<1>. QED  BY <1>3, <1>6, <1>7 DEF Walk

LEMMA AllPlaces ==
  ASSUME NEW n \in Nat
  PROVE  /\ Cardinality(1 .. n) = n
         /\ \A s \in SUBSET (1 .. n) : Cardinality(s) <= n
<1>1. IsFiniteSet(1 .. n) /\ Cardinality(1 .. n) = n
  BY FS_Interval
<1>2. \A s \in SUBSET (1 .. n) : Cardinality(s) <= Cardinality(1 .. n)
  BY <1>1, FS_Subset
<1>. QED  BY <1>1, <1>2

LEMMA WalkExists ==
  ASSUME NEW T, NEW seq \in Seq(T), NEW name
  PROVE  \E it : Walks(seq, name, it)
<1>. DEFINE S == DOMAIN seq
            Some(n) == {s \in SUBSET S : Cardinality(s) <= n}
            Has(n)  == \E it \in [Some(n) -> Seq(T)] :
                         \A s \in Some(n) : /\ it[s] = Walk(seq, name, it, s)
                                            /\ it[s] \in UpTo(T, Cardinality(s))
            G == {n \in Nat : Has(n)}
<1>0. S = 1 .. Len(seq) /\ Len(seq) \in Nat
  OBVIOUS
<1>1. 0 \in G
  <2>1. ASSUME NEW s \in Some(0)
        PROVE  s = {}
    <3>1. s \in SUBSET S /\ Cardinality(s) <= 0
      OBVIOUS
    <3>2. Cardinality(s) \in Nat /\ (Cardinality(s) = 0 <=> s = {})
      BY <1>0, <3>1, Places
    <3>. QED  BY <3>1, <3>2
  <2>. DEFINE it == [s \in Some(0) |-> <<>>]
  <2>2. it \in [Some(0) -> Seq(T)]
    OBVIOUS
  <2>3. ASSUME NEW s \in Some(0)
        PROVE  it[s] = Walk(seq, name, it, s) /\ it[s] \in UpTo(T, Cardinality(s))
    <3>1. Cardinality(s) = 0
      <4>1. s \in SUBSET S
        OBVIOUS
      <4>. QED  BY <1>0, <2>1, <4>1, Places
    <3>2. <<>> \in UpTo(T, 0)
      BY DEF UpTo
    <3>. QED  BY <2>1, <3>1, <3>2 DEF Walk
  <2>4. Has(0)
    <3>. HIDE DEF it
    <3>. QED  BY <2>2, <2>3
  <2>. QED  BY <2>4
<1>2. ASSUME NEW n \in G
      PROVE  n + 1 \in G
  <2>1. PICK it \in [Some(n) -> Seq(T)] :
          \A s \in Some(n) : /\ it[s] = Walk(seq, name, it, s)
                             /\ it[s] \in UpTo(T, Cardinality(s))
    OBVIOUS
  <2>2. n \in Nat /\ n + 1 \in Nat
    OBVIOUS
  <2>. DEFINE jt == [s \in Some(n + 1) |-> Walk(seq, name, it, s)]
  <2>3. ASSUME NEW s \in Some(n + 1), s # {}
        PROVE  s \ {Max(s)} \in Some(n)
    <3>1. s \in SUBSET S /\ Cardinality(s) <= n + 1
      OBVIOUS
    <3>2. /\ s \ {Max(s)} \in SUBSET S /\ Cardinality(s) \in Nat
          /\ Cardinality(s \ {Max(s)}) = Cardinality(s) - 1
      BY <1>0, <2>3, <3>1, Places
    <3>3. Cardinality(s \ {Max(s)}) <= n
      BY <2>2, <3>1, <3>2
    <3>. QED  BY <3>2, <3>3
  <2>4. ASSUME NEW s \in Some(n + 1)
        PROVE  Walk(seq, name, it, s) \in UpTo(T, Cardinality(s))
    <3>0. s \in SUBSET S
      OBVIOUS
    <3>1. CASE s = {}
      <4>1. Cardinality(s) = 0
        BY <1>0, <3>0, <3>1, Places
      <4>. QED  BY <3>1, <4>1 DEF Walk, UpTo
    <3>2. CASE s # {}
      <4>1. it[s \ {Max(s)}] \in UpTo(T, Cardinality(s \ {Max(s)}))
        BY <2>1, <2>3, <3>2
      <4>. QED  BY <3>0, <3>2, <4>1, WalkFinds
    <3>. QED  BY <3>1, <3>2
  <2>5. jt \in [Some(n + 1) -> Seq(T)]
    <3>1. \A s \in Some(n + 1) : Walk(seq, name, it, s) \in Seq(T)
      BY <2>4 DEF UpTo
    <3>. QED  BY <3>1
  <2>6. ASSUME NEW s \in Some(n)
        PROVE  s \in Some(n + 1) /\ jt[s] = it[s]
    <3>1. s \in Some(n + 1)
      <4>1. s \in SUBSET S /\ Cardinality(s) <= n
        OBVIOUS
      <4>2. Cardinality(s) \in Nat
        BY <1>0, <4>1, Places
      <4>3. Cardinality(s) <= n + 1
        BY <2>2, <4>1, <4>2
      <4>. QED  BY <4>1, <4>3
    <3>. QED  BY <2>1, <3>1
  <2>7. ASSUME NEW s \in Some(n + 1)
        PROVE  jt[s] = Walk(seq, name, jt, s) /\ jt[s] \in UpTo(T, Cardinality(s))
    <3>1. CASE s = {}
      BY <2>4, <3>1 DEF Walk
    <3>2. CASE s # {}
      <4>1. jt[s \ {Max(s)}] = it[s \ {Max(s)}]
        BY <2>3, <2>6, <3>2
      <4>. QED  BY <2>4, <4>1 DEF Walk
    <3>. QED  BY <3>1, <3>2
  <2>8. Has(n + 1)
    <3>. HIDE DEF jt
    <3>. QED  BY <2>5, <2>7
  <2>. QED  BY <2>2, <2>8
<1>3. Len(seq) \in G
  <2>1. G = Nat
    <3>. HIDE DEF G
    <3>1. G \in SUBSET Nat
      BY DEF G
    <3>. QED  BY <1>1, <1>2, <3>1, AllNumbers
  <2>. HIDE DEF G
  <2>. QED  BY <1>0, <2>1
<1>4. Some(Len(seq)) = SUBSET S
  <2>1. \A s \in SUBSET S : Cardinality(s) <= Len(seq)
    BY <1>0, AllPlaces
  <2>. QED  BY <2>1
<1>5. PICK it \in [SUBSET S -> Seq(T)] : \A s \in SUBSET S : it[s] = Walk(seq, name, it, s)
  <2>1. Has(Len(seq))
    BY <1>3
  <2>. QED  BY <1>4, <2>1
<1>. QED  BY <1>5 DEF Walks

LEMMA WalkFindsAll ==
  ASSUME NEW T, NEW seq \in Seq(T), NEW name, NEW it, Walks(seq, name, it)
  PROVE  it[DOMAIN seq] \in UpTo(T, Len(seq))
<1>. DEFINE S == DOMAIN seq
            G == {n \in Nat : \A s \in SUBSET S : Cardinality(s) = n => it[s] \in UpTo(T, n)}
<1>0. /\ S = 1 .. Len(seq) /\ Len(seq) \in Nat
      /\ \A s \in SUBSET S : it[s] = Walk(seq, name, it, s)
  BY DEF Walks
<1>1. 0 \in G
  <2>1. ASSUME NEW s \in SUBSET S, Cardinality(s) = 0
        PROVE  it[s] \in UpTo(T, 0)
    <3>1. s = {}
      BY <1>0, <2>1, Places
    <3>2. it[s] = <<>>
      BY <1>0, <3>1 DEF Walk
    <3>. QED  BY <3>2 DEF UpTo
  <2>. QED  BY <2>1
<1>2. ASSUME NEW n \in G
      PROVE  n + 1 \in G
  <2>1. ASSUME NEW s \in SUBSET S, Cardinality(s) = n + 1
        PROVE  it[s] \in UpTo(T, n + 1)
    <3>1. s # {}
      <4>1. n \in Nat /\ n + 1 # 0
        OBVIOUS
      <4>. QED  BY <1>0, <2>1, <4>1, Places
    <3>2. s \ {Max(s)} \in SUBSET S /\ Cardinality(s \ {Max(s)}) = n
      <4>1. n \in Nat
        OBVIOUS
      <4>2. s \in SUBSET (1 .. Len(seq)) /\ Len(seq) \in Nat
        BY <1>0
      <4>. HIDE DEF S, G
      <4>3. s \ {Max(s)} \in SUBSET (1 .. Len(seq)) /\ Cardinality(s \ {Max(s)}) = Cardinality(s) - 1
        BY <3>1, <4>2, Places
      <4>4. s \ {Max(s)} \in SUBSET S
        BY <1>0, <4>3
      <4>5. Cardinality(s \ {Max(s)}) = n
        BY <2>1, <4>1, <4>3
      <4>. QED  BY <4>4, <4>5
    <3>3. it[s \ {Max(s)}] \in UpTo(T, Cardinality(s \ {Max(s)}))
      BY <3>2
    <3>4. Walk(seq, name, it, s) \in UpTo(T, Cardinality(s))
      BY <3>1, <3>3, WalkFinds
    <3>. QED  BY <1>0, <2>1, <3>4
  <2>. QED  BY <2>1
<1>3. Len(seq) \in G
  <2>1. G = Nat
    <3>. HIDE DEF G
    <3>1. G \in SUBSET Nat
      BY DEF G
    <3>. QED  BY <1>1, <1>2, <3>1, AllNumbers
  <2>. HIDE DEF G
  <2>. QED  BY <1>0, <2>1
<1>4. Cardinality(S) = Len(seq)
  BY <1>0, AllPlaces
<1>. QED  BY <1>3, <1>4

LEMMA OthersAreSome ==
  ASSUME NEW T, checkpoints \in Seq(T), NEW name
  PROVE  OthersThan(name) \in Seq(T) /\ Len(OthersThan(name)) <= Len(checkpoints)
<1>1. OthersThan(name) = (CHOOSE it : Walks(checkpoints, name, it))[DOMAIN checkpoints]
  BY DEF OthersThan, FoldLeft, MapThenFoldSet, Walks, Walk
<1>2. PICK it : Walks(checkpoints, name, it) /\ OthersThan(name) = it[DOMAIN checkpoints]
  <2>1. \E it : Walks(checkpoints, name, it)
    BY WalkExists
  <2>. QED  BY <1>1, <2>1
<1>3. it[DOMAIN checkpoints] \in UpTo(T, Len(checkpoints))
  BY <1>2, WalkFindsAll
<1>. QED  BY <1>2, <1>3 DEF UpTo

-----------------------------------------------------------------------------
\* The inductive invariant.

\* The content is the project's own version, as far as that was not written since.
AsInProject(f, content) ==
  /\ f \notin known => content = Absent
  /\ f \in known \ dirty => content = real[f]

\* While it is copied, nothing is known of a file that the walk has not passed.
Copying ==
  phase = "copying" =>
    /\ checkpoints = <<>> /\ best = <<>> /\ removed = {}
    /\ \A f \in Files : walk[f] # "passed" => f \notin known \cup savedSince

\* Nothing is offered before its file is looked at; from the look to the reading the user's
\* saves are of a text the review itself compares.
Offering ==
  /\ phase \in {"copying", "working", "over"} => \A f \in Files : offer[f] = <<>>
  /\ phase = "offering" =>
       \A f \in Files :
         /\ walk[f] = "ahead" => offer[f] = <<>>
         /\ walk[f] = "here" => copy[f] # Absent /\ (f \in known => f \notin savedSince)

\* A save since the copy read the file shows in its size or time, and so does its deletion.
SavesShow ==
  /\ savedSince \subseteq dirty
  /\ \A f \in known : real[f] = Absent => f \in dirty

\* What is removed is not of the project any more, for the copy either.
RemovedUnknown == removed \cap known = {}

\* A file that no edit and no command changed is the project's own in the copy.
OthersFollow ==
  phase \in {"copying", "working"} =>
    /\ \A f \in Files : f \notin touched \cup byCommand /\ "deleted" \notin commands[f] =>
         AsInProject(f, copy[f])
    /\ \A f \in byCommand : commands[f] # {}

\* A snapshot that may be restored brings nothing removed back; what it holds was changed and
\* still counts as changed; what it does not hold was the project's own when it was taken.
Sound(cp) ==
  /\ cp.reshaped <= reshaped
  /\ Restorable(cp) =>
       /\ \A f \in removed : cp.saved[f] = Absent
       /\ \A f \in cp.held : f \in touched \cup byCommand \/ f \notin known
       /\ \A f \in Files \ cp.held : commands[f] = {} => AsInProject(f, cp.saved[f])

\* The judge's snapshot holds what commands wrote too.
SoundForJudge(cp) ==
  Restorable(cp) =>
    \A f \in Files \ cp.held : "deleted" \notin commands[f] => AsInProject(f, cp.saved[f])

SnapshotsSound ==
  phase = "working" =>
    /\ \A i \in DOMAIN checkpoints : Sound(checkpoints[i])
    /\ \A i \in DOMAIN best : Sound(best[i]) /\ SoundForJudge(best[i])

Inv ==
  /\ CopyTypeOK
  /\ Copying /\ Offering
  /\ SavesShow /\ OfferSparesTheUser
  /\ RemovedUnknown /\ RemovedStaysRemoved
  /\ OthersFollow /\ SnapshotsSound

-----------------------------------------------------------------------------
\* Types, and what keeping and putting back do.

Assumptions == FilesAssumption /\ NamesAssumption /\ LimitsAssumption

LEMMA RefusableSize ==
  ASSUME NEW refused \in Refusable
  PROVE  refused \in SUBSET Files /\ Cardinality(refused) \in Nat
<1>1. CASE refused = {}
  BY <1>1, FS_EmptySet
<1>2. CASE \E f \in Files : refused = {f}
  BY <1>2, FS_Singleton
<1>. QED  BY <1>1, <1>2 DEF Refusable

LEMMA WantedType ==
  ASSUME CopyTypeOK, NEW cp \in SnapshotType, NEW f \in Files
  PROVE  Wanted(cp, f) \in FileStates
  BY DEF CopyTypeOK, SnapshotType, Wanted, FileStates

\* The files put back are as the checkpoint wants them, and those rewritten count as touched.
LEMMA PuttingBack ==
  ASSUME CopyTypeOK, LimitsAssumption,
         NEW cp \in SnapshotType, NEW withCommands, NEW refused \in Refusable,
         PutBack(cp, withCommands, refused)
  PROVE  /\ copy' \in [Files -> FileStates]
         /\ touched' \in SUBSET Files /\ rewritten' \in SUBSET Files
         /\ touched \subseteq touched'
         /\ check' \in {"none", "current", "stale"}
         /\ refusals' \in 0 .. MaxRefusals
         /\ \A f \in Files :
              IF f \in Paths(cp, withCommands) \ refused /\ copy[f] # Wanted(cp, f) /\ ~Missing(cp, f)
              THEN copy'[f] = Wanted(cp, f) /\ (Wanted(cp, f) # Absent => f \in touched')
              ELSE copy'[f] = copy[f]
<1>. DEFINE put == {f \in Paths(cp, withCommands) \ refused :
                      copy[f] # Wanted(cp, f) /\ ~Missing(cp, f)}
            written == {f \in put : Wanted(cp, f) # Absent}
<1>1. put \in SUBSET Files
  BY DEF Paths, SnapshotType, CopyTypeOK
<1>2. /\ Cardinality(refused) <= MaxRefusals - refusals
      /\ refusals' = refusals + Cardinality(refused)
      /\ copy' = [f \in Files |-> IF f \in put THEN Wanted(cp, f) ELSE copy[f]]
      /\ touched' = touched \cup written
      /\ rewritten' = rewritten \cup written
      /\ check' = IF written = {} THEN check ELSE Outdated
  BY DEF PutBack
<1>3. \A f \in Files : IF f \in put THEN copy'[f] = Wanted(cp, f) /\ (Wanted(cp, f) # Absent => f \in touched')
                       ELSE copy'[f] = copy[f]
  <2>. HIDE DEF put
  <2>. QED  BY <1>2
<1>4. copy' \in [Files -> FileStates]
  <2>1. \A f \in Files : Wanted(cp, f) \in FileStates /\ copy[f] \in FileStates
    BY WantedType DEF CopyTypeOK
  <2>. HIDE DEF put
  <2>. QED  BY <1>2, <2>1
<1>5. refusals' \in 0 .. MaxRefusals
  <2>1. Cardinality(refused) \in Nat
    BY RefusableSize
  <2>2. refusals \in Int /\ 0 <= refusals /\ refusals <= MaxRefusals /\ MaxRefusals \in Int
    BY DEF CopyTypeOK, LimitsAssumption
  <2>. HIDE DEF put
  <2>. QED  BY <1>2, <2>1, <2>2
<1>6. /\ touched' \in SUBSET Files /\ rewritten' \in SUBSET Files /\ touched \subseteq touched'
      /\ check' \in {"none", "current", "stale"}
  <2>1. touched \in SUBSET Files /\ rewritten \in SUBSET Files /\ check \in {"none", "current", "stale"}
    BY DEF CopyTypeOK
  <2>2. written \in SUBSET Files
    BY <1>1
  <2>. HIDE DEF written
  <2>. QED  BY <1>2, <2>1, <2>2 DEF Outdated
<1>. QED  BY <1>3, <1>4, <1>5, <1>6

LEMMA SnapshotsType ==
  ASSUME CopyTypeOK, NEW name \in Names \cup {AutoName, "best"}, NEW held \in SUBSET Files
  PROVE  SnapshotOf(name, held) \in SnapshotType
  BY DEF SnapshotOf, SnapshotType, CopyTypeOK

\* What is kept is the snapshot and some of those before, in some order.
LEMMA Keeping ==
  ASSUME CopyTypeOK, LimitsAssumption, NEW cp \in SnapshotType, KeepCheckpoint(cp)
  PROVE  /\ checkpoints' \in Seq(SnapshotType) /\ Len(checkpoints') <= MaxCheckpoints
         /\ \A i \in DOMAIN checkpoints' :
              checkpoints'[i] = cp \/ \E j \in DOMAIN checkpoints : checkpoints'[i] = checkpoints[j]
<1>. DEFINE Those == {checkpoints[j] : j \in DOMAIN checkpoints}
<1>1. /\ checkpoints \in Seq(Those) /\ Len(checkpoints) \in Nat
      /\ Those \subseteq SnapshotType /\ MaxCheckpoints \in Nat \ {0}
      /\ Len(checkpoints) <= MaxCheckpoints
  BY DEF CopyTypeOK, LimitsAssumption
<1>2. PICK kept : kept = OthersThan(cp.name)
  OBVIOUS
<1>. HIDE DEF Those
<1>3. kept \in Seq(Those) /\ Len(kept) <= Len(checkpoints) /\ Len(kept) \in Nat
  BY <1>1, <1>2, OthersAreSome
<1>. DEFINE shifted == [i \in DOMAIN checkpoints |->
                          IF i <= Len(kept) THEN kept[i] ELSE checkpoints[i]]
<1>4. \/ checkpoints' = shifted
      \/ Len(kept) < MaxCheckpoints /\ checkpoints' = Append(kept, cp)
  <2>1. \/ checkpoints' = shifted
        \/ ~(Len(kept) >= MaxCheckpoints) /\ checkpoints' = Append(kept, cp)
    BY <1>2 DEF KeepCheckpoint
  <2>. HIDE DEF shifted
  <2>. QED  BY <1>1, <1>3, <2>1
<1>5. CASE checkpoints' = shifted
  <2>1. \A i \in 1 .. Len(checkpoints) :
          (IF i <= Len(kept) THEN kept[i] ELSE checkpoints[i]) \in Those
    BY <1>1, <1>3
  <2>2. shifted \in Seq(Those) /\ Len(shifted) = Len(checkpoints)
    BY <1>1, <2>1
  <2>3. \A i \in DOMAIN shifted : shifted[i] \in Those
    BY <2>2
  <2>4. shifted \in Seq(SnapshotType)
    BY <1>1, <2>2, SeqMonotonic
  <2>. HIDE DEF shifted
  <2>. QED  BY <1>1, <1>5, <2>2, <2>3, <2>4 DEF Those
<1>6. CASE Len(kept) < MaxCheckpoints /\ checkpoints' = Append(kept, cp)
  <2>1. kept \in Seq(SnapshotType)
    BY <1>1, <1>3, SeqMonotonic
  <2>2. /\ Append(kept, cp) \in Seq(SnapshotType) /\ Len(Append(kept, cp)) = Len(kept) + 1
        /\ \A i \in 1 .. Len(kept) : Append(kept, cp)[i] = kept[i]
        /\ Append(kept, cp)[Len(kept) + 1] = cp
    BY <2>1, AppendProperties
  <2>3. \A i \in DOMAIN checkpoints' : i \in 1 .. Len(kept) \/ i = Len(kept) + 1
    BY <1>3, <1>6, <2>2
  <2>4. \A i \in 1 .. Len(kept) : kept[i] \in Those
    BY <1>3
  <2>5. \A i \in DOMAIN checkpoints' : checkpoints'[i] = cp \/ checkpoints'[i] \in Those
    BY <1>6, <2>2, <2>3, <2>4
  <2>6. Len(checkpoints') <= MaxCheckpoints
    BY <1>1, <1>3, <1>6, <2>2
  <2>. QED  BY <1>6, <2>2, <2>5, <2>6 DEF Those
<1>. QED  BY <1>4, <1>5, <1>6

\* A tool call is one of those that are left.
LEMMA Counting ==
  ASSUME CopyTypeOK, LimitsAssumption, ToolCall
  PROVE  tools' \in 0 .. MaxTools
  BY DEF CopyTypeOK, LimitsAssumption, ToolCall

LEMMA FoundCheckpoint ==
  ASSUME CopyTypeOK, NEW name, Named(name) # {}
  PROVE  /\ Min(Named(name)) \in DOMAIN checkpoints
         /\ checkpoints[Min(Named(name))] \in SnapshotType
<1>1. Named(name) \in SUBSET Nat /\ Named(name) \subseteq DOMAIN checkpoints
  BY DEF Named, CopyTypeOK
<1>2. Min(Named(name)) \in Named(name)
  BY <1>1, MinIsLeast
<1>. QED  BY <1>1, <1>2 DEF CopyTypeOK

LEMMA FirstOf ==
  ASSUME NEW T, NEW seq \in Seq(T), seq # <<>>
  PROVE  seq[1] \in T
  BY EmptySeq, ElementOfSeq

LEMMA OneMore ==
  ASSUME NEW T, NEW f \in Files, NEW o \in [Files -> Seq(T)], \A h \in Files : Len(o[h]) <= 1,
         NEW one \in Seq(T), Len(one) <= 1
  PROVE  LET p == [o EXCEPT ![f] = one]
         IN  p \in [Files -> Seq(T)] /\ \A h \in Files : Len(p[h]) <= 1
<1>. DEFINE Q == Seq(T)
<1>1. o \in [Files -> Q] /\ one \in Q
  OBVIOUS
<1>. HIDE DEF Q
<1>2. [o EXCEPT ![f] = one] \in [Files -> Q] /\ \A h \in Files : Len([o EXCEPT ![f] = one][h]) <= 1
  BY <1>1
<1>. QED  BY <1>2 DEF Q

LEMMA TypeInit ==
  ASSUME Assumptions, CopyInit
  PROVE  CopyTypeOK
  BY DEF CopyInit, CopyTypeOK, Assumptions, FilesAssumption, LimitsAssumption, FileStates

LEMMA TypeStep ==
  ASSUME Assumptions, CopyTypeOK, Offering, [CopyNext]_copyVars
  PROVE  CopyTypeOK'
<1>. USE DEF projectVars, recordVars, turnVars, ghostVars
<1>0. FilesAssumption /\ NamesAssumption /\ LimitsAssumption
  BY DEF Assumptions
<1>1. ASSUME NEW f \in Files, StatFile(f)
      PROVE  CopyTypeOK'
  BY <1>1 DEF CopyTypeOK, StatFile
<1>2. ASSUME NEW f \in Files, CopyFile(f)
      PROVE  CopyTypeOK'
  BY <1>2 DEF CopyTypeOK, CopyFile
<1>3. ASSUME CopyMade \/ EndTurn \/ Discard \/ OffersMade
      PROVE  CopyTypeOK'
  BY <1>3 DEF CopyTypeOK, CopyMade, EndTurn, Discard, OffersMade
<1>4. ASSUME NEW f \in Files, NEW c \in Contents, Edit(f, c)
      PROVE  CopyTypeOK'
  <2>1. tools' \in 0 .. MaxTools
    BY <1>4, <1>0, Counting DEF Edit
  <2>. QED  BY <1>4, <2>1 DEF CopyTypeOK, Edit, Outdated, FileStates
<1>5. ASSUME NEW f \in Files, NEW c \in Contents \cup {Absent}, Command(f, c)
      PROVE  CopyTypeOK'
  <2>1. tools' \in 0 .. MaxTools
    BY <1>5, <1>0, Counting DEF Command
  <2>2. copy' \in [Files -> FileStates] /\ check' \in {"none", "current", "stale"}
    BY <1>5 DEF CopyTypeOK, Command, FileStates
  <2>3. /\ rewritten' \subseteq Files /\ byCommand' \subseteq Files /\ removed' \subseteq Files
        /\ discarded' \subseteq Files
        /\ commands' \in [Files -> SUBSET {"wrote", "deleted"}]
    <3>1. /\ rewritten \subseteq Files /\ byCommand \subseteq Files /\ removed \subseteq Files
          /\ discarded \subseteq Files
          /\ commands \in [Files -> SUBSET {"wrote", "deleted"}]
      BY DEF CopyTypeOK
    <3>2. CASE c = copy[f]
      BY <1>5, <3>1, <3>2 DEF Command
    <3>3. CASE c # copy[f]
      BY <1>5, <3>1, <3>3 DEF Command
    <3>. QED  BY <3>2, <3>3
  <2>4. UNCHANGED <<projectVars, phase, walk, known, touched, reshaped, checkpoints, best, offer,
                    savedSince, saves, refusals>>
    BY <1>5 DEF Command
  <2>. QED  BY <2>1, <2>2, <2>3, <2>4 DEF CopyTypeOK
<1>6. ASSUME NEW name \in Names, SaveCheckpoint(name)
      PROVE  CopyTypeOK'
  <2>1. tools' \in 0 .. MaxTools
    BY <1>6, <1>0, Counting DEF SaveCheckpoint
  <2>2. touched \in SUBSET Files
    BY DEF CopyTypeOK
  <2>3. SnapshotOf(name, touched) \in SnapshotType
    BY <2>2, SnapshotsType
  <2>4. checkpoints' \in Seq(SnapshotType) /\ Len(checkpoints') <= MaxCheckpoints
    BY <1>6, <2>3, Keeping, <1>0 DEF SaveCheckpoint
  <2>. QED  BY <1>6, <2>1, <2>4 DEF CopyTypeOK, SaveCheckpoint
<1>7. ASSUME NEW name \in Names \cup {AutoName}, NEW refused \in Refusable,
             RestoreCheckpoint(name, refused)
      PROVE  CopyTypeOK'
  <2>1. tools' \in 0 .. MaxTools
    BY <1>7, <1>0, Counting DEF RestoreCheckpoint
  <2>2. PICK cp \in SnapshotType : PutBack(cp, FALSE, refused)
    BY <1>7, FoundCheckpoint DEF RestoreCheckpoint
  <2>3. /\ copy' \in [Files -> FileStates]
        /\ touched' \in SUBSET Files /\ rewritten' \in SUBSET Files
        /\ check' \in {"none", "current", "stale"} /\ refusals' \in 0 .. MaxRefusals
    BY <1>0, <2>2, PuttingBack
  <2>. QED  BY <1>7, <2>1, <2>3 DEF CopyTypeOK, RestoreCheckpoint
<1>8. ASSUME CheckIsBest
      PROVE  CopyTypeOK'
  <2>1. tools' \in 0 .. MaxTools
    BY <1>8, <1>0, Counting DEF CheckIsBest
  <2>2. touched \cup byCommand \in SUBSET Files
    BY DEF CopyTypeOK
  <2>3. SnapshotOf("best", touched \cup byCommand) \in SnapshotType
    BY <2>2, SnapshotsType
  <2>4. best' \in Seq(SnapshotType) /\ Len(best') <= 1
    BY <1>8, <2>3 DEF CopyTypeOK, CheckIsBest
  <2>. QED  BY <1>8, <2>1, <2>4 DEF CopyTypeOK, CheckIsBest
<1>9. ASSUME NEW refused \in Refusable, CheckPutsBack(refused)
      PROVE  CopyTypeOK'
  <2>1. tools' \in 0 .. MaxTools
    BY <1>9, <1>0, Counting DEF CheckPutsBack
  <2>2. touched \cup byCommand \in SUBSET Files
    BY DEF CopyTypeOK
  <2>3. SnapshotOf(AutoName, touched \cup byCommand) \in SnapshotType
    BY <2>2, SnapshotsType
  <2>4. checkpoints' \in Seq(SnapshotType) /\ Len(checkpoints') <= MaxCheckpoints
    BY <1>9, <2>3, Keeping, <1>0 DEF CheckPutsBack, CopyTypeOK
  <2>5. best[1] \in SnapshotType /\ PutBack(best[1], TRUE, refused)
    <3>1. best \in Seq(SnapshotType) /\ best # <<>>
      BY <1>9 DEF CheckPutsBack, CopyTypeOK
    <3>2. best[1] \in SnapshotType
      BY <3>1
    <3>. QED  BY <1>9, <3>2 DEF CheckPutsBack
  <2>6. /\ copy' \in [Files -> FileStates]
        /\ touched' \in SUBSET Files /\ rewritten' \in SUBSET Files
        /\ check' \in {"none", "current", "stale"} /\ refusals' \in 0 .. MaxRefusals
    BY <1>0, <2>5, PuttingBack
  <2>. QED  BY <1>9, <2>1, <2>4, <2>6 DEF CopyTypeOK, CheckPutsBack
<1>10. ASSUME NEW f \in Files, FollowDelete(f)
       PROVE  CopyTypeOK'
  <2>1. tools' \in 0 .. MaxTools
    BY <1>10, <1>0, Counting DEF FollowDelete
  <2>2. /\ real' \in [Files -> FileStates] /\ trash' \in [Files -> FileStates]
        /\ copy' \in [Files -> FileStates] /\ reshaped' \in Nat
    BY <1>10 DEF CopyTypeOK, FollowDelete, FileStates
  <2>3. /\ known' \subseteq Files /\ rewritten' \subseteq Files /\ touched' \subseteq Files
        /\ byCommand' \subseteq Files /\ removed' \subseteq Files
    BY <1>10 DEF CopyTypeOK, FollowDelete, Forget
  <2>4. UNCHANGED <<dirty, phase, walk, turnVars, commands, savedSince, discarded, saves, refusals>>
    BY <1>10 DEF FollowDelete
  <2>. QED  BY <2>1, <2>2, <2>3, <2>4 DEF CopyTypeOK
<1>11. ASSUME NEW f \in Files, DeleteStaged(f)
       PROVE  CopyTypeOK'
  <2>1. tools' \in 0 .. MaxTools
    BY <1>11, <1>0, Counting DEF DeleteStaged
  <2>. QED  BY <1>11, <2>1 DEF CopyTypeOK, DeleteStaged, Forget, FileStates
<1>12. ASSUME NEW f \in Files, FollowRestore(f)
       PROVE  CopyTypeOK'
  <2>1. tools' \in 0 .. MaxTools
    BY <1>12, <1>0, Counting DEF FollowRestore
  <2>2. /\ real' \in [Files -> FileStates] /\ trash' \in [Files -> FileStates]
        /\ copy' \in [Files -> FileStates] /\ reshaped' \in Nat
    BY <1>12 DEF CopyTypeOK, FollowRestore, FileStates
  <2>3. /\ known' \subseteq Files /\ dirty' \subseteq Files /\ rewritten' \subseteq Files
        /\ savedSince' \subseteq Files /\ removed' \subseteq Files /\ discarded' \subseteq Files
    BY <1>12 DEF CopyTypeOK, FollowRestore
  <2>4. UNCHANGED <<phase, walk, touched, byCommand, turnVars, commands, saves, refusals>>
    BY <1>12 DEF FollowRestore
  <2>. QED  BY <2>1, <2>2, <2>3, <2>4 DEF CopyTypeOK
<1>13. ASSUME NEW f \in Files, NEW g \in Files \ {f}, MoveInCopy(f, g)
       PROVE  /\ copy' \in [Files -> FileStates]
              /\ known' \in SUBSET Files /\ touched' \in SUBSET Files /\ byCommand' \in SUBSET Files
              /\ commands' \in [Files -> SUBSET {"wrote", "deleted"}]
  BY <1>13 DEF CopyTypeOK, MoveInCopy, Renamed, FileStates
<1>14. ASSUME NEW f \in Files, NEW g \in Files \ {f}, FollowMove(f, g)
       PROVE  CopyTypeOK'
  <2>1. tools' \in 0 .. MaxTools
    BY <1>14, <1>0, Counting DEF FollowMove
  <2>2. /\ copy' \in [Files -> FileStates]
        /\ known' \in SUBSET Files /\ touched' \in SUBSET Files /\ byCommand' \in SUBSET Files
        /\ commands' \in [Files -> SUBSET {"wrote", "deleted"}]
    BY <1>13, <1>14 DEF FollowMove
  <2>3. real' \in [Files -> FileStates] /\ reshaped' \in Nat
    <3>1. real \in [Files -> FileStates] /\ Absent \in FileStates /\ reshaped \in Nat
      BY DEF CopyTypeOK, FileStates
    <3>2. real' = [real EXCEPT ![g] = real[f], ![f] = Absent] /\ reshaped' = reshaped + 1
      BY <1>14 DEF FollowMove
    <3>. QED  BY <3>1, <3>2
  <2>4. savedSince' \subseteq Files /\ removed' \subseteq Files /\ discarded' \subseteq Files
    BY <1>14 DEF CopyTypeOK, FollowMove, Renamed
  <2>5. dirty' \subseteq Files /\ rewritten' \subseteq Files
    <3>1. dirty \subseteq Files /\ rewritten \subseteq Files
      BY DEF CopyTypeOK
    <3>2. PICK e :
            /\ dirty' = (dirty \ {f, g}) \cup (IF e \in dirty THEN {g} ELSE {})
            /\ rewritten' = (rewritten \ {f, g}) \cup
                 (IF e \in rewritten \/ (e = f) # (copy[f] # Absent) THEN {g} ELSE {})
      BY <1>14 DEF FollowMove
    <3>. QED  BY <3>1, <3>2
  <2>6. UNCHANGED <<trash, phase, walk, checkpoints, best, check, offer, saves, refusals>>
    BY <1>14 DEF FollowMove
  <2>. QED  BY <2>1, <2>2, <2>3, <2>4, <2>5, <2>6 DEF CopyTypeOK
<1>15. ASSUME NEW f \in Files, NEW g \in Files \ {f}, MoveStaged(f, g)
       PROVE  CopyTypeOK'
  <2>1. tools' \in 0 .. MaxTools
    BY <1>15, <1>0, Counting DEF MoveStaged
  <2>2. /\ copy' \in [Files -> FileStates]
        /\ known' \in SUBSET Files /\ touched' \in SUBSET Files /\ byCommand' \in SUBSET Files
        /\ commands' \in [Files -> SUBSET {"wrote", "deleted"}]
    BY <1>13, <1>15 DEF MoveStaged
  <2>. QED  BY <1>15, <2>1, <2>2 DEF CopyTypeOK, MoveStaged
<1>16. ASSUME NEW f \in Files, LookAtReal(f)
       PROVE  CopyTypeOK'
  BY <1>16 DEF CopyTypeOK, LookAtReal
<1>17. ASSUME NEW f \in Files, ReadReal(f)
       PROVE  CopyTypeOK'
  <2>. DEFINE before == IF f \in known THEN real[f] ELSE Absent
              block == [before |-> before, after |-> copy[f]]
  <2>1. block \in [before : FileStates, after : Contents]
    BY <1>17 DEF CopyTypeOK, Offering, ReadReal, FileStates
  <2>2. offer' = offer \/ offer' = [offer EXCEPT ![f] = <<block>>]
    BY <1>17 DEF ReadReal
  <2>3. <<block>> \in Seq([before : FileStates, after : Contents]) /\ Len(<<block>>) = 1
    BY <2>1
  <2>. HIDE DEF block
  <2>4. /\ offer' \in [Files -> Seq([before : FileStates, after : Contents])]
        /\ \A h \in Files : Len(offer'[h]) <= 1
    <3>1. /\ offer \in [Files -> Seq([before : FileStates, after : Contents])]
          /\ \A h \in Files : Len(offer[h]) <= 1
      BY DEF CopyTypeOK
    <3>2. CASE offer' = offer
      BY <3>1, <3>2
    <3>3. CASE offer' = [offer EXCEPT ![f] = <<block>>]
      <4>1. Len(<<block>>) <= 1
        BY <2>3
      <4>. QED  BY <2>3, <3>1, <3>3, <4>1, OneMore
    <3>. QED  BY <2>2, <3>2, <3>3
  <2>. QED  BY <1>17, <2>4 DEF CopyTypeOK, ReadReal
<1>18. ASSUME NEW f \in Files, Review(f)
       PROVE  CopyTypeOK'
  <2>0. /\ offer \in [Files -> Seq([before : FileStates, after : Contents])]
        /\ \A h \in Files : Len(offer[h]) <= 1
        /\ offer[f] # <<>>
    BY <1>18 DEF CopyTypeOK, Review
  <2>1. /\ offer' \in [Files -> Seq([before : FileStates, after : Contents])]
        /\ \A h \in Files : Len(offer'[h]) <= 1
    <3>1. offer' = [offer EXCEPT ![f] = <<>>]
      BY <1>18 DEF Review
    <3>2. <<>> \in Seq([before : FileStates, after : Contents]) /\ Len(<<>>) <= 1
      OBVIOUS
    <3>. QED  BY <2>0, <3>1, <3>2, OneMore
  <2>2. offer[f][1].after \in FileStates
    <3>1. offer[f][1] \in [before : FileStates, after : Contents]
      BY <2>0, FirstOf
    <3>. QED  BY <3>1 DEF FileStates
  <2>3. real' \in [Files -> FileStates]
    BY <1>18, <2>2 DEF CopyTypeOK, Review
  <2>. QED  BY <1>18, <2>1, <2>3 DEF CopyTypeOK, Review
<1>19. ASSUME NEW f \in Files, NEW c \in Contents \cup {Absent}, UserWrites(f, c)
       PROVE  CopyTypeOK'
  <2>1. saves' \in 0 .. MaxSaves
    BY <1>0, <1>19 DEF UserWrites, CopyTypeOK, LimitsAssumption
  <2>. QED  BY <1>19, <2>1 DEF CopyTypeOK, UserWrites, FileStates
<1>20. CASE UNCHANGED copyVars
  BY <1>20 DEF CopyTypeOK, copyVars
<1>. QED
  BY <1>1, <1>2, <1>3, <1>4, <1>5, <1>6, <1>7, <1>8, <1>9, <1>10, <1>11, <1>12, <1>14, <1>15,
     <1>16, <1>17, <1>18, <1>19, <1>20
  DEF CopyNext, Turn, Tool

-----------------------------------------------------------------------------
\* The copying and the offering.

LEMMA ToolWorks ==
  ASSUME Tool
  PROVE  phase = "working" /\ UNCHANGED <<phase, walk, offer, saves>>
<1>. USE DEF ToolCall, turnVars
<1>1. ASSUME \/ \E f \in Files, c \in Contents : Edit(f, c)
             \/ \E f \in Files, c \in Contents \cup {Absent} : Command(f, c)
             \/ \E name \in Names : SaveCheckpoint(name)
             \/ \E name \in Names \cup {AutoName}, refused \in Refusable : RestoreCheckpoint(name, refused)
             \/ CheckIsBest
             \/ \E refused \in Refusable : CheckPutsBack(refused)
      PROVE  phase = "working" /\ UNCHANGED <<phase, walk, offer, saves>>
  BY <1>1 DEF Edit, Command, SaveCheckpoint, RestoreCheckpoint, CheckIsBest, CheckPutsBack
<1>2. ASSUME \/ \E f \in Files : FollowDelete(f) \/ DeleteStaged(f) \/ FollowRestore(f)
             \/ \E f \in Files : \E g \in Files \ {f} : FollowMove(f, g) \/ MoveStaged(f, g)
      PROVE  phase = "working" /\ UNCHANGED <<phase, walk, offer, saves>>
  BY <1>2 DEF FollowDelete, DeleteStaged, FollowRestore, FollowMove, MoveStaged
<1>. QED  BY <1>1, <1>2 DEF Tool

LEMMA CopyingStep ==
  ASSUME CopyTypeOK, Copying, [CopyNext]_copyVars
  PROVE  Copying'
<1>. USE DEF Copying, projectVars, recordVars, turnVars, ghostVars
<1>1. ASSUME NEW f \in Files, StatFile(f)
      PROVE  Copying'
  BY <1>1 DEF CopyTypeOK, StatFile
<1>2. ASSUME NEW f \in Files, CopyFile(f)
      PROVE  Copying'
  BY <1>2 DEF CopyTypeOK, CopyFile
<1>3. ASSUME CopyMade \/ EndTurn \/ Discard \/ OffersMade \/ Tool
      PROVE  Copying'
  BY <1>3, ToolWorks DEF CopyMade, EndTurn, Discard, OffersMade
<1>4. ASSUME NEW f \in Files, LookAtReal(f) \/ ReadReal(f) \/ Review(f)
      PROVE  Copying'
  BY <1>4 DEF LookAtReal, ReadReal, Review
<1>5. ASSUME NEW f \in Files, NEW c \in Contents \cup {Absent}, UserWrites(f, c)
      PROVE  Copying'
  BY <1>5 DEF UserWrites, CopyHasRead
<1>6. CASE UNCHANGED copyVars
  BY <1>6 DEF copyVars
<1>. QED  BY <1>1, <1>2, <1>3, <1>4, <1>5, <1>6 DEF CopyNext, Turn

LEMMA OfferingStep ==
  ASSUME CopyTypeOK, SavesShow, Offering, [CopyNext]_copyVars
  PROVE  Offering'
<1>. USE DEF Offering, projectVars, recordVars, turnVars, ghostVars
<1>1. ASSUME NEW f \in Files, StatFile(f) \/ CopyFile(f)
      PROVE  Offering'
  BY <1>1 DEF StatFile, CopyFile
<1>2. ASSUME CopyMade \/ Discard \/ OffersMade \/ Tool
      PROVE  Offering'
  BY <1>2, ToolWorks DEF CopyMade, Discard, OffersMade
<1>3. ASSUME EndTurn
      PROVE  Offering'
  BY <1>3 DEF EndTurn
<1>4. ASSUME NEW f \in Files, LookAtReal(f)
      PROVE  Offering'
  BY <1>4 DEF CopyTypeOK, LookAtReal, Offerable, SavesShow
<1>5. ASSUME NEW f \in Files, ReadReal(f)
      PROVE  Offering'
  <2>1. /\ phase = "offering" /\ walk' = [walk EXCEPT ![f] = "passed"]
        /\ UNCHANGED <<phase, copy, known, savedSince>>
        /\ \A h \in Files \ {f} : offer'[h] = offer[h]
    BY <1>5 DEF CopyTypeOK, ReadReal
  <2>. QED  BY <2>1 DEF CopyTypeOK
<1>6. ASSUME NEW f \in Files, Review(f)
      PROVE  Offering'
  BY <1>6 DEF Review
<1>7. ASSUME NEW f \in Files, NEW c \in Contents \cup {Absent}, UserWrites(f, c)
      PROVE  Offering'
  BY <1>7 DEF UserWrites, CopyHasRead
<1>8. CASE UNCHANGED copyVars
  BY <1>8 DEF copyVars
<1>. QED  BY <1>1, <1>2, <1>3, <1>4, <1>5, <1>6, <1>7, <1>8 DEF CopyNext, Turn

\* No tool but a move, a delete or a restore touches what is known of the project.
LEMMA QuietTools ==
  ASSUME \/ \E f \in Files, c \in Contents : Edit(f, c)
         \/ \E f \in Files, c \in Contents \cup {Absent} : Command(f, c)
         \/ \E name \in Names : SaveCheckpoint(name)
         \/ \E name \in Names \cup {AutoName}, refused \in Refusable : RestoreCheckpoint(name, refused)
         \/ CheckIsBest
         \/ \E refused \in Refusable : CheckPutsBack(refused)
  PROVE  UNCHANGED <<real, dirty, known, savedSince, reshaped>>
  BY DEF Edit, Command, SaveCheckpoint, RestoreCheckpoint, CheckIsBest, CheckPutsBack,
         projectVars, recordVars, ghostVars

LEMMA SavesStep ==
  ASSUME FilesAssumption, CopyTypeOK, Copying, SavesShow, [CopyNext]_copyVars
  PROVE  SavesShow'
<1>. USE DEF SavesShow, projectVars, recordVars, turnVars, ghostVars
<1>1. ASSUME NEW f \in Files, StatFile(f)
      PROVE  SavesShow'
  BY <1>1 DEF CopyTypeOK, StatFile, Copying
<1>2. ASSUME NEW f \in Files, CopyFile(f)
      PROVE  SavesShow'
  BY <1>2 DEF CopyTypeOK, CopyFile
<1>3. ASSUME CopyMade \/ EndTurn \/ Discard \/ OffersMade
      PROVE  SavesShow'
  BY <1>3 DEF CopyMade, EndTurn, Discard, OffersMade
<1>4. ASSUME NEW f \in Files, FollowDelete(f) \/ DeleteStaged(f)
      PROVE  SavesShow'
  BY <1>4 DEF CopyTypeOK, FollowDelete, DeleteStaged, Forget
<1>5. ASSUME NEW f \in Files, FollowRestore(f)
      PROVE  SavesShow'
  BY <1>5 DEF CopyTypeOK, FollowRestore
<1>6. ASSUME NEW f \in Files, NEW g \in Files \ {f}, FollowMove(f, g)
      PROVE  SavesShow'
  <2>1. real[f] # Absent /\ real[g] = Absent /\ real' = [real EXCEPT ![g] = real[f], ![f] = Absent]
    BY <1>6 DEF FollowMove
  <2>2. known' = Renamed(known, f, g) /\ savedSince' = Renamed(savedSince \ {g}, f, g)
    BY <1>6 DEF FollowMove, MoveInCopy
  <2>3. PICK e \in IF {f, g} \cap known = {} THEN {f} ELSE {f, g} \cap known :
          dirty' = (dirty \ {f, g}) \cup (IF e \in dirty THEN {g} ELSE {})
    BY <1>6 DEF FollowMove
  <2>4. \A h \in savedSince' : h \in dirty'
    <3>1. f \in savedSince => e \in dirty
      <4>1. CASE e = f
        BY <4>1
      <4>2. CASE e # f
        BY <2>1, <2>3, <4>2
      <4>. QED  BY <4>1, <4>2
    <3>. QED  BY <2>2, <2>3, <3>1 DEF Renamed
  <2>5. \A h \in known' : real'[h] = Absent => h \in dirty'
    <3>1. ASSUME NEW h \in known', real'[h] = Absent
          PROVE  h \notin {f, g} /\ h \in known /\ real[h] = Absent
      BY <2>1, <2>2, <3>1 DEF CopyTypeOK, Renamed
    <3>. QED  BY <2>3, <3>1
  <2>. QED  BY <2>4, <2>5
<1>7. ASSUME NEW f \in Files, NEW g \in Files \ {f}, MoveStaged(f, g)
      PROVE  SavesShow'
  BY <1>7 DEF MoveStaged, MoveInCopy, Renamed
<1>8. ASSUME Tool
      PROVE  SavesShow'
  BY <1>4, <1>5, <1>6, <1>7, <1>8, QuietTools DEF Tool
<1>9. ASSUME NEW f \in Files, LookAtReal(f) \/ ReadReal(f)
      PROVE  SavesShow'
  BY <1>9 DEF LookAtReal, ReadReal
<1>10. ASSUME NEW f \in Files, Review(f)
       PROVE  SavesShow'
  <2>1. offer[f] \in Seq([before : FileStates, after : Contents]) /\ offer[f] # <<>>
    BY <1>10 DEF Review, CopyTypeOK
  <2>2. offer[f][1].after # Absent
    <3>1. offer[f][1] \in [before : FileStates, after : Contents]
      BY <2>1, FirstOf
    <3>. QED  BY <3>1 DEF FilesAssumption
  <2>3. UNCHANGED <<dirty, known, savedSince>>
    BY <1>10 DEF Review
  <2>4. \A h \in Files : real'[h] = Absent => real[h] = Absent
    BY <1>10, <2>2 DEF Review, CopyTypeOK
  <2>. QED  BY <2>3, <2>4 DEF CopyTypeOK
<1>11. ASSUME NEW f \in Files, NEW c \in Contents \cup {Absent}, UserWrites(f, c)
       PROVE  SavesShow'
  BY <1>11 DEF UserWrites, CopyTypeOK
<1>12. CASE UNCHANGED copyVars
  BY <1>12 DEF copyVars
<1>. QED  BY <1>1, <1>2, <1>3, <1>8, <1>9, <1>10, <1>11, <1>12 DEF CopyNext, Turn

\* What the offers were made from is not what the user saved since.
LEMMA SparesStep ==
  ASSUME CopyTypeOK, Offering, OfferSparesTheUser, [CopyNext]_copyVars
  PROVE  OfferSparesTheUser'
<1>. USE DEF OfferSparesTheUser, projectVars, recordVars, turnVars, ghostVars
<1>1. ASSUME NEW f \in Files, StatFile(f) \/ CopyFile(f)
      PROVE  OfferSparesTheUser'
  BY <1>1 DEF StatFile, CopyFile, Offering
<1>2. ASSUME Tool
      PROVE  OfferSparesTheUser'
  BY <1>2, ToolWorks DEF Offering
<1>3. ASSUME CopyMade \/ EndTurn \/ Discard \/ OffersMade
      PROVE  OfferSparesTheUser'
  BY <1>3 DEF CopyMade, EndTurn, Discard, OffersMade
<1>4. ASSUME NEW f \in Files, LookAtReal(f)
      PROVE  OfferSparesTheUser'
  BY <1>4 DEF LookAtReal
<1>5. ASSUME NEW f \in Files, ReadReal(f)
      PROVE  OfferSparesTheUser'
  <2>1. UNCHANGED savedSince
    BY <1>5 DEF ReadReal
  <2>2. \A h \in Files \ {f} : offer'[h] = offer[h]
    BY <1>5 DEF CopyTypeOK, ReadReal
  <2>3. CASE f \in savedSince
    <3>1. f \notin known
      BY <1>5, <2>3 DEF Offering, ReadReal
    <3>2. \/ offer'[f] = offer[f]
          \/ offer'[f] = <<[before |-> Absent, after |-> copy[f]]>>
      BY <1>5, <3>1 DEF CopyTypeOK, ReadReal
    <3>. QED  BY <2>1, <2>2, <3>2
  <2>4. CASE f \notin savedSince
    BY <2>1, <2>2, <2>4
  <2>. QED  BY <2>3, <2>4
<1>6. ASSUME NEW f \in Files, Review(f)
      PROVE  OfferSparesTheUser'
  BY <1>6 DEF CopyTypeOK, Review
<1>7. ASSUME NEW f \in Files, NEW c \in Contents \cup {Absent}, UserWrites(f, c)
      PROVE  OfferSparesTheUser'
  BY <1>7 DEF UserWrites, CopyHasRead, Offering
<1>8. CASE UNCHANGED copyVars
  BY <1>8 DEF copyVars
<1>. QED  BY <1>1, <1>2, <1>3, <1>4, <1>5, <1>6, <1>7, <1>8 DEF CopyNext, Turn

-----------------------------------------------------------------------------
\* What is removed stays so, and what was not changed stays the project's own.

\* Putting back brings nothing removed back.
LEMMA PutBackSparesRemoved ==
  ASSUME CopyTypeOK, LimitsAssumption, RemovedUnknown, RemovedStaysRemoved,
         NEW cp \in SnapshotType, Restorable(cp), Sound(cp),
         NEW withCommands, NEW refused \in Refusable, PutBack(cp, withCommands, refused)
  PROVE  \A f \in removed : copy'[f] = Absent
<1>1. ASSUME NEW f \in removed
      PROVE  copy'[f] = Absent
  <2>1. f \in Files /\ copy[f] = Absent /\ f \notin known
    BY DEF CopyTypeOK, RemovedUnknown, RemovedStaysRemoved
  <2>2. Wanted(cp, f) = Absent
    BY <2>1 DEF Wanted, Sound
  <2>. QED  BY <2>1, <2>2, PuttingBack
<1>. QED  BY <1>1

\* A file that putting back leaves untouched is the project's own, or none.
LEMMA PutBackFollows ==
  ASSUME CopyTypeOK, LimitsAssumption, phase = "working", OthersFollow,
         NEW cp \in SnapshotType, Restorable(cp), Sound(cp),
         NEW withCommands, NEW refused \in Refusable, PutBack(cp, withCommands, refused),
         NEW f \in Files, f \notin touched' \cup byCommand, "deleted" \notin commands[f]
  PROVE  AsInProject(f, copy'[f])
<1>1. f \notin touched
  BY PuttingBack
<1>2. CASE f \in Paths(cp, withCommands) \ refused /\ copy[f] # Wanted(cp, f) /\ ~Missing(cp, f)
  <2>1. copy'[f] = Absent /\ Wanted(cp, f) = Absent
    BY <1>2, PuttingBack
  <2>2. f \notin known
    <3>1. CASE f \in cp.held
      BY <1>1, <3>1 DEF Sound
    <3>2. CASE f \notin cp.held
      BY <1>2, <2>1, <3>2 DEF Wanted, Missing
    <3>. QED  BY <3>1, <3>2
  <2>. QED  BY <2>1, <2>2 DEF AsInProject
<1>3. CASE ~(f \in Paths(cp, withCommands) \ refused /\ copy[f] # Wanted(cp, f) /\ ~Missing(cp, f))
  <2>1. copy'[f] = copy[f]
    BY <1>3, PuttingBack
  <2>. QED  BY <1>1, <2>1 DEF OthersFollow
<1>. QED  BY <1>2, <1>3

\* The snapshots a restore takes are sound.
LEMMA RestoredSound ==
  ASSUME CopyTypeOK, SnapshotsSound, NEW name, NEW refused,
         RestoreCheckpoint(name, refused)
  PROVE  \E cp \in SnapshotType : /\ cp = checkpoints[Min(Named(name))]
                                  /\ Sound(cp) /\ Restorable(cp) /\ PutBack(cp, FALSE, refused)
<1>1. PICK cp \in SnapshotType : cp = checkpoints[Min(Named(name))]
  BY FoundCheckpoint DEF RestoreCheckpoint
<1>2. Sound(cp)
  BY <1>1, FoundCheckpoint DEF RestoreCheckpoint, ToolCall, SnapshotsSound
<1>. QED  BY <1>1, <1>2 DEF RestoreCheckpoint

LEMMA JudgedSound ==
  ASSUME CopyTypeOK, SnapshotsSound, NEW refused,
         CheckPutsBack(refused)
  PROVE  \E cp \in SnapshotType : /\ cp = best[1]
                                  /\ Sound(cp) /\ SoundForJudge(cp) /\ Restorable(cp)
                                  /\ PutBack(cp, TRUE, refused)
<1>1. best \in Seq(SnapshotType) /\ best # <<>>
  BY DEF CopyTypeOK, CheckPutsBack
<1>2. best[1] \in SnapshotType /\ 1 \in DOMAIN best
  BY <1>1, EmptySeq, FirstOf
<1>3. PICK cp \in SnapshotType : cp = best[1]
  BY <1>2
<1>4. Sound(cp) /\ SoundForJudge(cp)
  BY <1>2, <1>3 DEF CheckPutsBack, ToolCall, SnapshotsSound
<1>. QED  BY <1>3, <1>4 DEF CheckPutsBack, Restorable

LEMMA RemovedStep ==
  ASSUME LimitsAssumption, CopyTypeOK, Copying, SnapshotsSound, RemovedUnknown, RemovedStaysRemoved,
         [CopyNext]_copyVars
  PROVE  RemovedUnknown' /\ RemovedStaysRemoved'
<1>. USE DEF RemovedUnknown, RemovedStaysRemoved, projectVars, recordVars, turnVars, ghostVars
<1>1. ASSUME NEW f \in Files, StatFile(f) \/ CopyFile(f)
      PROVE  RemovedUnknown' /\ RemovedStaysRemoved'
  BY <1>1 DEF StatFile, CopyFile, Copying
<1>2. ASSUME CopyMade \/ EndTurn \/ Discard \/ OffersMade \/ CheckIsBest
      PROVE  RemovedUnknown' /\ RemovedStaysRemoved'
  BY <1>2 DEF CopyMade, EndTurn, Discard, OffersMade, CheckIsBest
<1>3. ASSUME NEW f \in Files, NEW c \in Contents, Edit(f, c)
      PROVE  RemovedUnknown' /\ RemovedStaysRemoved'
  BY <1>3 DEF CopyTypeOK, Edit
<1>4. ASSUME NEW f \in Files, NEW c \in Contents \cup {Absent}, Command(f, c)
      PROVE  RemovedUnknown' /\ RemovedStaysRemoved'
  BY <1>4 DEF CopyTypeOK, Command
<1>5. ASSUME NEW name \in Names, SaveCheckpoint(name)
      PROVE  RemovedUnknown' /\ RemovedStaysRemoved'
  BY <1>5 DEF SaveCheckpoint
<1>6. ASSUME NEW name \in Names \cup {AutoName}, NEW refused \in Refusable,
             RestoreCheckpoint(name, refused)
      PROVE  RemovedUnknown' /\ RemovedStaysRemoved'
  <2>1. PICK cp \in SnapshotType : Sound(cp) /\ Restorable(cp) /\ PutBack(cp, FALSE, refused)
    BY <1>6, RestoredSound
  <2>2. \A f \in removed : copy'[f] = Absent
    BY <2>1, PutBackSparesRemoved
  <2>. QED  BY <1>6, <2>2 DEF RestoreCheckpoint
<1>7. ASSUME NEW refused \in Refusable, CheckPutsBack(refused)
      PROVE  RemovedUnknown' /\ RemovedStaysRemoved'
  <2>1. PICK cp \in SnapshotType : Sound(cp) /\ Restorable(cp) /\ PutBack(cp, TRUE, refused)
    BY <1>7, JudgedSound
  <2>2. \A f \in removed : copy'[f] = Absent
    BY <2>1, PutBackSparesRemoved
  <2>. QED  BY <1>7, <2>2 DEF CheckPutsBack
<1>8. ASSUME NEW f \in Files, FollowDelete(f) \/ DeleteStaged(f)
      PROVE  RemovedUnknown' /\ RemovedStaysRemoved'
  BY <1>8 DEF CopyTypeOK, FollowDelete, DeleteStaged, Forget
<1>9. ASSUME NEW f \in Files, FollowRestore(f)
      PROVE  RemovedUnknown' /\ RemovedStaysRemoved'
  BY <1>9 DEF CopyTypeOK, FollowRestore
<1>10. ASSUME NEW f \in Files, NEW g \in Files \ {f}, FollowMove(f, g)
       PROVE  RemovedUnknown' /\ RemovedStaysRemoved'
  BY <1>10 DEF CopyTypeOK, FollowMove, MoveInCopy, Renamed
<1>11. ASSUME NEW f \in Files, NEW g \in Files \ {f}, MoveStaged(f, g)
       PROVE  RemovedUnknown' /\ RemovedStaysRemoved'
  BY <1>11 DEF CopyTypeOK, MoveStaged, MoveInCopy, Renamed
<1>12. ASSUME NEW f \in Files, LookAtReal(f) \/ ReadReal(f) \/ Review(f)
       PROVE  RemovedUnknown' /\ RemovedStaysRemoved'
  BY <1>12 DEF LookAtReal, ReadReal, Review
<1>13. ASSUME NEW f \in Files, NEW c \in Contents \cup {Absent}, UserWrites(f, c)
       PROVE  RemovedUnknown' /\ RemovedStaysRemoved'
  BY <1>13 DEF UserWrites
<1>14. CASE UNCHANGED copyVars
  BY <1>14 DEF copyVars
<1>. QED
  BY <1>1, <1>2, <1>3, <1>4, <1>5, <1>6, <1>7, <1>8, <1>9, <1>10, <1>11, <1>12, <1>13, <1>14
  DEF CopyNext, Turn, Tool

\* A file that was moved carries what was done to it along.
LEMMA MovesFollow ==
  ASSUME CopyTypeOK, SavesShow, OthersFollow, NEW f \in Files, NEW g \in Files \ {f},
         FollowMove(f, g) \/ MoveStaged(f, g)
  PROVE  OthersFollow'
<1>. USE DEF projectVars, recordVars, turnVars, ghostVars
<1>1. phase = "working" /\ phase' = phase /\ MoveInCopy(f, g)
  BY DEF FollowMove, MoveStaged, ToolCall
<1>2. /\ copy' = IF copy[f] = Absent THEN copy ELSE [copy EXCEPT ![g] = copy[f], ![f] = Absent]
      /\ known' = Renamed(known, f, g)
      /\ touched' = Renamed(touched, f, g)
      /\ byCommand' = Renamed(byCommand, f, g)
      /\ commands' = [commands EXCEPT ![g] = @ \cup commands[f]]
  BY <1>1 DEF MoveInCopy
<1>3. \A h \in Files \ {f, g} : /\ copy'[h] = copy[h] /\ commands'[h] = commands[h]
                                /\ h \in known' <=> h \in known
                                /\ h \in touched' <=> h \in touched
                                /\ h \in byCommand' <=> h \in byCommand
  BY <1>2 DEF CopyTypeOK, Renamed
<1>4. copy'[f] = Absent /\ f \notin known' \cup byCommand'
  BY <1>2 DEF CopyTypeOK, Renamed
<1>5. commands'[g] = commands[g] \cup commands[f]
  BY <1>2 DEF CopyTypeOK
<1>6. copy'[g] = IF copy[f] = Absent THEN copy[g] ELSE copy[f]
  BY <1>2 DEF CopyTypeOK
<1>7. g \in touched' \cup byCommand' <=> {f, g} \cap (touched \cup byCommand) # {}
  BY <1>2 DEF Renamed
<1>8. g \in known' <=> {f, g} \cap known # {}
  BY <1>2 DEF Renamed
<1>9. ASSUME g \notin touched' \cup byCommand', "deleted" \notin commands'[g]
      PROVE  /\ g \notin known' => copy'[g] = Absent
             /\ g \in known' \ dirty' => copy'[g] = real'[g]
  <2>1. AsInProject(f, copy[f]) /\ AsInProject(g, copy[g])
    BY <1>1, <1>5, <1>7, <1>9 DEF OthersFollow
  <2>2. CASE MoveStaged(f, g)
    BY <1>6, <1>8, <2>1, <2>2 DEF MoveStaged, AsInProject
  <2>3. CASE FollowMove(f, g)
    <3>1. real[f] # Absent /\ real[g] = Absent /\ real'[g] = real[f]
      BY <2>3 DEF FollowMove, CopyTypeOK
    <3>2. g \notin known' => copy'[g] = Absent
      BY <1>6, <1>8, <2>1 DEF AsInProject
    <3>3. ASSUME g \in known', g \notin dirty'
          PROVE  copy'[g] = real'[g]
      <4>1. PICK e \in {f, g} \cap known : e \notin dirty
        BY <1>8, <2>3, <3>3 DEF FollowMove
      <4>2. e = f
        BY <3>1, <4>1 DEF SavesShow
      <4>3. copy[f] = real[f]
        BY <2>1, <4>1, <4>2 DEF AsInProject
      <4>. QED  BY <1>6, <3>1, <4>3
    <3>. QED  BY <3>2, <3>3
  <2>. QED  BY <2>2, <2>3
<1>10. \A h \in Files \ {f, g} : (h \in dirty' <=> h \in dirty) /\ real'[h] = real[h]
  BY DEF FollowMove, MoveStaged, CopyTypeOK
<1>11. ASSUME NEW h \in Files, h \notin touched' \cup byCommand', "deleted" \notin commands'[h]
       PROVE  /\ h \notin known' => copy'[h] = Absent
              /\ h \in known' \ dirty' => copy'[h] = real'[h]
  <2>1. CASE h = f
    BY <1>4, <2>1
  <2>2. CASE h = g
    BY <1>9, <1>11, <2>2
  <2>3. CASE h \notin {f, g}
    <3>1. AsInProject(h, copy[h])
      BY <1>1, <1>3, <1>11, <2>3 DEF OthersFollow
    <3>. QED  BY <1>3, <1>10, <2>3, <3>1 DEF AsInProject
  <2>. QED  BY <2>1, <2>2, <2>3
<1>12. ASSUME NEW h \in byCommand'
       PROVE  commands'[h] # {}
  <2>1. CASE h = g
    BY <1>1, <1>2, <1>5, <1>12, <2>1 DEF OthersFollow, Renamed
  <2>2. CASE h # g
    <3>1. h # f /\ h \in byCommand
      BY <1>2, <1>4, <1>12, <2>2 DEF Renamed
    <3>2. h \in Files /\ commands[h] # {}
      BY <1>1, <3>1 DEF OthersFollow, CopyTypeOK
    <3>. QED  BY <1>3, <2>2, <3>1, <3>2
  <2>. QED  BY <2>1, <2>2
<1>. QED  BY <1>11, <1>12 DEF OthersFollow, AsInProject

LEMMA FollowStep ==
  ASSUME LimitsAssumption, CopyTypeOK, Copying, SavesShow, SnapshotsSound, OthersFollow,
         [CopyNext]_copyVars
  PROVE  OthersFollow'
<1>. USE DEF OthersFollow, AsInProject, projectVars, recordVars, turnVars, ghostVars
<1>1. ASSUME NEW f \in Files, StatFile(f) \/ CopyFile(f)
      PROVE  OthersFollow'
  BY <1>1 DEF CopyTypeOK, StatFile, CopyFile, Copying
<1>2. ASSUME CopyMade \/ EndTurn \/ Discard \/ OffersMade \/ CheckIsBest
      PROVE  OthersFollow'
  BY <1>2 DEF CopyMade, EndTurn, Discard, OffersMade, CheckIsBest, ToolCall
<1>3. ASSUME NEW f \in Files, NEW c \in Contents, Edit(f, c)
      PROVE  OthersFollow'
  BY <1>3 DEF CopyTypeOK, Edit, ToolCall
<1>4. ASSUME NEW f \in Files, NEW c \in Contents \cup {Absent}, Command(f, c)
      PROVE  OthersFollow'
  <2>1. CASE c = copy[f]
    BY <1>4, <2>1 DEF CopyTypeOK, Command, ToolCall
  <2>2. CASE c # copy[f]
    <3>1. /\ copy' = [copy EXCEPT ![f] = c]
          /\ byCommand' = IF c = Absent THEN byCommand ELSE byCommand \cup {f}
          /\ commands' = [commands EXCEPT ![f] = @ \cup {IF c = Absent THEN "deleted" ELSE "wrote"}]
          /\ UNCHANGED <<real, dirty, phase, known, touched>>
      BY <1>4, <2>2 DEF Command
    <3>2. (IF c = Absent THEN "deleted" ELSE "wrote") \in commands'[f]
      BY <3>1 DEF CopyTypeOK
    <3>3. f \in byCommand' \/ "deleted" \in commands'[f]
      BY <3>1, <3>2
    <3>4. \A h \in Files \ {f} : copy'[h] = copy[h] /\ commands'[h] = commands[h]
      BY <3>1 DEF CopyTypeOK
    <3>. QED  BY <1>4, <3>1, <3>2, <3>3, <3>4 DEF CopyTypeOK, Command, ToolCall
  <2>. QED  BY <2>1, <2>2
<1>5. ASSUME NEW name \in Names, SaveCheckpoint(name)
      PROVE  OthersFollow'
  BY <1>5 DEF SaveCheckpoint, ToolCall
<1>6. ASSUME NEW cp \in SnapshotType, Sound(cp), Restorable(cp), phase = "working",
             NEW withCommands, NEW refused \in Refusable, PutBack(cp, withCommands, refused),
             UNCHANGED <<real, dirty, known, byCommand, commands>>
      PROVE  OthersFollow'
  <2>1. ASSUME NEW f \in Files, f \notin touched' \cup byCommand', "deleted" \notin commands'[f]
        PROVE  AsInProject(f, copy'[f])
    BY <1>6, <2>1, PutBackFollows
  <2>. QED  BY <1>6, <2>1
<1>7. ASSUME NEW name \in Names \cup {AutoName}, NEW refused \in Refusable,
             RestoreCheckpoint(name, refused)
      PROVE  OthersFollow'
  <2>1. PICK cp \in SnapshotType : Sound(cp) /\ Restorable(cp) /\ PutBack(cp, FALSE, refused)
    BY <1>7, RestoredSound
  <2>2. phase = "working" /\ UNCHANGED <<real, dirty, known, byCommand, commands>>
    BY <1>7 DEF RestoreCheckpoint, ToolCall
  <2>. QED  BY <1>6, <2>1, <2>2
<1>8. ASSUME NEW refused \in Refusable, CheckPutsBack(refused)
      PROVE  OthersFollow'
  <2>1. PICK cp \in SnapshotType : Sound(cp) /\ Restorable(cp) /\ PutBack(cp, TRUE, refused)
    BY <1>8, JudgedSound
  <2>2. phase = "working" /\ UNCHANGED <<real, dirty, known, byCommand, commands>>
    BY <1>8 DEF CheckPutsBack, ToolCall
  <2>. QED  BY <1>6, <2>1, <2>2
<1>9. ASSUME NEW f \in Files, FollowDelete(f) \/ DeleteStaged(f)
      PROVE  OthersFollow'
  BY <1>9 DEF CopyTypeOK, FollowDelete, DeleteStaged, Forget, ToolCall
<1>10. ASSUME NEW f \in Files, FollowRestore(f)
       PROVE  OthersFollow'
  BY <1>10 DEF CopyTypeOK, FollowRestore, ToolCall
<1>11. ASSUME NEW f \in Files, LookAtReal(f) \/ ReadReal(f) \/ Review(f)
       PROVE  OthersFollow'
  BY <1>11 DEF LookAtReal, ReadReal, Review
<1>12. ASSUME NEW f \in Files, NEW c \in Contents \cup {Absent}, UserWrites(f, c)
       PROVE  OthersFollow'
  BY <1>12 DEF CopyTypeOK, UserWrites
<1>13. CASE UNCHANGED copyVars
  BY <1>13 DEF copyVars
<1>. QED
  BY <1>1, <1>2, <1>3, <1>4, <1>5, <1>7, <1>8, <1>9, <1>10, <1>11, <1>12, <1>13, MovesFollow
  DEF CopyNext, Turn, Tool

-----------------------------------------------------------------------------
\* Snapshots stay sound.

\* A step that leaves alone what a snapshot is judged by, or only moves further from it.
LEMMA SoundFrame ==
  ASSUME CopyTypeOK, NEW cp \in SnapshotType, Sound(cp),
         UNCHANGED <<known, reshaped>>,
         \A f \in known \ dirty' : f \notin dirty /\ real'[f] = real[f],
         removed' \subseteq removed,
         \A f \in touched \cup byCommand : f \in touched' \cup byCommand' \/ f \notin known,
         \A f \in Files : commands[f] \subseteq commands'[f]
  PROVE  Sound(cp)' /\ (SoundForJudge(cp) => SoundForJudge(cp)')
<1>1. ASSUME NEW f, AsInProject(f, cp.saved[f])
      PROVE  AsInProject(f, cp.saved[f])'
  BY <1>1 DEF AsInProject
<1>2. Sound(cp)'
  <2>1. cp.reshaped <= reshaped'
    BY DEF Sound
  <2>2. ASSUME Restorable(cp)'
        PROVE  /\ \A f \in removed' : cp.saved[f] = Absent
               /\ \A f \in cp.held : f \in touched' \cup byCommand' \/ f \notin known'
               /\ \A f \in Files \ cp.held : commands'[f] = {} => AsInProject(f, cp.saved[f])'
    <3>1. Restorable(cp)
      BY <2>2 DEF Restorable
    <3>2. \A f \in Files : commands'[f] = {} => commands[f] = {}
      OBVIOUS
    <3>. QED  BY <1>1, <3>1, <3>2 DEF Sound
  <2>. QED  BY <2>1, <2>2 DEF Sound
<1>3. ASSUME SoundForJudge(cp)
      PROVE  SoundForJudge(cp)'
  <2>1. Restorable(cp)' => Restorable(cp)
    BY DEF Restorable
  <2>2. \A f \in Files : "deleted" \notin commands'[f] => "deleted" \notin commands[f]
    OBVIOUS
  <2>. QED  BY <1>1, <1>3, <2>1, <2>2 DEF SoundForJudge
<1>. QED  BY <1>2, <1>3

\* After a delete, a move or a restore of the project no snapshot may be restored any more.
LEMMA SoundReshaped ==
  ASSUME CopyTypeOK, NEW cp \in SnapshotType, Sound(cp), reshaped' = reshaped + 1
  PROVE  Sound(cp)' /\ SoundForJudge(cp)'
<1>1. cp.reshaped \in Nat /\ reshaped \in Nat /\ cp.reshaped <= reshaped
  BY DEF CopyTypeOK, SnapshotType, Sound
<1>2. cp.reshaped <= reshaped' /\ cp.reshaped # reshaped'
  BY <1>1
<1>. QED  BY <1>2 DEF Sound, SoundForJudge, Restorable

LEMMA SoundStays ==
  ASSUME CopyTypeOK, LimitsAssumption, NEW cp \in SnapshotType, Sound(cp),
         \/ Tool
         \/ \E f \in Files, c \in Contents \cup {Absent} : UserWrites(f, c)
         \/ UNCHANGED copyVars
  PROVE  Sound(cp)' /\ (SoundForJudge(cp) => SoundForJudge(cp)')
<1>. USE DEF projectVars, recordVars, turnVars, ghostVars
<1>. DEFINE Stays == Sound(cp)' /\ (SoundForJudge(cp) => SoundForJudge(cp)')
<1>1. ASSUME NEW f \in Files, NEW c \in Contents, Edit(f, c)
      PROVE  Stays
  BY <1>1, SoundFrame DEF Edit
<1>2. ASSUME NEW f \in Files, NEW c \in Contents \cup {Absent}, Command(f, c)
      PROVE  Stays
  <2>1. UNCHANGED <<real, dirty, known, touched, reshaped>>
    BY <1>2 DEF Command
  <2>2. removed' \subseteq removed /\ byCommand \subseteq byCommand'
    BY <1>2 DEF Command
  <2>3. \A h \in Files : commands[h] \subseteq commands'[h]
    <3>1. \/ commands' = commands
          \/ \E what : commands' = [commands EXCEPT ![f] = @ \cup {what}]
      BY <1>2 DEF Command
    <3>2. commands \in [Files -> SUBSET {"wrote", "deleted"}]
      BY DEF CopyTypeOK
    <3>. QED  BY <3>1, <3>2
  <2>. QED  BY <2>1, <2>2, <2>3, SoundFrame
<1>3. ASSUME UNCHANGED <<real, dirty, known, touched, byCommand, reshaped, commands, removed>>
      PROVE  Stays
  BY <1>3, SoundFrame
<1>4. ASSUME NEW name \in Names, SaveCheckpoint(name)
      PROVE  Stays
  BY <1>3, <1>4 DEF SaveCheckpoint
<1>5. ASSUME CheckIsBest
      PROVE  Stays
  BY <1>3, <1>5 DEF CheckIsBest
<1>6. ASSUME UNCHANGED <<real, dirty, known, byCommand, reshaped, commands, removed>>,
             touched \subseteq touched'
      PROVE  Stays
  BY <1>6, SoundFrame
<1>7. ASSUME NEW name \in Names \cup {AutoName}, NEW refused \in Refusable,
             RestoreCheckpoint(name, refused)
      PROVE  Stays
  <2>1. PICK put \in SnapshotType : PutBack(put, FALSE, refused)
    BY <1>7, FoundCheckpoint DEF RestoreCheckpoint
  <2>2. touched \subseteq touched'
    BY <2>1, PuttingBack
  <2>. QED  BY <1>6, <1>7, <2>2 DEF RestoreCheckpoint
<1>8. ASSUME NEW refused \in Refusable, CheckPutsBack(refused)
      PROVE  Stays
  <2>1. best \in Seq(SnapshotType) /\ best # <<>>
    BY <1>8 DEF CheckPutsBack, CopyTypeOK
  <2>2. best[1] \in SnapshotType /\ PutBack(best[1], TRUE, refused)
    BY <1>8, <2>1, FirstOf DEF CheckPutsBack
  <2>3. touched \subseteq touched'
    BY <2>2, PuttingBack
  <2>. QED  BY <1>6, <1>8, <2>3 DEF CheckPutsBack
<1>9. ASSUME NEW f \in Files, FollowDelete(f) \/ FollowRestore(f)
      PROVE  Stays
  BY <1>9, SoundReshaped DEF FollowDelete, FollowRestore
<1>10. ASSUME NEW f \in Files, DeleteStaged(f)
       PROVE  Stays
  <2>1. /\ UNCHANGED <<real, dirty, reshaped, commands, removed>> /\ f \notin known
        /\ known' = known \ {f} /\ touched' = touched \ {f} /\ byCommand' = byCommand \ {f}
    BY <1>10 DEF DeleteStaged, Forget
  <2>2. known' = known
    BY <2>1
  <2>. QED  BY <2>1, <2>2, SoundFrame
<1>11. ASSUME NEW f \in Files, NEW g \in Files \ {f}, FollowMove(f, g)
       PROVE  Stays
  BY <1>11, SoundReshaped DEF FollowMove
<1>12. ASSUME NEW f \in Files, NEW g \in Files \ {f}, MoveStaged(f, g)
       PROVE  Stays
  <2>1. /\ UNCHANGED <<real, dirty, reshaped>> /\ f \notin known /\ removed' = removed \ {g}
        /\ known' = Renamed(known, f, g) /\ touched' = Renamed(touched, f, g)
        /\ byCommand' = Renamed(byCommand, f, g)
        /\ commands' = [commands EXCEPT ![g] = @ \cup commands[f]]
    BY <1>12 DEF MoveStaged, MoveInCopy
  <2>2. known' = known
    BY <2>1 DEF Renamed
  <2>3. \A h \in touched \cup byCommand : h \in touched' \cup byCommand' \/ h \notin known
    BY <2>1 DEF Renamed
  <2>4. \A h \in Files : commands[h] \subseteq commands'[h]
    BY <2>1 DEF CopyTypeOK
  <2>. QED  BY <2>1, <2>2, <2>3, <2>4, SoundFrame
<1>13. ASSUME NEW f \in Files, NEW c \in Contents \cup {Absent}, UserWrites(f, c)
       PROVE  Stays
  <2>1. /\ UNCHANGED <<known, touched, byCommand, reshaped, commands, removed>>
        /\ dirty' = dirty \cup {f}
        /\ real' = [real EXCEPT ![f] = c]
    BY <1>13 DEF UserWrites
  <2>2. \A h \in known \ dirty' : h \notin dirty /\ real'[h] = real[h]
    BY <2>1 DEF CopyTypeOK
  <2>. QED  BY <2>1, <2>2, SoundFrame
<1>14. ASSUME UNCHANGED copyVars
       PROVE  Stays
  BY <1>3, <1>14 DEF copyVars
<1>. QED
  BY <1>1, <1>2, <1>4, <1>5, <1>7, <1>8, <1>9, <1>10, <1>11, <1>12, <1>13, <1>14 DEF Tool

\* What a snapshot leaves out is, when it is taken, the project's own.
LEMMA SnapshotSound ==
  ASSUME CopyTypeOK, phase = "working", OthersFollow, RemovedStaysRemoved,
         NEW name \in Names \cup {AutoName, "best"}, NEW held \in SUBSET Files,
         touched \subseteq held, held \subseteq touched \cup byCommand
  PROVE  \E cp \in SnapshotType : /\ cp = SnapshotOf(name, held) /\ Sound(cp)
                                  /\ byCommand \subseteq held => SoundForJudge(cp)
<1>1. PICK cp \in SnapshotType : cp = SnapshotOf(name, held)
  BY SnapshotsType
<1>2. cp.held = held /\ cp.saved = copy /\ cp.reshaped = reshaped
  BY <1>1 DEF SnapshotOf
<1>3. ASSUME NEW f \in Files \ held, commands[f] = {}
      PROVE  AsInProject(f, copy[f])
  <2>1. f \notin touched \cup byCommand /\ "deleted" \notin commands[f]
    BY <1>3 DEF OthersFollow
  <2>. QED  BY <2>1 DEF OthersFollow
<1>4. Sound(cp)
  <2>1. cp.reshaped <= reshaped
    BY <1>2 DEF CopyTypeOK
  <2>2. \A f \in removed : cp.saved[f] = Absent
    BY <1>2 DEF RemovedStaysRemoved
  <2>. QED  BY <1>2, <1>3, <2>1, <2>2 DEF Sound
<1>5. ASSUME byCommand \subseteq held
      PROVE  SoundForJudge(cp)
  BY <1>2, <1>5 DEF SoundForJudge, OthersFollow
<1>. QED  BY <1>1, <1>4, <1>5

LEMMA SnapshotsStep ==
  ASSUME LimitsAssumption, CopyTypeOK, Copying, OthersFollow, RemovedStaysRemoved, SnapshotsSound,
         [CopyNext]_copyVars
  PROVE  SnapshotsSound'
<1>. USE DEF projectVars, recordVars, turnVars, ghostVars
<1>1. SUFFICES ASSUME phase' = "working"
               PROVE  /\ \A i \in DOMAIN checkpoints' : Sound(checkpoints[i])'
                      /\ \A i \in DOMAIN best' : Sound(best[i])' /\ SoundForJudge(best[i])'
  BY DEF SnapshotsSound
<1>2. CASE CopyMade
  BY <1>2 DEF CopyMade, Copying
<1>3. ASSUME \/ Tool
             \/ \E f \in Files, c \in Contents \cup {Absent} : UserWrites(f, c)
             \/ UNCHANGED copyVars
      PROVE  /\ \A i \in DOMAIN checkpoints' : Sound(checkpoints[i])'
             /\ \A i \in DOMAIN best' : Sound(best[i])' /\ SoundForJudge(best[i])'
  <2>1. phase = "working"
    BY <1>1, <1>3, ToolWorks DEF UserWrites, copyVars
  <2>2. ASSUME NEW i \in DOMAIN checkpoints
        PROVE  \E cp \in SnapshotType : cp = checkpoints[i] /\ Sound(cp)
    BY <2>1 DEF SnapshotsSound, CopyTypeOK
  <2>3. ASSUME NEW i \in DOMAIN best
        PROVE  \E cp \in SnapshotType : cp = best[i] /\ Sound(cp) /\ SoundForJudge(cp)
    BY <2>1 DEF SnapshotsSound, CopyTypeOK
  <2>4. \A cp \in SnapshotType : Sound(cp) => Sound(cp)' /\ (SoundForJudge(cp) => SoundForJudge(cp)')
    BY <1>3, SoundStays
  <2>5. ASSUME checkpoints' = checkpoints
        PROVE  \A i \in DOMAIN checkpoints' : Sound(checkpoints[i])'
    BY <2>2, <2>4, <2>5
  <2>6. ASSUME best' = best
        PROVE  \A i \in DOMAIN best' : Sound(best[i])' /\ SoundForJudge(best[i])'
    BY <2>3, <2>4, <2>6
  <2>7. ASSUME NEW cp \in SnapshotType, Sound(cp), KeepCheckpoint(cp)
        PROVE  \A i \in DOMAIN checkpoints' : Sound(checkpoints[i])'
    <3>1. ASSUME NEW i \in DOMAIN checkpoints'
          PROVE  \E old \in SnapshotType : checkpoints'[i] = old /\ Sound(old)
      BY <2>2, <2>7, Keeping
    <3>. QED  BY <2>4, <3>1
  <2>8. ASSUME NEW name \in Names, SaveCheckpoint(name)
        PROVE  \A i \in DOMAIN checkpoints' : Sound(checkpoints[i])'
    <3>1. touched \in SUBSET Files
      BY DEF CopyTypeOK
    <3>2. PICK cp \in SnapshotType : cp = SnapshotOf(name, touched) /\ Sound(cp)
      BY <2>1, <3>1, SnapshotSound
    <3>. QED  BY <2>7, <2>8, <3>2 DEF SaveCheckpoint
  <2>9. ASSUME NEW refused \in Refusable, CheckPutsBack(refused)
        PROVE  \A i \in DOMAIN checkpoints' : Sound(checkpoints[i])'
    <3>1. touched \cup byCommand \in SUBSET Files
      BY DEF CopyTypeOK
    <3>2. PICK cp \in SnapshotType : cp = SnapshotOf(AutoName, touched \cup byCommand) /\ Sound(cp)
      BY <2>1, <3>1, SnapshotSound
    <3>3. checkpoints' = checkpoints \/ KeepCheckpoint(cp)
      BY <2>9, <3>2 DEF CheckPutsBack
    <3>. QED  BY <2>5, <2>7, <3>2, <3>3
  <2>10. ASSUME CheckIsBest
         PROVE  \A i \in DOMAIN best' : Sound(best[i])' /\ SoundForJudge(best[i])'
    <3>1. touched \cup byCommand \in SUBSET Files
      BY DEF CopyTypeOK
    <3>2. PICK cp \in SnapshotType :
            cp = SnapshotOf("best", touched \cup byCommand) /\ Sound(cp) /\ SoundForJudge(cp)
      BY <2>1, <3>1, SnapshotSound
    <3>3. best' = best \/ best' = <<cp>>
      BY <2>10, <3>2 DEF CheckIsBest
    <3>4. CASE best' = <<cp>>
      <4>1. \A i \in DOMAIN best' : best'[i] = cp
        BY <3>4
      <4>. QED  BY <2>4, <3>2, <4>1
    <3>. QED  BY <2>6, <3>3, <3>4
  <2>11. \/ UNCHANGED <<checkpoints, best>>
         \/ \E name \in Names : SaveCheckpoint(name) /\ UNCHANGED best
         \/ \E refused \in Refusable : CheckPutsBack(refused) /\ UNCHANGED best
         \/ CheckIsBest /\ UNCHANGED checkpoints
    <3>1. CASE Tool
      BY <3>1
      DEF Tool, Edit, Command, SaveCheckpoint, RestoreCheckpoint, CheckIsBest, CheckPutsBack,
          FollowDelete, DeleteStaged, FollowRestore, FollowMove, MoveStaged
    <3>2. CASE ~Tool
      BY <1>3, <3>2 DEF UserWrites, copyVars
    <3>. QED  BY <3>1, <3>2
  <2>. QED  BY <2>5, <2>6, <2>8, <2>9, <2>10, <2>11
<1>4. ASSUME NEW f \in Files,
             StatFile(f) \/ CopyFile(f) \/ LookAtReal(f) \/ ReadReal(f) \/ Review(f)
      PROVE  FALSE
  BY <1>1, <1>4 DEF StatFile, CopyFile, LookAtReal, ReadReal, Review
<1>5. ASSUME EndTurn \/ Discard \/ OffersMade
      PROVE  FALSE
  BY <1>1, <1>5 DEF EndTurn, Discard, OffersMade
<1>. QED  BY <1>2, <1>3, <1>4, <1>5 DEF CopyNext, Turn

-----------------------------------------------------------------------------
\* What comes back.

\* Putting back a sound snapshot, with nothing refused, leaves each file as it was when the
\* snapshot was taken, if it was the project's own then and has not been written since.
LEMMA ComesBack ==
  ASSUME CopyTypeOK, LimitsAssumption, phase = "working", SavesShow, OthersFollow,
         NEW cp \in SnapshotType, Restorable(cp), Sound(cp),
         NEW withCommands \in BOOLEAN, PutBack(cp, withCommands, {}),
         NEW f \in Files \ dirty, f \notin cp.held => AsInProject(f, cp.saved[f]),
         f \in byCommand => withCommands, "deleted" \notin commands[f]
  PROVE  copy'[f] = cp.saved[f]
<1>1. {} \in Refusable
  BY DEF Refusable
<1>2. ~Missing(cp, f)
  BY DEF Missing, SavesShow
<1>3. CASE f \in Paths(cp, withCommands)
  <2>1. copy'[f] = Wanted(cp, f)
    BY <1>1, <1>2, <1>3, PuttingBack
  <2>. QED  BY <2>1 DEF Wanted, AsInProject
<1>4. CASE f \notin Paths(cp, withCommands)
  <2>1. copy'[f] = copy[f]
    BY <1>1, <1>4, PuttingBack
  <2>2. f \notin touched \cup byCommand /\ f \notin cp.held
    BY <1>4 DEF Paths
  <2>3. AsInProject(f, copy[f])
    BY <2>2 DEF OthersFollow
  <2>. QED  BY <2>1, <2>2, <2>3 DEF AsInProject
<1>. QED  BY <1>3, <1>4

LEMMA BringsBack ==
  ASSUME Assumptions, Inv
  PROVE  /\ \A name \in Names : RestoreCheckpoint(name, {}) =>
              \A f \in Files \ dirty : commands[f] = {} =>
                copy'[f] = checkpoints[Min(Named(name))].saved[f]
         /\ CheckPutsBack({}) =>
              \A f \in Files \ dirty : "deleted" \notin commands[f] => copy'[f] = best[1].saved[f]
<1>0. LimitsAssumption /\ CopyTypeOK /\ SavesShow /\ OthersFollow /\ SnapshotsSound
  BY DEF Assumptions, Inv
<1>1. ASSUME NEW name \in Names, RestoreCheckpoint(name, {}),
             NEW f \in Files \ dirty, commands[f] = {}
      PROVE  copy'[f] = checkpoints[Min(Named(name))].saved[f]
  <2>1. phase = "working"
    BY <1>1 DEF RestoreCheckpoint, ToolCall
  <2>2. PICK cp \in SnapshotType : /\ cp = checkpoints[Min(Named(name))]
                                   /\ Sound(cp) /\ Restorable(cp) /\ PutBack(cp, FALSE, {})
    BY <1>0, <1>1, RestoredSound
  <2>3. f \notin byCommand /\ "deleted" \notin commands[f]
    BY <1>0, <1>1, <2>1 DEF OthersFollow
  <2>4. f \notin cp.held => AsInProject(f, cp.saved[f])
    BY <1>1, <2>2 DEF Sound
  <2>5. copy'[f] = cp.saved[f]
    BY <1>0, <2>1, <2>2, <2>3, <2>4, ComesBack
  <2>. QED  BY <2>2, <2>5
<1>2. ASSUME CheckPutsBack({}), NEW f \in Files \ dirty, "deleted" \notin commands[f]
      PROVE  copy'[f] = best[1].saved[f]
  <2>1. phase = "working"
    BY <1>2 DEF CheckPutsBack, ToolCall
  <2>2. PICK cp \in SnapshotType : /\ cp = best[1]
                                   /\ Sound(cp) /\ SoundForJudge(cp) /\ Restorable(cp)
                                   /\ PutBack(cp, TRUE, {})
    BY <1>0, <1>2, JudgedSound
  <2>3. f \notin cp.held => AsInProject(f, cp.saved[f])
    BY <1>2, <2>2 DEF SoundForJudge
  <2>4. copy'[f] = cp.saved[f]
    BY <1>0, <1>2, <2>1, <2>2, <2>3, ComesBack
  <2>. QED  BY <2>2, <2>4
<1>. QED  BY <1>1, <1>2

-----------------------------------------------------------------------------
\* The theorems.

LEMMA InvInit ==
  ASSUME Assumptions, CopyInit
  PROVE  Inv
<1>1. CopyTypeOK
  BY TypeInit
<1>2. Copying /\ Offering /\ OfferSparesTheUser
  BY DEF CopyInit, Copying, Offering, OfferSparesTheUser
<1>3. SavesShow /\ RemovedUnknown /\ RemovedStaysRemoved /\ SnapshotsSound
  BY DEF CopyInit, SavesShow, RemovedUnknown, RemovedStaysRemoved, SnapshotsSound
<1>4. OthersFollow
  BY DEF CopyInit, OthersFollow, AsInProject
<1>. QED  BY <1>1, <1>2, <1>3, <1>4 DEF Inv

LEMMA InvStep ==
  ASSUME Assumptions, Inv, [CopyNext]_copyVars
  PROVE  Inv'
<1>1. /\ FilesAssumption /\ LimitsAssumption
      /\ CopyTypeOK /\ Copying /\ Offering /\ SavesShow /\ OfferSparesTheUser
      /\ RemovedUnknown /\ RemovedStaysRemoved /\ OthersFollow /\ SnapshotsSound
  BY DEF Assumptions, Inv
<1>2. CopyTypeOK'
  BY <1>1, TypeStep
<1>3. Copying' /\ Offering' /\ SavesShow' /\ OfferSparesTheUser'
  BY <1>1, CopyingStep, OfferingStep, SavesStep, SparesStep
<1>4. RemovedUnknown' /\ RemovedStaysRemoved' /\ OthersFollow' /\ SnapshotsSound'
  BY <1>1, RemovedStep, FollowStep, SnapshotsStep
<1>. QED  BY <1>2, <1>3, <1>4 DEF Inv

LEMMA Invariant ==
  ASSUME Assumptions
  PROVE  CopySpec => []Inv
<1>1. CopyInit => Inv
  BY InvInit
<1>2. Inv /\ [CopyNext]_copyVars => Inv'
  BY InvStep
<1>. QED  BY <1>1, <1>2, PTL DEF CopySpec

\* Every variable keeps its type; there are never more than MaxCheckpoints; and the net changes
\* offer a file's new content, never its removal, however the user's editor and the turn's
\* tools interleave (netChanges, keepCheckpoint).
THEOREM CopyIsTyped == CopySpec => []CopyTypeOK
<1>1. CopySpec => []Inv
  BY Invariant, FilesAssumption, NamesAssumption, LimitsAssumption DEF Assumptions
<1>2. Inv => CopyTypeOK
  BY DEF Inv
<1>. QED  BY <1>1, <1>2, PTL

\* No block of the review would undo what the user saved after the copy read the file, even a
\* save in the middle of the copying or of a file moved since (copyFrom, netChanges).
THEOREM OffersSpareTheUser == CopySpec => []OfferSparesTheUser
<1>1. CopySpec => []Inv
  BY Invariant, FilesAssumption, NamesAssumption, LimitsAssumption DEF Assumptions
<1>2. Inv => OfferSparesTheUser
  BY DEF Inv
<1>. QED  BY <1>1, <1>2, PTL

\* A file of the project that the user agreed to delete or move away does not come back through
\* a checkpoint or the judge (restoreSnapshot, mirrorDelete, mirrorMove).
THEOREM RemovedFilesStayRemoved == CopySpec => []RemovedStaysRemoved
<1>1. CopySpec => []Inv
  BY Invariant, FilesAssumption, NamesAssumption, LimitsAssumption DEF Assumptions
<1>2. Inv => RemovedStaysRemoved
  BY DEF Inv
<1>. QED  BY <1>1, <1>2, PTL

\* A checkpoint, and the judge's best code, come back whole, the files they do not hold
\* included; but for files that the user saved, for a checkpoint files that any command of the
\* turn changed, and for the judge those that one deleted (restoreCheckpoint, restoreSnapshot).
THEOREM RestoresAreWhole == CopySpec => RestoreBringsBack
<1>1. CopySpec => []Inv
  BY Invariant, FilesAssumption, NamesAssumption, LimitsAssumption DEF Assumptions
<1>2. Inv => /\ \A name \in Names : RestoreCheckpoint(name, {}) =>
                  \A f \in Files \ dirty : commands[f] = {} =>
                    copy'[f] = checkpoints[Min(Named(name))].saved[f]
             /\ CheckPutsBack({}) =>
                  \A f \in Files \ dirty : "deleted" \notin commands[f] => copy'[f] = best[1].saved[f]
  BY BringsBack, FilesAssumption, NamesAssumption, LimitsAssumption DEF Assumptions
<1>. QED  BY <1>1, <1>2, PTL DEF RestoreBringsBack
=============================================================================
