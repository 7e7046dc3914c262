--------------------------- MODULE DaemonPartsProofs ---------------------------
(***************************************************************************)
(* Proofs about three parts of the daemon that share no state: its address *)
(* (DaemonAddress), the supervisor of its embedder helper (HelperProcess)  *)
(* and its agent turns (AgentTurn).                                        *)
(***************************************************************************)
EXTENDS AgentTurn, DaemonAddress, HelperProcess, FiniteSetTheorems, TLAPS

-----------------------------------------------------------------------------
\* The address.
\*
\* Every variable of DaemonAddress keeps its type, and no daemon is orphaned,
\* for any number of windows, daemons, retries, probes, uses
\* of the restart command and failures.
\*
\* A window that starts a daemon forgets the one that was its own before.
\* That loses none because a window does one thing at a time: it awaits
\* the probe of ensure(), owns a daemon, awaits a look for the winner of a
\* race, has a timer, or awaits what the restart command awaits - the
\* exit of a daemon, or a probe - and never two of these (OneConcern).  Only
\* a use of the command beside a call that is still awaited begins a second
\* thing, and only for its own window (Overlapped).

USE AddressAssumption

Timers == {NoTimer, Retry} \cup 1 .. Attempts

Supervisors ==
  [is : {"closed", "open", "disposed"}, own : {0} \cup Daemons, ensuring : BOOLEAN,
   adopting : SUBSET (1 .. Attempts), timer : Timers, spent : Nat, told : BOOLEAN]

Restarts ==
  [by : Windows \cup {"none"}, is : {"unused", "probing", "waiting", "over"},
   dying : {0} \cup Daemons, beside : BOOLEAN]

Types ==
  /\ proc \in [Daemons -> Stages] /\ starter \in [Daemons -> Windows \cup {"none"}]
  /\ signalled \subseteq Daemons
  /\ socket \in {0} \cup Daemons /\ lockfile \in {0} \cup Daemons
  /\ failures \in 0 .. MaxTrouble
  /\ window \in [Windows -> Supervisors]
  /\ restart \in [Presses -> Restarts]

\* A use of the command by w awaits a daemon's exit, or a probe.
Awaiting(r, w) == restart[r].by = w /\ restart[r].is \in {"probing", "waiting"}
Awaits(w) == \E r \in Presses : Awaiting(r, w)

\* One was begun beside another call of the window's.
Overlapped(w) == \E r \in Used : restart[r].by = w /\ restart[r].beside

\* The supervisor sup has nothing under way, but for a wait of its window's.
Rests(sup) == ~sup.ensuring /\ sup.own = 0 /\ sup.adopting = {} /\ sup.timer = NoTimer

\* It has one thing under way at most.
AtMostOne(sup) ==
  /\ sup.ensuring => sup.own = 0 /\ sup.adopting = {} /\ sup.timer = NoTimer
  /\ sup.own # 0 => sup.adopting = {} /\ sup.timer = NoTimer
  /\ sup.adopting # {} => sup.timer = NoTimer
  /\ \A m, n \in sup.adopting : m = n

\* The window w does one thing at a time.
Single(w) ==
  /\ AtMostOne(window[w])
  /\ Awaits(w) => Rests(window[w])
  /\ \A q, r \in Presses : Awaiting(q, w) /\ Awaiting(r, w) => q = r

OneConcern == \A w \in Windows : ~Overlapped(w) => Single(w)

\* A window that was never opened does nothing and has not used the command.
Beginnings ==
  \A w \in Windows : Is(w, "closed") =>
    Rests(window[w]) /\ \A r \in Presses : restart[r].by = w => restart[r].is = "unused"

AddressInv == Types /\ Beginnings /\ OneConcern /\ NoOrphan

-----------------------------------------------------------------------------
\* Types.

LEMMA Numbers ==
         /\ 0 \notin Daemons /\ Daemons \subseteq Nat /\ Presses \subseteq Nat
         /\ NoTimer \in Timers /\ Retry \in Timers /\ 1 \in 1 .. Attempts
         /\ \A n \in 1 .. Attempts : n \in Timers /\ n # NoTimer /\ n # Retry
  BY DEF AddressAssumption, Daemons, Presses, NoTimer, Retry, Timers

LEMMA TroubleIsCounted ==
  ASSUME Types
  PROVE  Cardinality(Used) \in Nat
<1>1. IsFiniteSet(Presses)
  BY FS_Interval DEF AddressAssumption, Presses
<1>2. Used \subseteq Presses
  BY DEF Used
<1>. QED  BY <1>1, <1>2, FS_Subset, FS_CardinalityType

\* The daemons' own steps.
DaemonStep(p) == Starts(p) \/ Stops(p) \/ Dies(p)

LEMMA DaemonsKeepTypes ==
  ASSUME Types, NEW p \in Daemons, DaemonStep(p)
  PROVE  Types' /\ UNCHANGED supervisorVars
<1>1. \A stage \in Stages : Goes(p, stage) =>
        proc' \in [Daemons -> Stages] /\ UNCHANGED supervisorVars
  BY DEF Goes, Types
<1>2. {"starting", "stale", "clear", "bound", "serving", "draining", "unlinked",
       "ok", "lost", "failed", "terminated", "killed", "unstarted"} \subseteq Stages
  BY DEF Stages, Exits
<1>3. proc' \in [Daemons -> Stages] /\ UNCHANGED supervisorVars
  BY <1>1, <1>2 DEF DaemonStep, Starts, Stops, Dies, ReclaimFindsNone, ReclaimAnswered,
     ReclaimUnanswered, ReclaimRemoves, ReclaimTooLate, Binds, BindLoses, Publishes, Terminated,
     StopsListening, RemovesSocket, RemovesLock, Exit
<1>4. socket' \in {0, p, socket} /\ lockfile' \in {0, p, lockfile}
  BY DEF DaemonStep, Starts, Stops, Dies, ReclaimFindsNone, ReclaimAnswered,
     ReclaimUnanswered, ReclaimRemoves, ReclaimTooLate, Binds, BindLoses, Publishes, Terminated,
     StopsListening, RemovesSocket, RemovesLock, Exit
<1>5. failures' = failures \/ (failures' = failures + 1 /\ Trouble < MaxTrouble)
  BY DEF DaemonStep, Starts, Stops, Dies, ReclaimFindsNone, ReclaimAnswered,
     ReclaimUnanswered, ReclaimRemoves, ReclaimTooLate, Binds, BindLoses, Publishes, Terminated,
     StopsListening, RemovesSocket, RemovesLock, Exit
<1>6. failures' \in 0 .. MaxTrouble
  BY <1>5, TroubleIsCounted DEF Trouble, Types, AddressAssumption
<1>. QED  BY <1>3, <1>4, <1>6 DEF Types, supervisorVars

\* The supervisors' steps, each by what it makes of its window's fields.
LEMMA FailureTypes ==
  ASSUME NEW sup \in Supervisors
  PROVE  AfterFailure(sup) \in Supervisors /\ AfterFailure(sup).own = sup.own
<1>0. sup.spent \in Nat /\ sup.spent + 1 \in Nat
  BY DEF Supervisors
<1>1. [sup EXCEPT !.spent = @ + 1, !.told = TRUE] \in Supervisors
  BY <1>0, Zenon DEF Supervisors
<1>2. [sup EXCEPT !.spent = @ + 1, !.timer = Retry] \in Supervisors
  BY <1>0, Numbers, Zenon DEF Supervisors
<1>3. /\ [sup EXCEPT !.spent = @ + 1, !.told = TRUE].own = sup.own
      /\ [sup EXCEPT !.spent = @ + 1, !.timer = Retry].own = sup.own
  BY DEF Supervisors
<1>. QED  BY <1>1, <1>2, <1>3 DEF AfterFailure

\* A failure of what was under way leaves at most a timer.
LEMMA FailureIsOne ==
  ASSUME NEW sup \in Supervisors, Rests(sup)
  PROVE  AtMostOne(AfterFailure(sup)) /\ AfterFailure(sup).is = sup.is
<1>1. /\ Rests([sup EXCEPT !.spent = @ + 1, !.told = TRUE])
      /\ [sup EXCEPT !.spent = @ + 1, !.told = TRUE].is = sup.is
  BY DEF Supervisors, Rests
<1>2. LET new == [sup EXCEPT !.spent = @ + 1, !.timer = Retry] IN
      new.is = sup.is /\ ~new.ensuring /\ new.own = 0 /\ new.adopting = {}
  BY DEF Supervisors, Rests
<1>3. AtMostOne([sup EXCEPT !.spent = @ + 1, !.told = TRUE])
  BY <1>1 DEF AtMostOne, Rests
<1>4. AtMostOne([sup EXCEPT !.spent = @ + 1, !.timer = Retry])
  BY <1>2 DEF AtMostOne
<1>. QED  BY <1>1, <1>2, <1>3, <1>4 DEF AfterFailure

\* What a window goes on with, where neither a daemon nor a use of the command is touched.
Follows(old, sup, w) ==
  /\ sup.is # "closed"
  /\ AtMostOne(old) => AtMostOne(sup)
  /\ ~(Rests(old) /\ Awaits(w))
  /\ \A p \in Daemons : Alive(p) /\ old.is = "open" /\ old.own = p => sup.is = "open" /\ sup.own = p

LEMMA SupervisorGoesOn ==
  ASSUME AddressInv, NEW w \in Windows, NEW sup \in Supervisors,
         Follows(window[w], sup, w),
         window' = [window EXCEPT ![w] = sup], UNCHANGED <<daemonVars, signalled, restart>>
  PROVE  AddressInv'
<1>. USE DEF AddressInv, daemonVars
<1>1. /\ window \in [Windows -> Supervisors] /\ window' \in [Windows -> Supervisors]
      /\ window'[w] = sup /\ \A v \in Windows : v # w => window'[v] = window[v]
  BY DEF Types
<1>2. Types'
  BY <1>1 DEF Types
<1>3. \A v \in Windows : (Awaits(v)' <=> Awaits(v)) /\ (Overlapped(v)' <=> Overlapped(v))
  BY DEF Awaits, Awaiting, Overlapped, Used
<1>4. Beginnings'
  BY <1>1, <1>3 DEF Beginnings, Is, Follows
<1>5. OneConcern'
  <2>1. SUFFICES ASSUME NEW v \in Windows, ~Overlapped(v)'
                 PROVE  Single(v)'
    BY DEF OneConcern
  <2>2. Single(v)
    BY <1>3, <2>1 DEF OneConcern
  <2>3. AtMostOne(window'[v]) /\ (Awaits(v) => Rests(window'[v]))
    <3>1. CASE v = w
      BY <1>1, <2>2, <3>1 DEF Single, Follows
    <3>2. CASE v # w
      BY <1>1, <2>2, <3>2 DEF Single
    <3>. QED  BY <3>1, <3>2
  <2>. QED  BY <1>3, <2>2, <2>3 DEF Single, Awaiting
<1>6. NoOrphan'
  <2>1. \A v \in Windows : Orphans(v)' \subseteq Orphans(v)
    BY <1>1 DEF Orphans, Spawned, Alive, Is, Follows
  <2>. QED  BY <1>3, <2>1 DEF NoOrphan, Overlapped
<1>. QED  BY <1>2, <1>4, <1>5, <1>6

LEMMA OpensKeepsInv ==
  ASSUME AddressInv, NEW w \in Windows, Opens(w)
  PROVE  AddressInv'
<1>1. window[w] \in Supervisors /\ window \in [Windows -> Supervisors]
  BY DEF AddressInv, Types
<1>2. Rests(window[w]) /\ ~Awaits(w)
  BY DEF Opens, AddressInv, Beginnings, Awaits, Awaiting
<1>3. PICK sup : sup = [window[w] EXCEPT !.is = "open", !.ensuring = TRUE]
  OBVIOUS
<1>4. /\ sup \in Supervisors /\ sup.is = "open" /\ sup.ensuring
      /\ sup.own = 0 /\ sup.adopting = {} /\ sup.timer = NoTimer
  BY <1>1, <1>2, <1>3 DEF Supervisors, Rests
<1>5. window' = [window EXCEPT ![w] = sup]
  BY <1>1, <1>3 DEF Opens, Supervisors
<1>6. Follows(window[w], sup, w)
  BY <1>2, <1>4 DEF Follows, AtMostOne, Opens, Is
<1>. QED  BY <1>4, <1>5, <1>6, SupervisorGoesOn DEF Opens

LEMMA EnsureEndsKeepsInv ==
  ASSUME AddressInv, NEW w \in Windows, EnsureEnds(w)
  PROVE  AddressInv'
<1>1. window[w] \in Supervisors /\ window \in [Windows -> Supervisors]
  BY DEF AddressInv, Types
<1>2. ~Rests(window[w]) /\ window[w].is # "closed"
  BY DEF EnsureEnds, AddressInv, Beginnings, Rests, Is
<1>3. PICK sup : sup = [window[w] EXCEPT !.ensuring = FALSE]
  OBVIOUS
<1>4. /\ sup \in Supervisors /\ sup.is = window[w].is /\ ~sup.ensuring
      /\ sup.own = window[w].own /\ sup.adopting = window[w].adopting /\ sup.timer = window[w].timer
  BY <1>1, <1>3 DEF Supervisors
<1>5. window' = [window EXCEPT ![w] = sup]
  BY <1>1, <1>3 DEF EnsureEnds, Supervisors
<1>6. Follows(window[w], sup, w)
  BY <1>2, <1>4 DEF Follows, AtMostOne
<1>. QED  BY <1>4, <1>5, <1>6, SupervisorGoesOn DEF EnsureEnds

LEMMA ExitDeliveredKeepsInv ==
  ASSUME AddressInv, NEW w \in Windows, NEW p \in Daemons, ExitDelivered(w, p)
  PROVE  AddressInv'
<1>1. window[w] \in Supervisors /\ window \in [Windows -> Supervisors]
  BY DEF AddressInv, Types
<1>2. window[w].own = p /\ p # 0 /\ proc[p] \in Exits
  BY Numbers DEF ExitDelivered
<1>3. ~Rests(window[w]) /\ window[w].is # "closed"
  BY <1>2 DEF AddressInv, Beginnings, Rests, Is
<1>4. PICK freed : freed = [window[w] EXCEPT !.own = 0]
  OBVIOUS
<1>5. /\ freed \in Supervisors /\ freed.is = window[w].is /\ freed.ensuring = window[w].ensuring
      /\ freed.own = 0 /\ freed.adopting = window[w].adopting /\ freed.timer = window[w].timer
  BY <1>1, <1>4 DEF Supervisors
<1>6. AtMostOne(window[w]) => Rests(freed)
  BY <1>2, <1>5, <1>1 DEF AtMostOne, Rests, Supervisors
<1>7. PICK sup : sup = AfterExit(freed, proc[p])
  OBVIOUS
<1>8. sup \in Supervisors /\ sup.is = freed.is /\ (Rests(freed) => AtMostOne(sup))
  <2>1. CASE proc[p] = "lost"
    <3>1. sup = [freed EXCEPT !.adopting = @ \cup {1}]
      BY <1>7, <2>1 DEF AfterExit
    <3>2. /\ sup \in Supervisors /\ sup.is = freed.is /\ sup.ensuring = freed.ensuring
          /\ sup.own = freed.own /\ sup.adopting = freed.adopting \cup {1} /\ sup.timer = freed.timer
      BY <1>5, <3>1, Numbers DEF Supervisors
    <3>. QED  BY <3>2 DEF Rests, AtMostOne
  <2>2. CASE proc[p] = "failed"
    <3>1. sup = AfterFailure(freed)
      BY <1>7, <2>2 DEF AfterExit
    <3>2. AfterFailure(freed).is = freed.is
      BY <1>5 DEF AfterFailure, Supervisors
    <3>. QED  BY <1>5, <3>1, <3>2, FailureTypes, FailureIsOne
  <2>3. CASE proc[p] = "unstarted"
    <3>1. sup = [freed EXCEPT !.told = TRUE]
      BY <1>7, <2>3 DEF AfterExit
    <3>2. /\ sup \in Supervisors /\ sup.is = freed.is /\ sup.ensuring = freed.ensuring
          /\ sup.own = freed.own /\ sup.adopting = freed.adopting /\ sup.timer = freed.timer
      BY <1>5, <3>1 DEF Supervisors
    <3>. QED  BY <3>2 DEF Rests, AtMostOne
  <2>4. CASE proc[p] \notin {"lost", "failed", "unstarted"}
    <3>1. sup = freed
      BY <1>7, <2>4 DEF AfterExit
    <3>. QED  BY <1>5, <3>1 DEF Rests, AtMostOne
  <2>. QED  BY <2>1, <2>2, <2>3, <2>4
<1>9. window' = [window EXCEPT ![w] = sup]
  BY <1>4, <1>7 DEF ExitDelivered
<1>10. Follows(window[w], sup, w)
  BY <1>2, <1>3, <1>5, <1>6, <1>8 DEF Follows, Alive
<1>. QED  BY <1>8, <1>9, <1>10, SupervisorGoesOn DEF ExitDelivered

LEMMA AdoptEndsKeepsInv ==
  ASSUME AddressInv, NEW w \in Windows, NEW n \in 1 .. Attempts, AdoptEnds(w, n)
  PROVE  AddressInv'
<1>1. window[w] \in Supervisors /\ window \in [Windows -> Supervisors]
  BY DEF AddressInv, Types
<1>2. n \in window[w].adopting /\ ~Rests(window[w]) /\ window[w].is # "closed"
  BY DEF AdoptEnds, AddressInv, Beginnings, Rests, Is
<1>3. PICK sup : sup = [window[w] EXCEPT !.adopting = @ \ {n}]
  OBVIOUS
<1>4. /\ sup \in Supervisors /\ sup.is = window[w].is /\ sup.ensuring = window[w].ensuring
      /\ sup.own = window[w].own /\ sup.adopting = window[w].adopting \ {n} /\ sup.timer = window[w].timer
  BY <1>1, <1>3 DEF Supervisors
<1>5. window' = [window EXCEPT ![w] = sup]
  BY <1>1, <1>3 DEF AdoptEnds, Supervisors
<1>6. Follows(window[w], sup, w)
  BY <1>2, <1>4 DEF Follows, AtMostOne
<1>. QED  BY <1>4, <1>5, <1>6, SupervisorGoesOn DEF AdoptEnds

LEMMA AdoptMissesKeepsInv ==
  ASSUME AddressInv, NEW w \in Windows, NEW n \in 1 .. Attempts, AdoptMisses(w, n)
  PROVE  AddressInv'
<1>1. window[w] \in Supervisors /\ window \in [Windows -> Supervisors]
  BY DEF AddressInv, Types
<1>2. n \in window[w].adopting /\ ~Rests(window[w]) /\ window[w].is # "closed"
  BY DEF AdoptMisses, AddressInv, Beginnings, Rests, Is
<1>3. PICK freed : freed = [window[w] EXCEPT !.adopting = @ \ {n}]
  OBVIOUS
<1>4. /\ freed \in Supervisors /\ freed.is = window[w].is /\ freed.ensuring = window[w].ensuring
      /\ freed.own = window[w].own /\ freed.adopting = window[w].adopting \ {n}
      /\ freed.timer = window[w].timer
  BY <1>1, <1>3 DEF Supervisors
<1>5. AtMostOne(window[w]) => Rests(freed)
  BY <1>2, <1>4, <1>1 DEF AtMostOne, Rests, Supervisors
<1>6. PICK sup : sup = AfterMiss(freed, n)
  OBVIOUS
<1>7. sup \in Supervisors /\ sup.is = freed.is /\ sup.own = freed.own /\ (Rests(freed) => AtMostOne(sup))
  <2>1. CASE n < Attempts
    <3>1. n + 1 \in Timers
      BY <2>1 DEF Timers, AddressAssumption
    <3>2. sup = [freed EXCEPT !.timer = n + 1]
      BY <1>6, <2>1 DEF AfterMiss
    <3>3. /\ sup \in Supervisors /\ sup.is = freed.is /\ sup.ensuring = freed.ensuring
          /\ sup.own = freed.own /\ sup.adopting = freed.adopting
      BY <1>4, <3>1, <3>2, Zenon DEF Supervisors
    <3>. QED  BY <3>3 DEF Rests, AtMostOne
  <2>2. CASE ~(n < Attempts)
    <3>1. sup = AfterFailure(freed)
      BY <1>6, <2>2 DEF AfterMiss
    <3>2. AfterFailure(freed).is = freed.is
      BY <1>4 DEF AfterFailure, Supervisors
    <3>. QED  BY <1>4, <3>1, <3>2, FailureTypes, FailureIsOne
  <2>. QED  BY <2>1, <2>2
<1>8. window' = [window EXCEPT ![w] = sup]
  BY <1>3, <1>6 DEF AdoptMisses
<1>9. Follows(window[w], sup, w)
  BY <1>2, <1>4, <1>5, <1>7 DEF Follows
<1>. QED  BY <1>7, <1>8, <1>9, SupervisorGoesOn DEF AdoptMisses

LEMMA TimerFiresKeepsInv ==
  ASSUME AddressInv, NEW w \in Windows, TimerFires(w)
  PROVE  AddressInv'
<1>1. window[w] \in Supervisors /\ window \in [Windows -> Supervisors]
  BY DEF AddressInv, Types
<1>2. ~Rests(window[w]) /\ window[w].is # "closed" /\ window[w].timer # NoTimer
  BY DEF TimerFires, AddressInv, Beginnings, Rests, Is
<1>. DEFINE freed == [window[w] EXCEPT !.timer = NoTimer]
<1>3. PICK sup : sup = IF window[w].timer = Retry
                       THEN [freed EXCEPT !.ensuring = TRUE]
                       ELSE [freed EXCEPT !.adopting = @ \cup {window[w].timer}]
  OBVIOUS
<1>4. /\ sup \in Supervisors /\ sup.is = window[w].is /\ sup.own = window[w].own /\ sup.timer = NoTimer
      /\ \/ sup.ensuring /\ sup.adopting = window[w].adopting
         \/ /\ sup.ensuring = window[w].ensuring
            /\ sup.adopting = window[w].adopting \cup {window[w].timer}
  <2>1. CASE window[w].timer = Retry
    BY <1>1, <1>3, <2>1, Numbers DEF Supervisors
  <2>2. CASE window[w].timer # Retry
    <3>1. window[w].timer \in 1 .. Attempts
      BY <1>1, <1>2, <2>2 DEF Supervisors, Timers
    <3>2. sup = [freed EXCEPT !.adopting = @ \cup {window[w].timer}]
      BY <1>3, <2>2
    <3>. QED  BY <1>1, <3>1, <3>2, Numbers DEF Supervisors
  <2>. QED  BY <2>1, <2>2
<1>5. window' = [window EXCEPT ![w] = sup]
  BY <1>3 DEF TimerFires
<1>6. AtMostOne(window[w]) => AtMostOne(sup)
  BY <1>2, <1>4, <1>1 DEF AtMostOne, Supervisors
<1>7. Follows(window[w], sup, w)
  BY <1>2, <1>4, <1>6 DEF Follows
<1>. QED  BY <1>4, <1>5, <1>7, SupervisorGoesOn DEF TimerFires

-----------------------------------------------------------------------------
\* The steps that touch a daemon, or a use of the command.

\* A daemon of the window's is forgotten only when it was asked to stop.
LEMMA EnsureSpawnsKeepsInv ==
  ASSUME AddressInv, NEW w \in Windows, NEW p \in Daemons, EnsureSpawns(w, p)
  PROVE  AddressInv'
<1>. USE DEF AddressInv
<1>1. window[w] \in Supervisors /\ window \in [Windows -> Supervisors] /\ p # 0
  BY Numbers DEF Types
<1>2. window[w].ensuring /\ window[w].is = "open"
  BY <1>1 DEF EnsureSpawns, MaySpawn, Is, Beginnings, Rests, Supervisors
<1>3. PICK sup : sup = [window[w] EXCEPT !.ensuring = FALSE, !.own = p]
  OBVIOUS
<1>4. /\ sup \in Supervisors /\ sup.is = "open" /\ ~sup.ensuring
      /\ sup.own = p /\ sup.adopting = window[w].adopting /\ sup.timer = window[w].timer
  BY <1>1, <1>2, <1>3 DEF Supervisors
<1>5. /\ window' \in [Windows -> Supervisors]
      /\ window'[w] = sup /\ \A v \in Windows : v # w => window'[v] = window[v]
  <2>1. window' = [window EXCEPT ![w] = sup]
    BY <1>1, <1>3 DEF EnsureSpawns, Supervisors
  <2>. QED  BY <1>1, <1>4, <2>1
<1>6. /\ proc' \in [Daemons -> Stages] /\ starter' \in [Daemons -> Windows \cup {"none"}]
      /\ starter'[p] = w /\ \A q \in Daemons : q # p => proc'[q] = proc[q] /\ starter'[q] = starter[q]
  BY DEF EnsureSpawns, Types, Stages
<1>7. UNCHANGED <<signalled, socket, lockfile, failures, restart>>
  BY DEF EnsureSpawns
<1>8. Types'
  BY <1>5, <1>6, <1>7 DEF Types
<1>9. \A v \in Windows : (Awaits(v)' <=> Awaits(v)) /\ (Overlapped(v)' <=> Overlapped(v))
  BY <1>7 DEF Awaits, Awaiting, Overlapped, Used
<1>10. Beginnings'
  BY <1>4, <1>5, <1>7, <1>9 DEF Beginnings, Is
<1>11. ASSUME ~Overlapped(w)
       PROVE  ~Awaits(w) /\ AtMostOne(sup) /\ window[w].own = 0
  <2>1. Single(w)
    BY <1>11 DEF OneConcern
  <2>. QED  BY <1>2, <1>4, <2>1 DEF Single, Rests, AtMostOne
<1>12. OneConcern'
  <2>1. SUFFICES ASSUME NEW v \in Windows, ~Overlapped(v)'
                 PROVE  Single(v)'
    BY DEF OneConcern
  <2>2. Single(v) /\ ~Overlapped(v)
    BY <1>9, <2>1 DEF OneConcern
  <2>3. AtMostOne(window'[v]) /\ (Awaits(v) => Rests(window'[v]))
    BY <1>5, <1>11, <2>2 DEF Single
  <2>. QED  BY <1>7, <1>9, <2>2, <2>3 DEF Single, Awaiting
<1>13. NoOrphan'
  <2>1. SUFFICES ASSUME NEW v \in Windows, ~Overlapped(v), NEW q \in Orphans(v)'
                 PROVE  FALSE
    BY <1>9 DEF NoOrphan, Overlapped
  <2>2. q \in Daemons /\ starter'[q] = v /\ Alive(q)' /\ q \notin signalled
        /\ ~(window'[v].is = "open" /\ window'[v].own = q)
    BY <1>7, <2>1 DEF Orphans, Spawned, Is
  <2>3. q # p
    BY <1>4, <1>5, <1>6, <2>2
  <2>4. starter[q] = v /\ Alive(q)
    BY <1>6, <2>2, <2>3 DEF Alive
  <2>5. window[v].is = "open" /\ window[v].own = q
    BY <2>1, <2>2, <2>4 DEF NoOrphan, Orphans, Spawned, Is, Overlapped
  <2>6. v # w
    BY <1>11, <2>1, <2>2, <2>5, Numbers
  <2>. QED  BY <1>5, <2>2, <2>5, <2>6
<1>. QED  BY <1>8, <1>10, <1>12, <1>13

LEMMA DisposesKeepsInv ==
  ASSUME AddressInv, NEW w \in Windows, Disposes(w)
  PROVE  AddressInv'
<1>. USE DEF AddressInv
<1>1. window[w] \in Supervisors /\ window \in [Windows -> Supervisors] /\ window[w].is = "open"
  BY DEF Types, Disposes, Is
<1>2. PICK sup : sup = [window[w] EXCEPT !.is = "disposed", !.timer = NoTimer, !.own = 0]
  OBVIOUS
<1>3. /\ sup \in Supervisors /\ sup.is = "disposed" /\ sup.ensuring = window[w].ensuring
      /\ sup.own = 0 /\ sup.adopting = window[w].adopting /\ sup.timer = NoTimer
  BY <1>1, <1>2, Numbers DEF Supervisors
<1>4. /\ window' \in [Windows -> Supervisors]
      /\ window'[w] = sup /\ \A v \in Windows : v # w => window'[v] = window[v]
  <2>1. window' = [window EXCEPT ![w] = sup]
    BY <1>1, <1>2 DEF Disposes, Supervisors
  <2>. QED  BY <1>1, <1>3, <2>1
<1>5. UNCHANGED <<daemonVars, restart>> /\ signalled' = signalled \cup ({window[w].own} \ {0})
  BY DEF Disposes, KillsOwn
<1>6. Types'
  <2>1. window[w].own \in {0} \cup Daemons
    BY <1>1 DEF Supervisors
  <2>. QED  BY <1>4, <1>5, <2>1 DEF Types, daemonVars
<1>7. \A v \in Windows : (Awaits(v)' <=> Awaits(v)) /\ (Overlapped(v)' <=> Overlapped(v))
  BY <1>5 DEF Awaits, Awaiting, Overlapped, Used
<1>8. Beginnings'
  BY <1>3, <1>4, <1>5, <1>7 DEF Beginnings, Is
<1>9. OneConcern'
  <2>1. SUFFICES ASSUME NEW v \in Windows, ~Overlapped(v)'
                 PROVE  Single(v)'
    BY DEF OneConcern
  <2>2. Single(v)
    BY <1>7, <2>1 DEF OneConcern
  <2>3. v = w => AtMostOne(sup) /\ (Awaits(w) => Rests(sup))
    BY <1>3, <2>2 DEF Single, AtMostOne, Rests
  <2>4. AtMostOne(window'[v]) /\ (Awaits(v) => Rests(window'[v]))
    BY <1>4, <2>2, <2>3 DEF Single
  <2>. QED  BY <1>5, <1>7, <2>2, <2>4 DEF Single, Awaiting
<1>10. NoOrphan'
  <2>1. \A v \in Windows : Orphans(v)' \subseteq Orphans(v)
    BY <1>1, <1>4, <1>5, Numbers DEF Orphans, Spawned, Alive, Is, daemonVars
  <2>. QED  BY <1>7, <2>1 DEF NoOrphan, Overlapped
<1>. QED  BY <1>6, <1>8, <1>9, <1>10

\* A use of the command that nothing else of the window's is beside is all it then does.
LEMMA RestartPressedKeepsInv ==
  ASSUME AddressInv, NEW w \in Windows, NEW r \in Presses, RestartPressed(w, r)
  PROVE  AddressInv'
<1>. USE DEF AddressInv
<1>1. window[w] \in Supervisors /\ window \in [Windows -> Supervisors] /\ window[w].is = "open"
  BY DEF Types, RestartPressed, Is
<1>2. window[w].own \in {0} \cup Daemons
  BY <1>1 DEF Supervisors
<1>3. PICK sup : sup = [window[w] EXCEPT !.own = 0, !.spent = 0, !.told = FALSE, !.timer = NoTimer]
  OBVIOUS
<1>4. /\ sup \in Supervisors /\ sup.is = "open" /\ sup.ensuring = window[w].ensuring
      /\ sup.own = 0 /\ sup.adopting = window[w].adopting /\ sup.timer = NoTimer
  <2>1. 0 \in {0} \cup Daemons /\ 0 \in Nat /\ NoTimer \in Timers
    BY Numbers
  <2>. QED  BY <1>1, <1>3, <2>1, Zenon DEF Supervisors
<1>5. /\ window' \in [Windows -> Supervisors]
      /\ window'[w] = sup /\ \A v \in Windows : v # w => window'[v] = window[v]
  <2>1. window' = [window EXCEPT ![w] = sup]
    BY <1>1, <1>3 DEF RestartPressed, Supervisors
  <2>. QED  BY <1>1, <1>4, <2>1
<1>6. /\ restart' \in [Presses -> Restarts]
      /\ restart'[r].by = w /\ restart'[r].beside = Pending(w)
      /\ restart'[r].is \in {"probing", "waiting"}
      /\ \A q \in Presses : q # r => restart'[q] = restart[q]
  <2>1. PICK new : /\ new = [by |-> w, is |-> IF window[w].own = 0 THEN "probing" ELSE "waiting",
                             dying |-> window[w].own, beside |-> Pending(w)]
                   /\ restart' = [restart EXCEPT ![r] = new]
    BY DEF RestartPressed
  <2>2. Pending(w) \in BOOLEAN
    BY <1>1 DEF Pending, Supervisors
  <2>3. new \in Restarts /\ new.by = w /\ new.beside = Pending(w) /\ new.is \in {"probing", "waiting"}
    BY <1>2, <2>1, <2>2 DEF Restarts
  <2>. QED  BY <2>1, <2>3 DEF Types
<1>7. UNCHANGED daemonVars /\ signalled' = signalled \cup ({window[w].own} \ {0})
  BY DEF RestartPressed, KillsOwn
<1>8. Types'
  BY <1>2, <1>5, <1>6, <1>7 DEF Types, daemonVars
<1>9. Used' = Used \cup {r} /\ r \notin Used
  BY <1>6 DEF Used, RestartPressed
<1>10. /\ \A v \in Windows : Overlapped(v) => Overlapped(v)'
       /\ Pending(w) => Overlapped(w)'
  <2>1. ASSUME NEW v \in Windows, NEW q \in Used, restart[q].by = v, restart[q].beside
        PROVE  q \in Used' /\ restart'[q].by = v /\ restart'[q].beside
    <3>1. q # r /\ q \in Presses
      BY <1>9 DEF Used
    <3>2. restart'[q] = restart[q]
      BY <1>6, <3>1
    <3>. QED  BY <1>9, <2>1, <3>2
  <2>2. \A v \in Windows : Overlapped(v) => Overlapped(v)'
    BY <2>1, Zenon DEF Overlapped
  <2>3. r \in Used' /\ restart'[r].by = w /\ (Pending(w) => restart'[r].beside)
    BY <1>6, <1>9
  <2>4. Pending(w) => Overlapped(w)'
    BY <2>3, Zenon DEF Overlapped
  <2>. QED  BY <2>2, <2>4
<1>11. Beginnings'
  <2>1. ASSUME NEW v \in Windows, NEW q \in Presses, v # w, restart'[q].by = v
        PROVE  restart[q].by = v /\ restart'[q].is = restart[q].is
    BY <1>6, <2>1
  <2>. QED  BY <1>4, <1>5, <2>1 DEF Beginnings, Is
<1>12. OneConcern'
  <2>1. SUFFICES ASSUME NEW v \in Windows, ~Overlapped(v)'
                 PROVE  Single(v)'
    BY DEF OneConcern
  <2>2. CASE v = w
    <3>1. ~Pending(w)
      BY <1>10, <2>1, <2>2
    <3>2. Rests(sup) /\ AtMostOne(sup)
      BY <1>4, <3>1 DEF Pending, Rests, AtMostOne
    <3>3. \A q \in Presses : Awaiting(q, w)' => q = r
      BY <1>6, <3>1 DEF Pending, Awaiting
    <3>. QED  BY <1>5, <2>2, <3>2, <3>3 DEF Single, Awaits, Awaiting
  <2>3. CASE v # w
    <3>1. Single(v)
      BY <1>10, <2>1 DEF OneConcern
    <3>2. \A q \in Presses : Awaiting(q, v)' => Awaiting(q, v)
      BY <1>6, <2>3 DEF Awaiting
    <3>3. Awaits(v)' => Awaits(v)
      BY <3>2 DEF Awaits, Awaiting
    <3>. QED  BY <1>5, <2>3, <3>1, <3>2, <3>3 DEF Single, Awaiting
  <2>. QED  BY <2>2, <2>3
<1>13. NoOrphan'
  <2>1. \A v \in Windows : Orphans(v)' \subseteq Orphans(v)
    BY <1>1, <1>5, <1>7, Numbers DEF Orphans, Spawned, Alive, Is, daemonVars
  <2>. QED  BY <1>10, <2>1 DEF NoOrphan, Overlapped
<1>. QED  BY <1>8, <1>11, <1>12, <1>13

\* A use of the command goes on with ensure()'s probe, in a window that did nothing else.
LEMMA RestartEndsKeepsInv ==
  ASSUME AddressInv, NEW w \in Windows, NEW r \in Presses,
         RestartWaited(w, r) \/ RestartProbed(w, r)
  PROVE  AddressInv'
<1>. USE DEF AddressInv
<1>1. window[w] \in Supervisors /\ window \in [Windows -> Supervisors]
  BY DEF Types
<1>2. UNCHANGED <<daemonVars, signalled>> /\ restart[r].by = w
  BY DEF RestartWaited, RestartProbed
<1>3. /\ restart' \in [Presses -> Restarts] /\ restart'[r].is = "over"
      /\ restart'[r].by = w /\ restart'[r].beside = restart[r].beside
      /\ \A q \in Presses : q # r => restart'[q] = restart[q]
  BY DEF RestartWaited, RestartProbed, Types, Restarts
<1>4. PICK sup : /\ window' = [window EXCEPT ![w] = sup]
                 /\ sup \in {[window[w] EXCEPT !.told = TRUE], [window[w] EXCEPT !.ensuring = TRUE]}
  <2>1. CASE RestartWaited(w, r)
    BY <1>1, <2>1 DEF RestartWaited, Supervisors
  <2>2. CASE RestartProbed(w, r)
    BY <2>2 DEF RestartProbed
  <2>. QED  BY <2>1, <2>2
<1>5. /\ sup \in Supervisors /\ sup.is = window[w].is /\ sup.ensuring \in {TRUE, window[w].ensuring}
      /\ sup.own = window[w].own /\ sup.adopting = window[w].adopting /\ sup.timer = window[w].timer
  BY <1>1, <1>4 DEF Supervisors
<1>6. /\ window' \in [Windows -> Supervisors]
      /\ window'[w] = sup /\ \A v \in Windows : v # w => window'[v] = window[v]
  BY <1>1, <1>4, <1>5
<1>7. Types'
  BY <1>2, <1>3, <1>6 DEF Types, daemonVars
<1>8. restart[r].is \in {"waiting", "probing"}
  BY DEF RestartWaited, RestartProbed
<1>9. \A v \in Windows : Overlapped(v)' <=> Overlapped(v)
  <2>1. Used' = Used
    BY <1>3, <1>8 DEF Used
  <2>2. \A q \in Used : restart'[q].by = restart[q].by /\ restart'[q].beside = restart[q].beside
    <3>1. \A q \in Used : q \in Presses
      BY DEF Used
    <3>2. restart'[r].by = restart[r].by
      BY <1>2, <1>3
    <3>. QED  BY <1>3, <3>1, <3>2
  <2>. QED  BY <2>1, <2>2, Zenon DEF Overlapped
<1>10. \A v \in Windows, q \in Presses : Awaiting(q, v)' => Awaiting(q, v) /\ q # r
  BY <1>3 DEF Awaiting
<1>11. Beginnings'
  <2>1. SUFFICES ASSUME NEW v \in Windows, window'[v].is = "closed"
                 PROVE  Rests(window'[v]) /\ \A q \in Presses : restart'[q].by = v => restart'[q].is = "unused"
    BY DEF Beginnings, Is
  <2>2. v # w
    BY <1>2, <1>5, <1>6, <1>8, <2>1 DEF Beginnings, Is
  <2>. QED  BY <1>3, <1>6, <2>1, <2>2 DEF Beginnings, Is
<1>12. OneConcern'
  <2>1. SUFFICES ASSUME NEW v \in Windows, ~Overlapped(v)'
                 PROVE  Single(v)'
    BY DEF OneConcern
  <2>2. Single(v)
    BY <1>9, <2>1 DEF OneConcern
  <2>3. Awaiting(r, w)
    BY <1>2, <1>8 DEF Awaiting
  <2>4. v = w => Rests(window[w]) /\ ~Awaits(w)'
    BY <1>10, <2>2, <2>3 DEF Single, Awaits, Awaiting
  <2>5. v = w => AtMostOne(sup)
    BY <1>5, <2>4 DEF AtMostOne, Rests
  <2>6. Awaits(v)' => Awaits(v)
    BY <1>10 DEF Awaits, Awaiting
  <2>7. AtMostOne(window'[v]) /\ (Awaits(v)' => Rests(window'[v]))
    BY <1>6, <2>2, <2>4, <2>5, <2>6 DEF Single
  <2>. QED  BY <1>10, <2>2, <2>7 DEF Single, Awaiting
<1>13. NoOrphan'
  <2>1. \A v \in Windows : Orphans(v)' \subseteq Orphans(v)
    BY <1>2, <1>5, <1>6 DEF Orphans, Spawned, Alive, Is, daemonVars
  <2>. QED  BY <1>9, <2>1 DEF NoOrphan, Overlapped
<1>. QED  BY <1>7, <1>11, <1>12, <1>13

\* A daemon that is not alive does not come to life by itself.
LEMMA DaemonsKeepInv ==
  ASSUME AddressInv, NEW p \in Daemons, DaemonStep(p)
  PROVE  AddressInv'
<1>1. Types' /\ UNCHANGED <<starter, signalled, window, restart>>
  BY DaemonsKeepTypes DEF AddressInv, supervisorVars
<1>2. Beginnings' /\ OneConcern' /\ \A w \in Windows : Overlapped(w)' <=> Overlapped(w)
  BY <1>1 DEF AddressInv, Beginnings, Overlapped, Used, OneConcern, Single, Awaits, Awaiting, Is
<1>3. Alive(p)
  BY DEF DaemonStep, Starts, Stops, Dies, ReclaimFindsNone, ReclaimAnswered,
     ReclaimUnanswered, ReclaimRemoves, ReclaimTooLate, Binds, BindLoses, Publishes, Terminated,
     StopsListening, RemovesSocket, RemovesLock, Alive, Exits
<1>4. \A q \in Daemons : q # p => proc'[q] = proc[q]
  BY DEF DaemonStep, Starts, Stops, Dies, ReclaimFindsNone, ReclaimAnswered,
     ReclaimUnanswered, ReclaimRemoves, ReclaimTooLate, Binds, BindLoses, Publishes, Terminated,
     StopsListening, RemovesSocket, RemovesLock, Exit, Goes, AddressInv, Types
<1>5. NoOrphan'
  <2>1. \A q \in Daemons : Alive(q)' => Alive(q)
    BY <1>3, <1>4 DEF Alive
  <2>2. \A w \in Windows : Orphans(w)' \subseteq Orphans(w)
    BY <1>1, <2>1 DEF Orphans, Spawned, Is
  <2>. QED  BY <1>2, <2>2 DEF AddressInv, NoOrphan, Overlapped
<1>. QED  BY <1>1, <1>2, <1>5 DEF AddressInv

-----------------------------------------------------------------------------
\* The theorems.

LEMMA AddressInitInv == ASSUME AddressInit PROVE AddressInv
<1>1. /\ proc \in [Daemons -> Stages] /\ \A p \in Daemons : ~Alive(p)
  BY DEF AddressInit, Stages, Alive
<1>2. \A w \in Windows : window[w] \in Supervisors /\ Rests(window[w]) /\ AtMostOne(window[w])
  BY Numbers DEF AddressInit, Supervisors, Rests, AtMostOne
<1>3. \A r \in Presses : restart[r] \in Restarts /\ restart[r].is = "unused"
  BY DEF AddressInit, Restarts
<1>4. Types
  <2>1. window \in [Windows -> Supervisors] /\ restart \in [Presses -> Restarts]
    BY <1>2, <1>3 DEF AddressInit
  <2>2. failures \in 0 .. MaxTrouble
    BY DEF AddressInit, AddressAssumption
  <2>3. starter \in [Daemons -> Windows \cup {"none"}] /\ signalled = {} /\ socket = 0 /\ lockfile = 0
    BY DEF AddressInit
  <2>. QED  BY <1>1, <2>1, <2>2, <2>3 DEF Types
<1>5. \A w \in Windows : ~Awaits(w)
  BY <1>3 DEF Awaits, Awaiting
<1>6. Beginnings /\ OneConcern
  BY <1>2, <1>3, <1>5 DEF Beginnings, OneConcern, Single, Awaits, Awaiting
<1>7. NoOrphan
  BY <1>1 DEF NoOrphan, Orphans, Spawned
<1>. QED  BY <1>4, <1>6, <1>7 DEF AddressInv

LEMMA AddressNextKeepsInv == ASSUME AddressInv, [AddressNext]_addressVars PROVE AddressInv'
<1>1. CASE UNCHANGED addressVars
  BY <1>1 DEF addressVars, AddressInv, Types, Beginnings, OneConcern, Single, Awaits, Awaiting, Is,
              Overlapped, Used, NoOrphan, Orphans, Spawned, Alive
<1>2. ASSUME NEW p \in Daemons, Starts(p) \/ Stops(p) \/ Dies(p)
      PROVE  AddressInv'
  BY <1>2, DaemonsKeepInv DEF DaemonStep
<1>3. ASSUME NEW w \in Windows, Supervises(w)
      PROVE  AddressInv'
  BY <1>3, EnsureEndsKeepsInv, EnsureSpawnsKeepsInv, ExitDeliveredKeepsInv, AdoptEndsKeepsInv,
     AdoptMissesKeepsInv, TimerFiresKeepsInv, RestartEndsKeepsInv DEF Supervises
<1>4. ASSUME NEW w \in Windows, Opens(w) \/ Disposes(w) \/ \E r \in Presses : RestartPressed(w, r)
      PROVE  AddressInv'
  BY <1>4, OpensKeepsInv, DisposesKeepsInv, RestartPressedKeepsInv
<1>. QED  BY <1>1, <1>2, <1>3, <1>4 DEF AddressNext

\* Every variable keeps its type: of the daemons, of the address's files, and of what each
\* window's supervisor and each use of the restart command keep.
THEOREM AddressIsTyped == AddressSpec => []AddressTypeOK
<1>1. AddressInv => AddressTypeOK
  BY DEF AddressInv, Types, AddressTypeOK, Supervisors, Timers
<1>. QED  BY <1>1, AddressInitInv, AddressNextKeepsInv, PTL DEF AddressSpec

\* Closing a window leaves no daemon behind: those it started, however probes, timers, exits
\* and failures fell and however often its restart command was used, are its own or were asked
\* to stop (daemonSupervisor.ts), unless the command was used beside a call of that window's
\* which still awaited something.
THEOREM NoDaemonIsOrphaned == AddressSpec => []NoOrphan
<1>1. AddressInv => NoOrphan
  BY DEF AddressInv
<1>. QED  BY <1>1, AddressInitInv, AddressNextKeepsInv, PTL DEF AddressSpec

HIDE AddressAssumption

-----------------------------------------------------------------------------
\* The helper.
\*
\* What makes the supervisor's safety properties true, for every restart limit,
\* is where a running helper can be: it is the one Start spawned and still waits
\* for, or the one whose exit the monitor is about to see.  While the monitor sleeps before a restart, or is over,
\* no helper runs; so a Stop that waits for the monitor leaves none.

\* Whoever runs is supervised.
RunningIsSupervised ==
  \A h \in Helpers : Running(h) =>
    \/ start = "spawned" /\ h = 1
    \/ start = "done" /\ h = cmd /\ h = watched /\ monitor \in {"watching", "polling"}

\* How far Start is fixes what else there can be.
StartStages ==
  /\ start = "new" => ~bound /\ \A h \in Helpers : helper[h] = "none"
  /\ start = "spawned" => cmd = 1 /\ watched = 1 /\ stopCall = "not called"
  /\ start = "failed" => ~bound
  /\ start = "done" => cmd # 0 /\ monitor # "none"
  /\ start # "done" => monitor = "none" /\ restarts = 0 /\ stopCall \in {"not called", "returned"}

\* The monitor gives up at the limit, and Stop returns only after the monitor.
StopStages ==
  /\ stopping <=> stopCall # "not called"
  /\ restarts = HelperMaxRestarts + 1 => monitor = "over"
  /\ stopCall = "returned" => ~bound /\ monitor \in {"none", "over"}
  /\ stopCall \in {"grace", "waiting"} => target # 0

HelperInv == HelperTypeOK /\ RunningIsSupervised /\ StartStages /\ StopStages

USE RestartsAssumption DEF RestartsAssumption

LEMMA HelpersAreNumbered == /\ 1 \in Helpers /\ 0 \notin Helpers
                            /\ Helpers \subseteq Nat
  BY DEF Helpers

\* The invariant holds in every initial state.
LEMMA HelperInitInv == HelperInit => HelperInv
<1>. SUFFICES ASSUME HelperInit
              PROVE  HelperInv
  OBVIOUS
<1>1. \A h \in Helpers : helper[h] = "none"
  BY DEF HelperInit
<1>2. HelperTypeOK
  <2>1. 0 \in 0 .. HelperMaxRestarts + 1
    OBVIOUS
  <2>. QED  BY <2>1, Zenon DEF HelperInit, HelperTypeOK
<1>3. RunningIsSupervised
  BY <1>1 DEF RunningIsSupervised, Running
<1>4. StartStages
  BY <1>1, Zenon DEF HelperInit, StartStages
<1>5. StopStages
  <2>0. restarts = 0
    BY Zenon DEF HelperInit
  <2>1. restarts # HelperMaxRestarts + 1
    BY <2>0
  <2>2. ~stopping /\ stopCall = "not called"
    BY Zenon DEF HelperInit
  <2>. QED  BY <2>1, <2>2 DEF StopStages
<1>. QED  BY <1>2, <1>3, <1>4, <1>5 DEF HelperInv

\* The helper process may do what it likes: it stays supervised.
LEMMA HelperStep ==
  ASSUME HelperInv, NEW h \in Helpers, Bind(h) \/ HelperExits(h) \/ Reap(h)
  PROVE  HelperInv'
<1>1. CASE Bind(h)
  BY <1>1 DEF HelperInv, HelperTypeOK, RunningIsSupervised, Running, StartStages, StopStages, Bind,
              monitorVars, stopVars
<1>2. CASE HelperExits(h)
  BY <1>2 DEF HelperInv, HelperTypeOK, RunningIsSupervised, Running, StartStages, StopStages, HelperExits,
              monitorVars, stopVars
<1>3. CASE Reap(h)
  BY <1>3 DEF HelperInv, HelperTypeOK, RunningIsSupervised, Running, StartStages, StopStages, Reap,
              monitorVars, stopVars
<1>. QED  BY <1>1, <1>2, <1>3

\* Start leaves a supervised helper, or none.
LEMMA StartStep ==
  ASSUME HelperInv, Starting
  PROVE  HelperInv'
<1>. USE HelpersAreNumbered DEF HelperInv, HelperTypeOK, RunningIsSupervised, Running, StartStages,
     StopStages
<1>1. CASE StartSpawns
  BY <1>1 DEF StartSpawns, Spawn, stopVars
<1>2. CASE StartCannotSpawn
  BY <1>2 DEF StartCannotSpawn, processVars, monitorVars, stopVars
<1>3. CASE StartReady
  BY <1>3 DEF StartReady, processVars, stopVars
<1>4. CASE StartKills
  BY <1>4 DEF StartKills, monitorVars, stopVars
<1>5. CASE StartFails
  BY <1>5 DEF StartFails, stopVars
<1>. QED  BY <1>1, <1>2, <1>3, <1>4, <1>5 DEF Starting

\* Nobody runs any more once the exit the monitor waits for was delivered.
LEMMA SeenExitLeavesNone ==
  ASSUME HelperInv, start = "done", ExitSeen \/ monitor \in {"delaying", "over"}
  PROVE  \A h \in Helpers : ~Running(h)
  BY HelpersAreNumbered DEF HelperInv, RunningIsSupervised, Running, ExitSeen

\* The monitor restarts a helper only when none runs.
LEMMA MonitorStep ==
  ASSUME HelperInv, Monitor
  PROVE  HelperInv'
<1>. USE HelpersAreNumbered
<1>0. start = "done"
  BY DEF HelperInv, StartStages, Monitor, ExitObserved, DelayOver, Respawn, RespawnFails, PollReady,
         PollGivesUp
<1>1. CASE ExitObserved
  <2>1. \A h \in Helpers : ~Running(h)
    BY <1>0, <1>1, SeenExitLeavesNone DEF ExitObserved
  <2>. QED
    <3>1. /\ restarts' \in 0 .. HelperMaxRestarts + 1 /\ monitor' \in {"delaying", "over"}
          /\ restarts' = HelperMaxRestarts + 1 => monitor' = "over"
      <4>1. restarts \in 0 .. HelperMaxRestarts
        <5>1. /\ restarts \in 0 .. HelperMaxRestarts + 1 /\ restarts # HelperMaxRestarts + 1
          BY <1>1, Zenon DEF ExitObserved, HelperInv, HelperTypeOK, StopStages
        <5>. QED  BY <5>1
      <4>2. CASE monitor' = "over" /\ restarts' = restarts
        BY <4>1, <4>2
      <4>3. CASE NextRestart
        BY <4>1, <4>3 DEF NextRestart
      <4>. QED  BY <1>1, <4>2, <4>3, Zenon DEF ExitObserved
    <3>2. UNCHANGED <<helper, killed, bound, start, cmd, watched, stopping, stopCall, target>>
      BY <1>1 DEF ExitObserved, processVars, stopVars
    <3>3. stopCall = "returned" => monitor' = "over"
      BY <1>1, <1>0 DEF ExitObserved, HelperInv, StopStages
    <3>. QED
      BY <1>0, <2>1, <3>1, <3>2, <3>3 DEF HelperInv, HelperTypeOK, RunningIsSupervised, Running, StartStages,
         StopStages
<1>2. CASE DelayOver
  BY <1>0, <1>2 DEF DelayOver, StopSeenAfterDelay, processVars, stopVars, HelperInv, HelperTypeOK,
     RunningIsSupervised, Running, StartStages,
     StopStages
<1>3. ASSUME NEW h \in Helpers, Respawn(h)
      PROVE  HelperInv'
  <2>1. \A g \in Helpers : ~Running(g)
    BY <1>0, <1>3, SeenExitLeavesNone DEF Respawn
  <2>. QED
    BY <1>0, <1>3, <2>1 DEF Respawn, StopSeenAfterDelay, Spawn, stopVars, HelperInv, HelperTypeOK,
       RunningIsSupervised, Running, StartStages,
     StopStages
<1>4. CASE RespawnFails
  <2>1. \A g \in Helpers : ~Running(g)
    BY <1>0, <1>4, SeenExitLeavesNone DEF RespawnFails
  <2>. QED
    BY <1>0, <1>4, <2>1 DEF RespawnFails, StopSeenAfterDelay, processVars, stopVars, HelperInv, HelperTypeOK,
       RunningIsSupervised, Running, StartStages,
     StopStages
<1>5. CASE PollReady
  BY <1>0, <1>5 DEF PollReady, processVars, stopVars, HelperInv, HelperTypeOK, RunningIsSupervised, Running,
     StartStages, StopStages
<1>6. CASE PollGivesUp
  BY <1>0, <1>6 DEF PollGivesUp, stopVars, HelperInv, HelperTypeOK, RunningIsSupervised, Running,
     StartStages, StopStages
<1>. QED  BY <1>1, <1>2, <1>3, <1>4, <1>5, <1>6 DEF Monitor

\* Stop returns only when there is nothing to stop, or the monitor is over.
LEMMA StopStep ==
  ASSUME HelperInv, StopNothing \/ StopBegins \/ Stopping
  PROVE  HelperInv'
<1>. USE HelpersAreNumbered DEF HelperInv, HelperTypeOK, RunningIsSupervised, Running, StartStages,
     StopStages
<1>1. CASE StopNothing
  BY <1>1 DEF StopNothing, processVars, monitorVars
<1>2. CASE StopBegins
  BY <1>2 DEF StopBegins, processVars, monitorVars
<1>3. CASE StopKills
  BY <1>3 DEF StopKills, monitorVars
<1>4. CASE StopReturns
  <2>1. start = "done"
    BY <1>4 DEF StopReturns
  <2>2. RunningIsSupervised'
    BY <1>4 DEF StopReturns, monitorVars
  <2>3. HelperTypeOK' /\ StartStages' /\ StopStages'
    BY <1>4, <2>1 DEF StopReturns, monitorVars
  <2>. QED  BY <2>2, <2>3
<1>. QED  BY <1>1, <1>2, <1>3, <1>4 DEF Stopping

\* The invariant holds in every reachable state.
THEOREM Supervised == HelperSpec => []HelperInv
<1>1. HelperInv /\ [HelperNext]_helperVars => HelperInv'
  <2>. SUFFICES ASSUME HelperInv, [HelperNext]_helperVars
                PROVE  HelperInv'
    OBVIOUS
  <2>1. CASE \E h \in Helpers : Bind(h) \/ HelperExits(h) \/ Reap(h)
    BY <2>1, HelperStep
  <2>2. CASE Starting
    BY <2>2, StartStep
  <2>3. CASE Monitor
    BY <2>3, MonitorStep
  <2>4. CASE StopNothing \/ StopBegins \/ Stopping
    BY <2>4, StopStep
  <2>5. CASE UNCHANGED helperVars
    BY <2>5 DEF helperVars, processVars, monitorVars, stopVars, HelperInv, HelperTypeOK, RunningIsSupervised,
                Running, StartStages, StopStages
  <2>. QED  BY <2>1, <2>2, <2>3, <2>4, <2>5 DEF HelperNext
<1>. QED  BY HelperInitInv, <1>1, PTL DEF HelperSpec

\* Every variable of the supervisor keeps its type: in particular, restarts are
\* bounded by HelperMaxRestarts + 1 over the supervisor's whole life.
THEOREM TypeCorrect == HelperSpec => []HelperTypeOK
<1>1. HelperInv => HelperTypeOK
  BY DEF HelperInv
<1>. QED  BY Supervised, <1>1, PTL

\* Once Stop has returned no helper runs and the endpoint is gone, wherever a
\* crash, the restart delay or a respawn was when Stop was called.
THEOREM StopLeavesNothing == HelperSpec => []StoppedMeansGone
<1>1. HelperInv => StoppedMeansGone
  <2>. SUFFICES ASSUME HelperInv, stopCall = "returned"
                PROVE  ~bound /\ \A h \in Helpers : ~Running(h)
    BY DEF StoppedMeansGone
  <2>. QED  BY DEF HelperInv, RunningIsSupervised, StartStages, StopStages
<1>. QED  BY Supervised, <1>1, PTL

\* There are never two helpers on the one endpoint.
THEOREM NeverTwoHelpers == HelperSpec => []OneHelper
<1>1. HelperInv => OneHelper
  BY DEF HelperInv, RunningIsSupervised, OneHelper
<1>. QED  BY Supervised, <1>1, PTL

\* After Stop was called no step spawns a helper.
THEOREM StopEndsRestarts == HelperSpec => NoRestartAfterStop
<1>1. ASSUME HelperInv, [HelperNext]_helperVars, stopping, NEW h \in Helpers, helper'[h] # "none"
      PROVE  helper[h] # "none"
  <2>0. /\ stopCall # "not called"
        /\ helper \in [Helpers -> {"none", "alive", "exited", "reaped"}]
    BY <1>1 DEF HelperInv, StopStages, HelperTypeOK
  <2>1. CASE \E g \in Helpers : Bind(g) \/ HelperExits(g) \/ Reap(g)
    BY <1>1, <2>0, <2>1 DEF Bind, HelperExits, Reap
  <2>2. CASE Starting
    BY <1>1, <2>0, <2>2 DEF Starting, StartSpawns, StartCannotSpawn, StartReady, StartKills,
       StartFails, processVars
  <2>3. CASE Monitor
    BY <1>1, <2>3 DEF Monitor, ExitObserved, DelayOver, Respawn, RespawnFails, PollReady,
       PollGivesUp, StopSeenAfterDelay, processVars
  <2>4. CASE StopNothing \/ StopBegins \/ Stopping \/ UNCHANGED helperVars
    BY <1>1, <2>4 DEF StopNothing, StopBegins, Stopping, StopKills, StopReturns, helperVars, processVars
  <2>. QED  BY <1>1, <2>1, <2>2, <2>3, <2>4 DEF HelperNext
<1>2. HelperInv /\ [HelperNext]_helperVars =>
        [stopping => \A h \in Helpers : helper'[h] # "none" => helper[h] # "none"]_helperVars
  BY <1>1
<1>. QED  BY Supervised, <1>2, PTL DEF HelperSpec, NoRestartAfterStop

HIDE RestartsAssumption DEF RestartsAssumption

-----------------------------------------------------------------------------
\* The turn.
\*
\* For any number of phases and any ceilings: the types, the number of calls a
\* turn bills and the bytes that the phases before the answer leave it.
\*
\* BilledWithinCeiling is not inductive.  TurnInv adds how the requests billed,
\* the calls and the iterations of the phase hang together (Counted), what
\* the ceilings left of them when the last call was made (CallsBounded),
\* and that only the phase a turn ends with sums up (WrapsOnce).

\* While the model is asked its call is counted, and no third reply came back empty.
Asking ==
  /\ at = "asking" => calls > 0 /\ billed > 0 /\ empties <= 2
  /\ at = "step" => empties <= 2
  /\ at = "tools" => empties <= 2

\* The requests billed are the calls, and the summing up, if there was one.
Counted ==
  /\ at \in {"step", "asking", "tools"} => billed = prior + calls
  /\ at = "wrapping" => billed = prior + calls + 1
  /\ billed \in {prior + calls, prior + calls + 1}
  /\ calls <= iteration
  /\ at = "step" => calls < iteration

\* A phase that answers and has called twice still has a call left.
CallsBounded ==
  /\ prior + calls <= MaxTurn /\ calls <= MaxIter
  /\ Answers(phase) /\ calls > 1 => prior + calls < MaxTurn /\ calls < MaxIter

\* The summing up follows a call, in a phase that answers, and ends the turn.
WrapsOnce ==
  /\ at = "wrapping" \/ billed > prior + calls => calls > 0 /\ Answers(phase)
  /\ at = "returned" /\ billed > prior + calls => stop = "budget"

TurnInv == TypeOK /\ Asking /\ Counted /\ CallsBounded /\ WrapsOnce

USE TurnAssumption DEF TurnAssumption

-----------------------------------------------------------------------------
\* What a phase's share of the bytes and of the time is.
LEMMA ShareIsPositive == Share \in Nat /\ Share >= 1
<1>1. (MaxBytes * (Answer - 1)) \div Phases \in Int
  OBVIOUS
<1>. QED  BY <1>1 DEF Share

\* A phase's cap is never above the turn's.
LEMMA CapIsBelowAll == \A p \in 1 .. Phases : ByteCap(p) \in Nat /\ ByteCap(p) <= MaxBytes
  BY ShareIsPositive DEF ByteCap

\* A phase's deadline is a time.
LEMMA DeadlineIsNatural == \A p \in 1 .. Phases : DeadlineOf(p) \in Nat
<1>1. (Timeout * (Answer - 1)) \div Phases \in Nat
  <2>1. Timeout * (Answer - 1) \in Nat
    OBVIOUS
  <2>. QED  BY <2>1
<1>. QED  BY <1>1 DEF DeadlineOf

-----------------------------------------------------------------------------
\* Types.

LEMMA InitTypes == Init => TypeOK /\ Asking
<1>. SUFFICES ASSUME Init
              PROVE  TypeOK /\ Asking
  OBVIOUS
<1>1. 1 \in 1 .. Phases /\ 0 \in 0 .. MaxWaits /\ 0 \in 0 .. MaxRepeats /\ 0 \in 0 .. MaxBatch
  OBVIOUS
<1>2. DeadlineOf(1) \in Nat
  BY <1>1, DeadlineIsNatural
<1>3. MaxBytes \in Nat
  OBVIOUS
<1>4. cancelled \in BOOLEAN
  BY Zenon DEF Init
<1>. QED  BY <1>1, <1>2, <1>3, <1>4 DEF Init, TypeOK, Asking

\* A call takes its time, and may use up what may be spent.
LEMMA TakesTime == ASSUME now \in Nat, Takes PROVE now' \in Nat
  BY DEF Takes

LEMMA SpendsFlags ==
  ASSUME NEW add \in SUBSET Flags, flags \subseteq Flags, Spends(add)
  PROVE  flags' \subseteq Flags
  BY DEF Spends, Flags

\* The loop's own steps keep the types.
LEMMA LoopKeepsTypes ==
  ASSUME TypeOK, Asking, Asks \/ StopsWithAnswer \/ StopsWithout \/ WrapUpEnds
  PROVE  TypeOK' /\ Asking'
<1>1. CASE Asks
  BY <1>1, CapIsBelowAll, DeadlineIsNatural DEF TypeOK, Asking, Flags, Asks, CountsCall,
       ledgerVars, countVars
<1>2. CASE StopsWithAnswer
  BY <1>2, CapIsBelowAll, DeadlineIsNatural DEF TypeOK, Asking, Flags, StopsWithAnswer,
       loopVars, WrapsUp
<1>3. CASE StopsWithout
  BY <1>3, CapIsBelowAll, DeadlineIsNatural DEF TypeOK, Asking, Flags, StopsWithout, loopVars,
       Returns
<1>4. CASE WrapUpEnds
  <2>1. now' \in Nat
    BY <1>4, TakesTime DEF TypeOK, WrapUpEnds
  <2>2. flags' \subseteq Flags
    BY <1>4, SpendsFlags DEF TypeOK, WrapUpEnds, Flags
  <2>. QED  BY <1>4, <2>1, <2>2 DEF TypeOK, Asking, WrapUpEnds, Returns, ledgerVars, countVars
<1>. QED  BY <1>1, <1>2, <1>3, <1>4

\* What comes back keep the types.
LEMMA ReplyKeepsTypes ==
  ASSUME TypeOK, Asking, RepliesWithCalls \/ RepliesWithAnswer \/ Nudged \/ RepliesEmpty \/
           Shrinks \/ Fails \/ WaitsOut
  PROVE  TypeOK' /\ Asking'
<1>1. CASE RepliesWithCalls
  <2>1. now' \in Nat
    BY <1>1, TakesTime DEF TypeOK, RepliesWithCalls, Reply
  <2>2. flags' \subseteq Flags
    BY <1>1, SpendsFlags DEF TypeOK, RepliesWithCalls, Flags
  <2>. QED  BY <1>1, <2>1, <2>2 DEF TypeOK, Asking, RepliesWithCalls, Reply, ledgerVars
<1>2. CASE RepliesWithAnswer
  <2>1. now' \in Nat
    BY <1>2, TakesTime DEF TypeOK, RepliesWithAnswer, Reply
  <2>2. flags' \subseteq Flags
    BY <1>2, SpendsFlags DEF TypeOK, RepliesWithAnswer, Flags
  <2>. QED  BY <1>2, <2>1, <2>2 DEF TypeOK, Asking, RepliesWithAnswer, Reply, Returns,
       ledgerVars
<1>3. CASE Nudged
  <2>1. now' \in Nat
    BY <1>3, TakesTime DEF TypeOK, Nudged, Reply
  <2>2. flags' \subseteq Flags
    BY <1>3, SpendsFlags DEF TypeOK, Nudged, Flags
  <2>. QED  BY <1>3, <2>1, <2>2 DEF TypeOK, Asking, Nudged, Reply, Continues, ledgerVars
<1>4. CASE RepliesEmpty
  <2>1. now' \in Nat
    BY <1>4, TakesTime DEF TypeOK, RepliesEmpty, Reply
  <2>2. flags' \subseteq Flags
    BY <1>4, SpendsFlags DEF TypeOK, RepliesEmpty, Flags
  <2>. QED  BY <1>4, <2>1, <2>2 DEF TypeOK, Asking, RepliesEmpty, Reply, Continues, Returns,
       ledgerVars
<1>5. CASE Shrinks
  BY <1>5, CapIsBelowAll, DeadlineIsNatural DEF TypeOK, Asking, Flags, Shrinks, Reply, Takes,
       Continues, ledgerVars
<1>6. CASE Fails
  <2>1. now' \in Nat
    BY <1>6, TakesTime DEF TypeOK, Fails, Reply
  <2>2. flags' \subseteq Flags
    BY <1>6, SpendsFlags DEF TypeOK, Fails, Flags
  <2>. QED  BY <1>6, <2>1, <2>2 DEF TypeOK, Asking, Fails, Reply, Returns, ledgerVars
<1>7. CASE WaitsOut
  BY <1>7, CapIsBelowAll, DeadlineIsNatural DEF TypeOK, Asking, Flags, WaitsOut, WaitedCounted,
       ledgerVars
<1>. QED  BY <1>1, <1>2, <1>3, <1>4, <1>5, <1>6, <1>7

\* The tool calls keep the types.
LEMMA ToolKeepsTypes ==
  ASSUME TypeOK, Asking, ToolRuns \/ ToolRunsWhole \/ FindsTools \/ ToolRefused \/ ToolCancelled \/ BatchDone
  PROVE  TypeOK' /\ Asking'
<1>1. CASE ToolRuns
  BY <1>1, CapIsBelowAll, DeadlineIsNatural DEF TypeOK, Asking, Flags, ToolRuns, AtTools,
       Decided, Sends, Worked
<1>2. CASE FindsTools
  BY <1>2, CapIsBelowAll, DeadlineIsNatural DEF TypeOK, Asking, Flags, FindsTools, AtTools,
       Sends, Worked
<1>3. CASE ToolRefused
  BY <1>3, CapIsBelowAll, DeadlineIsNatural DEF TypeOK, Asking, Flags, ToolRefused, AtTools,
       Decided
<1>4. CASE ToolCancelled
  BY <1>4, CapIsBelowAll, DeadlineIsNatural DEF TypeOK, Asking, Flags, ToolCancelled, AtTools,
       Decided, Returns
<1>5. CASE BatchDone
  BY <1>5, CapIsBelowAll, DeadlineIsNatural DEF TypeOK, Asking, Flags, BatchDone, Continues,
       ledgerVars, countVars
<1>6. CASE ToolRunsWhole
  <2>1. Remaining \in Int
    BY CapIsBelowAll DEF Remaining, TypeOK
  <2>. QED  BY <1>6, <2>1 DEF TypeOK, Asking, Flags, ToolRunsWhole, AtTools, Decided, Sends, Worked
<1>. QED  BY <1>1, <1>2, <1>3, <1>4, <1>5, <1>6

\* The phases keep the types.
LEMMA PhaseKeepsTypes ==
  ASSUME TypeOK, Asking, NextPhase \/ TurnOver \/ Abandoned
  PROVE  TypeOK' /\ Asking'
<1>1. CASE NextPhase
  BY <1>1, CapIsBelowAll, DeadlineIsNatural DEF TypeOK, Asking, Flags, NextPhase, GoesOn,
       OfTheTurn
<1>2. CASE TurnOver
  BY <1>2, CapIsBelowAll, DeadlineIsNatural DEF TypeOK, Asking, Flags, TurnOver, loopVars
<1>3. CASE Abandoned
  BY <1>3, CapIsBelowAll, DeadlineIsNatural DEF TypeOK, Asking, Flags, Abandoned, loopVars
<1>. QED  BY <1>1, <1>2, <1>3

\* Every step keeps the types.
LEMMA NextKeepsTypes == ASSUME TypeOK, Asking, [Next]_vars PROVE TypeOK' /\ Asking'
<1>1. CASE Next
  BY <1>1, LoopKeepsTypes, ReplyKeepsTypes, ToolKeepsTypes, PhaseKeepsTypes, Zenon DEF Next
<1>2. CASE UNCHANGED vars
  BY <1>2 DEF vars, TypeOK, Asking
<1>. QED  BY <1>1, <1>2

-----------------------------------------------------------------------------
\* Calls and requests.

LEMMA TurnInitInv == Init => TurnInv
<1>. SUFFICES ASSUME Init
              PROVE  TurnInv
  OBVIOUS
<1>1. TypeOK /\ Asking
  BY InitTypes
<1>2. Counted /\ CallsBounded /\ WrapsOnce
  BY DEF Init, Counted, CallsBounded, WrapsOnce
<1>. QED  BY <1>1, <1>2 DEF TurnInv

\* A step of the loop keeps the count: Reserve holds the summing up's call back.
LEMMA LoopKeepsCount ==
  ASSUME TurnInv, Asks \/ StopsWithAnswer \/ StopsWithout \/ WrapUpEnds
  PROVE  (Counted /\ CallsBounded /\ WrapsOnce)'
<1>1. CASE Asks
  BY <1>1 DEF TurnInv, TypeOK, Asking, Counted, CallsBounded, WrapsOnce, Answers, Asks, CountsCall,
       BudgetStop, Reserve, ledgerVars, countVars
<1>2. CASE StopsWithAnswer
  BY <1>2 DEF TurnInv, TypeOK, Asking, Counted, CallsBounded, WrapsOnce, Answers, StopsWithAnswer,
       loopVars, WrapsUp
<1>3. CASE StopsWithout
  BY <1>3 DEF TurnInv, TypeOK, Asking, Counted, CallsBounded, WrapsOnce, Answers, StopsWithout,
       loopVars, Returns
<1>4. CASE WrapUpEnds
  BY <1>4 DEF TurnInv, TypeOK, Asking, Counted, CallsBounded, WrapsOnce, Answers, WrapUpEnds,
       Returns, ledgerVars, countVars
<1>. QED  BY <1>1, <1>2, <1>3, <1>4

\* What comes back keeps the count; a wait may give a call back.
LEMMA ReplyKeepsCount ==
  ASSUME TurnInv, RepliesWithCalls \/ RepliesWithAnswer \/ Nudged \/ RepliesEmpty \/ Shrinks \/
           Fails \/ WaitsOut
  PROVE  (Counted /\ CallsBounded /\ WrapsOnce)'
<1>1. CASE RepliesWithCalls
  BY <1>1 DEF TurnInv, TypeOK, Asking, Counted, CallsBounded, WrapsOnce, Answers, RepliesWithCalls,
       Reply, ledgerVars
<1>2. CASE RepliesWithAnswer
  BY <1>2 DEF TurnInv, TypeOK, Asking, Counted, CallsBounded, WrapsOnce, Answers,
       RepliesWithAnswer, Reply, Returns, ledgerVars
<1>3. CASE Nudged
  BY <1>3 DEF TurnInv, TypeOK, Asking, Counted, CallsBounded, WrapsOnce, Answers, Nudged, Reply,
       Continues, ledgerVars
<1>4. CASE RepliesEmpty
  BY <1>4 DEF TurnInv, TypeOK, Asking, Counted, CallsBounded, WrapsOnce, Answers, RepliesEmpty,
       Reply, Continues, Returns, ledgerVars
<1>5. CASE Shrinks
  BY <1>5 DEF TurnInv, TypeOK, Asking, Counted, CallsBounded, WrapsOnce, Answers, Shrinks, Reply,
       Continues, ledgerVars
<1>6. CASE Fails
  BY <1>6 DEF TurnInv, TypeOK, Asking, Counted, CallsBounded, WrapsOnce, Answers, Fails, Reply,
       Returns, ledgerVars
<1>7. CASE WaitsOut
  BY <1>7 DEF TurnInv, TypeOK, Asking, Counted, CallsBounded, WrapsOnce, Answers, WaitsOut,
       ledgerVars
<1>. QED  BY <1>1, <1>2, <1>3, <1>4, <1>5, <1>6, <1>7

\* The tool calls bill nothing.
LEMMA ToolKeepsCount ==
  ASSUME TurnInv, ToolRuns \/ ToolRunsWhole \/ FindsTools \/ ToolRefused \/ ToolCancelled \/ BatchDone
  PROVE  (Counted /\ CallsBounded /\ WrapsOnce)'
<1>1. CASE ToolRuns
  BY <1>1 DEF TurnInv, TypeOK, Asking, Counted, CallsBounded, WrapsOnce, Answers, ToolRuns, AtTools
<1>2. CASE FindsTools
  BY <1>2 DEF TurnInv, TypeOK, Asking, Counted, CallsBounded, WrapsOnce, Answers, FindsTools,
       AtTools
<1>3. CASE ToolRefused
  BY <1>3 DEF TurnInv, TypeOK, Asking, Counted, CallsBounded, WrapsOnce, Answers, ToolRefused,
       AtTools
<1>4. CASE ToolCancelled
  BY <1>4 DEF TurnInv, TypeOK, Asking, Counted, CallsBounded, WrapsOnce, Answers, ToolCancelled,
       AtTools, Returns
<1>5. CASE BatchDone
  BY <1>5 DEF TurnInv, TypeOK, Asking, Counted, CallsBounded, WrapsOnce, Answers, BatchDone,
       Continues, ledgerVars, countVars
<1>6. CASE ToolRunsWhole
  BY <1>6 DEF TurnInv, TypeOK, Asking, Counted, CallsBounded, WrapsOnce, Answers, ToolRunsWhole,
       AtTools
<1>. QED  BY <1>1, <1>2, <1>3, <1>4, <1>5, <1>6

\* The next phase begins where nothing was summed up.
LEMMA PhaseKeepsCount ==
  ASSUME TurnInv, NextPhase \/ TurnOver \/ Abandoned
  PROVE  (Counted /\ CallsBounded /\ WrapsOnce)'
<1>1. CASE NextPhase
  BY <1>1 DEF TurnInv, TypeOK, Asking, Counted, CallsBounded, WrapsOnce, Answers, NextPhase,
       GoesOn, RoomLeft
<1>2. CASE TurnOver
  BY <1>2 DEF TurnInv, TypeOK, Asking, Counted, CallsBounded, WrapsOnce, Answers, TurnOver,
       loopVars
<1>3. CASE Abandoned
  BY <1>3 DEF TurnInv, TypeOK, Asking, Counted, CallsBounded, WrapsOnce, Answers, Abandoned,
       loopVars
<1>. QED  BY <1>1, <1>2, <1>3

\* Every step keeps the invariant.
LEMMA TurnNextKeepsInv == ASSUME TurnInv, [Next]_vars PROVE TurnInv'
<1>1. TypeOK' /\ Asking'
  BY NextKeepsTypes DEF TurnInv
<1>2. (Counted /\ CallsBounded /\ WrapsOnce)'
  <2>1. CASE Next
    BY <2>1, LoopKeepsCount, ReplyKeepsCount, ToolKeepsCount, PhaseKeepsCount, Zenon DEF Next
  <2>2. CASE UNCHANGED vars
    BY <2>2 DEF TurnInv, vars, Counted, CallsBounded, WrapsOnce, Answers
  <2>. QED  BY <2>1, <2>2
<1>. QED  BY <1>1, <1>2 DEF TurnInv

\* The invariant bounds what a turn, and a phase, has billed.
LEMMA InvBoundsTheBill == TurnInv => BilledWithinCeiling
  BY DEF TurnInv, TypeOK, Counted, CallsBounded, WrapsOnce, BilledWithinCeiling

\* The inductive invariant of the count.
THEOREM TurnInvHolds == Spec => []TurnInv
<1>. QED  BY TurnInitInv, TurnNextKeepsInv, PTL DEF Spec

\* Every variable of a turn has its type, whatever the ceilings are.
THEOREM TurnTypeCorrect == Spec => []TypeOK
<1>1. TurnInv => TypeOK
  BY DEF TurnInv
<1>. QED  BY <1>1, TurnInvHolds, PTL

\* A turn bills no more calls than max_turn_iterations, and a phase no more than
\* its max_iterations, the summing up included: for every number of phases and
\* whatever the provider sends.
THEOREM TurnBilledWithinCeiling == Spec => []BilledWithinCeiling
<1>. QED  BY TurnInvHolds, InvBoundsTheBill, PTL

-----------------------------------------------------------------------------
\* The bytes of the answer's phase.

LEMMA InitKeepsBytes == Init => AnswerKeepsItsBytes
  BY ShareIsPositive DEF Init, AnswerKeepsItsBytes, Excess, Flags

\* A result that came whole is not forgotten.
LEMMA WholeStays ==
  ASSUME [Next]_vars, "whole" \in flags
  PROVE  "whole" \in flags'
<1>1. CASE Asks \/ StopsWithAnswer \/ StopsWithout \/ WrapUpEnds
  BY <1>1 DEF Asks, StopsWithAnswer, StopsWithout, WrapUpEnds, Spends, loopVars
<1>2. CASE RepliesWithCalls \/ RepliesWithAnswer \/ Nudged \/ RepliesEmpty \/ Shrinks \/ Fails \/ WaitsOut
  BY <1>2 DEF RepliesWithCalls, RepliesWithAnswer, Nudged, RepliesEmpty, Shrinks, Fails, WaitsOut,
       Spends
<1>3. CASE ToolRuns \/ ToolRunsWhole \/ FindsTools \/ ToolRefused \/ ToolCancelled \/ BatchDone
  BY <1>3 DEF ToolRuns, ToolRunsWhole, FindsTools, ToolRefused, ToolCancelled, BatchDone, Worked
<1>4. CASE NextPhase \/ TurnOver \/ Abandoned
  BY <1>4 DEF NextPhase, TurnOver, Abandoned, OfTheTurn, loopVars
<1>. QED  BY <1>1, <1>2, <1>3, <1>4 DEF Next, vars

\* What a tool says is cut to what is left of the phase's cap, but for the one result that
\* comes whole where its frame alone takes that up; it is over then.
LEMMA NextKeepsBytes ==
  ASSUME TypeOK, AnswerKeepsItsBytes, [Next]_vars
  PROVE  AnswerKeepsItsBytes'
<1>1. Excess \in Nat /\ Excess <= Frame + MaxRaw
  BY DEF Excess
<1>2. Excess' \in Nat /\ Excess <= Excess'
  BY WholeStays DEF Excess
<1>3. Share \in Nat /\ ByteCap(phase) \in Nat /\ ByteCap(phase) <= MaxBytes /\ phase \in Nat
  BY ShareIsPositive, CapIsBelowAll DEF TypeOK
<1>4. phase < Answer /\ Share <= MaxBytes => ByteCap(phase) = Share
  BY ShareIsPositive DEF ByteCap, Answers, TypeOK
<1>5. bytes \in Nat /\ uncut \in Nat /\ uncut <= bytes
  BY DEF TypeOK
<1>6. CASE ToolRuns
  <2>1. bytes' - uncut' <= ByteCap(phase)
    BY <1>6, <1>3, <1>5 DEF ToolRuns, Sends, Remaining
  <2>2. phase' = phase /\ bytes' - uncut' \in Int
    BY <1>6, <1>5 DEF ToolRuns, AtTools, Sends
  <2>3. bytes' - uncut' <= ByteCap(phase) + Excess'
    <3>1. PICK more : more = Excess' /\ more \in Nat
      BY <1>2
    <3>2. PICK sent : sent = bytes' - uncut' /\ sent \in Int
      BY <2>2
    <3>3. sent <= ByteCap(phase) + more
      BY <2>1, <3>1, <3>2, <1>3
    <3>. QED  BY <3>1, <3>2, <3>3
  <2>. QED  BY <2>2, <2>3, <1>2, <1>3, <1>4 DEF AnswerKeepsItsBytes
<1>7. CASE ToolRunsWhole
  <2>1. bytes' - uncut' <= ByteCap(phase) + (Frame + MaxRaw)
    BY <1>7, <1>3, <1>5 DEF ToolRunsWhole, Sends, Remaining
  <2>2. Excess' = Frame + MaxRaw
    BY <1>7 DEF ToolRunsWhole, Worked, Excess
  <2>3. phase' = phase /\ bytes' - uncut' \in Int
    BY <1>7, <1>3, <1>5 DEF ToolRunsWhole, AtTools, Sends, Remaining
  <2>. QED  BY <2>1, <2>2, <2>3, <1>3, <1>4 DEF AnswerKeepsItsBytes
<1>8. CASE bytes' - uncut' = bytes - uncut /\ phase' \in {phase, phase + 1}
  <2>1. PICK more : more = Excess' /\ more \in Nat
    BY <1>2
  <2>2. Excess <= more
    BY <1>2, <2>1
  <2>3. bytes - uncut <= MaxBytes + more
    BY <1>1, <1>5, <2>1, <2>2 DEF AnswerKeepsItsBytes
  <2>4. ASSUME phase < Answer, Share <= MaxBytes
        PROVE  bytes - uncut <= Share + more
    <3>1. bytes - uncut <= Share + Excess
      BY <2>4 DEF AnswerKeepsItsBytes
    <3>2. PICK less : less = Excess /\ less \in Nat
      BY <1>1
    <3>3. PICK sent : sent = bytes - uncut /\ sent \in Int
      BY <1>5
    <3>4. sent <= Share + less /\ less <= more /\ Share \in Nat
      BY <1>3, <2>2, <3>1, <3>2, <3>3
    <3>5. sent <= Share + more
      BY <2>1, <3>2, <3>3, <3>4
    <3>. QED  BY <3>3, <3>5
  <2>5. phase' < Answer => phase < Answer
    BY <1>3, <1>8
  <2>. QED  BY <1>8, <2>1, <2>3, <2>4, <2>5 DEF AnswerKeepsItsBytes
<1>9. FindsTools => bytes' - uncut' = bytes - uncut /\ phase' = phase
  BY <1>5 DEF FindsTools, AtTools, Sends
<1>10. NextPhase => bytes' - uncut' = bytes - uncut /\ phase' = phase + 1
  BY DEF NextPhase
<1>11. Next => ToolRuns \/ ToolRunsWhole \/ FindsTools \/ NextPhase \/ UNCHANGED <<phase, bytes, uncut>>
  BY DEF Next, Asks, StopsWithAnswer, StopsWithout, WrapUpEnds, RepliesWithCalls,
         RepliesWithAnswer, Nudged, RepliesEmpty, Shrinks, Fails, WaitsOut, Reply,
         ToolRefused, ToolCancelled, AtTools, BatchDone, TurnOver, Abandoned, ledgerVars
<1>12. UNCHANGED vars => UNCHANGED <<phase, bytes, uncut>>
  BY DEF vars
<1>. QED  BY <1>6, <1>7, <1>8, <1>9, <1>10, <1>11, <1>12

\* Before the answer's phase a turn's tools have sent no more than preAnswerReservation,
\* and all in all no more than the turn's budget, whatever tools are called and however
\* many at once: but for one third-party result that comes whole.
THEOREM TurnKeepsAnswersBytes == Spec => []AnswerKeepsItsBytes
<1>. QED  BY TurnTypeCorrect, InitKeepsBytes, NextKeepsBytes, PTL DEF Spec
=============================================================================
