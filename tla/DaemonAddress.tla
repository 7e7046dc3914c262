---------------------------- MODULE DaemonAddress ----------------------------
(***************************************************************************)
(* One workspace, one address: the daemons that are started for it, the    *)
(* socket file and the lockfile they share, and the supervisors of the     *)
(* editor windows that start, adopt, restart and stop them.                *)
(*                                                                         *)
(* Daemons are numbered in the order they are spawned.  The socket file    *)
(* names the daemon that made it, whether that one still listens or not;   *)
(* 0 is no file.  A probe is answered and its answer used in one step.     *)
(***************************************************************************)
EXTENDS Integers, FiniteSets

CONSTANTS
  Windows,      \* the editor windows on the workspace
  MaxDaemons,   \* bound: processes spawned
  MaxRestarts,  \* MAX_RESTARTS
  Attempts,     \* ADOPT_PROBE_ATTEMPTS
  MaxPresses,   \* bound: uses of the Restart Daemon command
  MaxTrouble    \* bound: those uses, and daemons that fail of their own accord

ASSUME AddressAssumption ==
  /\ MaxDaemons \in Nat /\ MaxRestarts \in Nat
  /\ Attempts \in Nat \ {0} /\ MaxPresses \in Nat /\ MaxTrouble \in Nat

Daemons == 1 .. MaxDaemons
Presses == 1 .. MaxPresses

NoTimer == 0
Retry   == -1   \* a timer for ensure(); n > 0 is one for the n-th adoption probe

VARIABLES
  proc,      \* of each daemon: how far it has come, or how it exited
  starter,   \* of each daemon: the window that spawned it, or "none"
  signalled, \* daemons that were sent SIGTERM
  socket,    \* who made the socket file
  lockfile,  \* who wrote the lockfile, or 0
  failures,
  window,    \* of each window: its supervisor's fields, and the calls that await a probe
  restart    \* of each use of the command: [by, is, dying, beside]

addressVars == <<proc, starter, signalled, socket, lockfile, failures, window, restart>>
supervisorVars == <<starter, signalled, window, restart>>

Exits  == {"ok", "lost", "failed", "terminated", "killed", "unstarted"}
Stages == {"none", "starting", "stale", "clear", "bound", "serving", "draining", "unlinked"}
            \cup Exits

Used    == {r \in Presses : restart[r].is # "unused"}
Trouble == failures + Cardinality(Used)

Alive(p)     == proc[p] \notin Exits \cup {"none"}
Listening(p) == proc[p] \in {"bound", "serving"}

AddressInit ==
  /\ proc = [p \in Daemons |-> "none"] /\ starter = [p \in Daemons |-> "none"]
  /\ signalled = {}
  /\ socket = 0 /\ lockfile = 0 /\ failures = 0
  /\ window = [w \in Windows |-> [is |-> "closed", own |-> 0, ensuring |-> FALSE,
                                  adopting |-> {}, timer |-> NoTimer, spent |-> 0,
                                  told |-> FALSE]]
  /\ restart = [r \in Presses |-> [by |-> "none", is |-> "unused", dying |-> 0, beside |-> FALSE]]

-----------------------------------------------------------------------------
\* The daemon process.

Goes(p, stage) ==
  /\ proc' = [proc EXCEPT ![p] = stage]
  /\ UNCHANGED supervisorVars

\* An exit leaves the files as they are.
Exit(p, how) ==
  /\ Goes(p, how)
  /\ UNCHANGED <<socket, lockfile>>

ReclaimFindsNone(p) ==
  /\ proc[p] = "starting" /\ socket = 0
  /\ Goes(p, "clear")
  /\ UNCHANGED <<socket, lockfile, failures>>

Answered == socket # 0 /\ Listening(socket)

ReclaimAnswered(p) ==
  /\ proc[p] = "starting" /\ Answered
  /\ Exit(p, "lost")
  /\ UNCHANGED failures

ReclaimUnanswered(p) ==
  /\ proc[p] = "starting" /\ socket # 0 /\ ~Answered
  /\ Goes(p, "stale")
  /\ UNCHANGED <<socket, lockfile, failures>>

\* The file is removed, whoever's it is by now; one that is gone is an error.
ReclaimRemoves(p) ==
  /\ proc[p] = "stale" /\ socket # 0
  /\ Goes(p, "clear")
  /\ socket' = 0
  /\ UNCHANGED <<lockfile, failures>>

ReclaimTooLate(p) ==
  /\ proc[p] = "stale" /\ socket = 0
  /\ Exit(p, "failed")
  /\ UNCHANGED failures

\* bind(2) makes the file, and fails where there is one.
CanBind == socket = 0

Binds(p) ==
  /\ proc[p] = "clear" /\ CanBind
  /\ Goes(p, "bound")
  /\ socket' = p
  /\ UNCHANGED <<lockfile, failures>>

BindLoses(p) ==
  /\ proc[p] = "clear" /\ ~CanBind
  /\ Exit(p, "lost")
  /\ UNCHANGED failures

Publishes(p) ==
  /\ proc[p] = "bound"
  /\ Goes(p, "serving")
  /\ lockfile' = p
  /\ UNCHANGED <<socket, failures>>

\* logger.Fatal or a crash; a signal that no window sent, as of a machine that runs
\* out of memory; or a process that could not be started at all.
Dies(p) ==
  /\ Alive(p) /\ Trouble < MaxTrouble
  /\ failures' = failures + 1
  /\ \/ Exit(p, "failed")
     \/ Exit(p, "killed")
     \/ proc[p] = "starting" /\ Exit(p, "unstarted")

\* SIGTERM before signal.Notify.
Terminated(p) ==
  /\ p \in signalled /\ proc[p] \in {"starting", "stale", "clear", "bound"}
  /\ Exit(p, "terminated")
  /\ UNCHANGED failures

\* beginShutdown and ln.Close, which unlinks the path, whoever's it is.
StopsListening(p) ==
  /\ proc[p] = "serving" /\ p \in signalled
  /\ Goes(p, "draining")
  /\ socket' = 0
  /\ UNCHANGED <<lockfile, failures>>

\* WaitForDrain is over; os.Remove(addr.Address).
RemovesSocket(p) ==
  /\ proc[p] = "draining"
  /\ Goes(p, "unlinked")
  /\ socket' = 0
  /\ UNCHANGED <<lockfile, failures>>

\* os.Remove(lockPath), and the end of main.
RemovesLock(p) ==
  /\ proc[p] = "unlinked"
  /\ Goes(p, "ok")
  /\ lockfile' = 0
  /\ UNCHANGED <<socket, failures>>

-----------------------------------------------------------------------------
\* The supervisor of a window.

daemonVars == <<proc, starter, socket, lockfile, failures>>

Is(w, what) == window[w].is = what

\* probe(): the lockfile is there, and its address answers the handshake.
Reachable == lockfile # 0 /\ Answered /\ proc[socket] = "serving"

Opens(w) ==
  /\ Is(w, "closed")
  /\ window' = [window EXCEPT ![w].is = "open", ![w].ensuring = TRUE]
  /\ UNCHANGED <<daemonVars, signalled, restart>>

EnsureEnds(w) ==
  /\ window[w].ensuring /\ (Is(w, "disposed") \/ Reachable)
  /\ window' = [window EXCEPT ![w].ensuring = FALSE]
  /\ UNCHANGED <<daemonVars, signalled, restart>>

\* Mutant: disposed is not looked at again after the await.
MaySpawnAlways(w) == ~Reachable

MaySpawn(w) == ~Is(w, "disposed") /\ ~Reachable

\* startOwn
EnsureSpawns(w, p) ==
  /\ window[w].ensuring /\ MaySpawn(w)
  /\ proc[p] = "none" /\ \A q \in Daemons : q < p => proc[q] # "none"
  /\ proc' = [proc EXCEPT ![p] = "starting"]
  /\ starter' = [starter EXCEPT ![p] = w]
  /\ window' = [window EXCEPT ![w].ensuring = FALSE, ![w].own = p]
  /\ UNCHANGED <<signalled, socket, lockfile, failures, restart>>

\* scheduleRetry: one timer, and no more than MaxRestarts of them.
AfterFailure(sup) ==
  IF sup.spent + 1 > MaxRestarts
  THEN [sup EXCEPT !.spent = @ + 1, !.told = TRUE]
  ELSE [sup EXCEPT !.spent = @ + 1, !.timer = Retry]

\* A clean stop and one by a signal, whoever sent it, are not failures.
AfterExit(sup, how) ==
  CASE how = "lost"      -> [sup EXCEPT !.adopting = @ \cup {1}]
    [] how = "failed"    -> AfterFailure(sup)
    [] how = "unstarted" -> [sup EXCEPT !.told = TRUE]
    [] OTHER             -> sup

\* onExit and onError.  They do nothing for a handle that is no longer this
\* window's own, so that a daemon which was asked to stop is not met here.
ExitDelivered(w, p) ==
  /\ window[w].own = p /\ proc[p] \in Exits
  /\ LET sup == [window[w] EXCEPT !.own = 0] IN
     window' = [window EXCEPT ![w] = AfterExit(sup, proc[p])]
  /\ UNCHANGED <<daemonVars, signalled, restart>>

\* adoptAfterLosingTheRace
AdoptEnds(w, n) ==
  /\ n \in window[w].adopting /\ (Is(w, "disposed") \/ Reachable)
  /\ window' = [window EXCEPT ![w].adopting = @ \ {n}]
  /\ UNCHANGED <<daemonVars, signalled, restart>>

\* Mutant: the last look is the last that is done.
AfterMissNothing(sup, n) == IF n < Attempts THEN [sup EXCEPT !.timer = n + 1] ELSE sup

\* Look again later; after Attempts looks it counts as a failure.
AfterMiss(sup, n) ==
  IF n < Attempts THEN [sup EXCEPT !.timer = n + 1] ELSE AfterFailure(sup)

AdoptMisses(w, n) ==
  /\ n \in window[w].adopting /\ MaySpawn(w)
  /\ LET sup == [window[w] EXCEPT !.adopting = @ \ {n}] IN
     window' = [window EXCEPT ![w] = AfterMiss(sup, n)]
  /\ UNCHANGED <<daemonVars, signalled, restart>>

TimerFires(w) ==
  /\ window[w].timer # NoTimer
  /\ LET sup == [window[w] EXCEPT !.timer = NoTimer] IN
     window' = [window EXCEPT ![w] = IF window[w].timer = Retry
                                     THEN [sup EXCEPT !.ensuring = TRUE]
                                     ELSE [sup EXCEPT !.adopting = @ \cup {window[w].timer}]]
  /\ UNCHANGED <<daemonVars, signalled, restart>>

\* killOwn
KillsOwn(w) == signalled' = signalled \cup ({window[w].own} \ {0})

\* A call of the window's own awaits a probe, or the exit of a daemon.
Pending(w) ==
  \/ window[w].ensuring \/ window[w].adopting # {}
  \/ \E r \in Presses : restart[r].by = w /\ restart[r].is \in {"probing", "waiting"}

\* restart(): a fresh budget, and then a wait for the daemon that was asked to
\* stop, or a probe when there is none.
RestartPressed(w, r) ==
  /\ Is(w, "open")
  /\ Trouble < MaxTrouble /\ r \notin Used /\ \A q \in Presses : q < r => q \in Used
  /\ KillsOwn(w)
  /\ restart' = [restart EXCEPT ![r] =
       [by |-> w, is |-> IF window[w].own = 0 THEN "probing" ELSE "waiting",
        dying |-> window[w].own, beside |-> Pending(w)]]
  /\ window' = [window EXCEPT ![w].own = 0, ![w].spent = 0, ![w].told = FALSE,
                              ![w].timer = NoTimer]
  /\ UNCHANGED daemonVars

\* settleOrGiveUp: the daemon is gone, or RESTART_EXIT_GRACE_MS are over.
RestartWaited(w, r) ==
  /\ restart[r].by = w /\ restart[r].is = "waiting"
  /\ restart' = [restart EXCEPT ![r].is = "over"]
  /\ window' = [window EXCEPT ![w].ensuring = TRUE]
  /\ UNCHANGED <<daemonVars, signalled>>

RestartProbed(w, r) ==
  /\ restart[r].by = w /\ restart[r].is = "probing"
  /\ restart' = [restart EXCEPT ![r].is = "over"]
  /\ window' = [window EXCEPT ![w] = IF Reachable THEN [@ EXCEPT !.told = TRUE]
                                               ELSE [@ EXCEPT !.ensuring = TRUE]]
  /\ UNCHANGED <<daemonVars, signalled>>

Disposes(w) ==
  /\ Is(w, "open")
  /\ window' = [window EXCEPT ![w].is = "disposed", ![w].timer = NoTimer, ![w].own = 0]
  /\ KillsOwn(w)
  /\ UNCHANGED <<daemonVars, restart>>

-----------------------------------------------------------------------------
Starts(p) ==
  \/ ReclaimFindsNone(p) \/ ReclaimAnswered(p) \/ ReclaimUnanswered(p) \/ ReclaimRemoves(p)
  \/ ReclaimTooLate(p) \/ Binds(p) \/ BindLoses(p) \/ Publishes(p)

Stops(p) == Terminated(p) \/ StopsListening(p) \/ RemovesSocket(p) \/ RemovesLock(p)

Supervises(w) ==
  \/ EnsureEnds(w) \/ \E p \in Daemons : EnsureSpawns(w, p) \/ ExitDelivered(w, p)
  \/ \E n \in 1 .. Attempts : AdoptEnds(w, n) \/ AdoptMisses(w, n)
  \/ TimerFires(w)
  \/ \E r \in Presses : RestartWaited(w, r) \/ RestartProbed(w, r)

AddressNext ==
  \/ \E p \in Daemons : Starts(p) \/ Stops(p) \/ Dies(p)
  \/ \E w \in Windows : \/ Opens(w) \/ Supervises(w) \/ Disposes(w)
                        \/ \E r \in Presses : RestartPressed(w, r)

AddressSpec == AddressInit /\ [][AddressNext]_addressVars

\* A process runs, a promise is settled, a timer fires.
Fairness ==
  /\ \A p \in Daemons : WF_addressVars(Starts(p)) /\ WF_addressVars(Stops(p))
  /\ \A w \in Windows : WF_addressVars(Supervises(w))

AddressFairSpec == AddressSpec /\ Fairness

-----------------------------------------------------------------------------
\* Properties.

AddressTypeOK ==
  /\ proc \in [Daemons -> Stages] /\ starter \in [Daemons -> Windows \cup {"none"}]
  /\ signalled \subseteq Daemons
  /\ socket \in {0} \cup Daemons /\ lockfile \in {0} \cup Daemons
  /\ failures \in 0 .. MaxTrouble
  /\ \A w \in Windows :
       /\ window[w].own \in {0} \cup Daemons /\ window[w].adopting \subseteq 1 .. Attempts
       /\ window[w].timer \in {NoTimer, Retry} \cup 1 .. Attempts /\ window[w].spent \in Nat

Spawned(w) == {p \in Daemons : starter[p] = w}

\* Daemons that w started and closing it does not reach.
Orphans(w) ==
  {p \in Spawned(w) : Alive(p) /\ p \notin signalled /\ ~(Is(w, "open") /\ window[w].own = p)}

\* What closing a window reaches: the daemons it started are its own, or were
\* asked to stop -- also when the window is closed while a probe is awaited,
\* when a daemon that was asked to stop exits after its replacement was
\* started, and when the command is used where nothing is the window's own.  Only
\* a use of the command beside a call of the same window's that still awaits
\* something can leave one behind.
NoOrphan ==
  \A w \in Windows : Orphans(w) # {} => \E r \in Used : restart[r].by = w /\ restart[r].beside

\* Whoever opens a window gets a daemon, or is told that there is none: also
\* where two windows start one at once and the loser waits for the winner,
\* where the winner then fails or cannot be started, and where a starter takes
\* another's socket file for a stale one.  Two cases are left out.  A daemon
\* that is stopped takes the file of its successor away (StopsListening,
\* RemovesSocket); and a daemon that some signal ends is not missed
\* (SilenceIsForStopsAskedFor).
Served ==
  \A w \in Windows : window[w].ensuring
    ~> \/ Is(w, "disposed") \/ window[w].told \/ Reachable
       \/ signalled # {} \/ \E p \in Spawned(w) : proc[p] = "killed"

-----------------------------------------------------------------------------
\* What comments of daemonSupervisor.ts say, and the code does not keep.

\* Of two calls that overlap, if they were not one at a time: "startOwn keeps only the last
\* handle, so the first daemon is unkillable by dispose() from the moment it exists."
ClosingReachesItsDaemons == \A w \in Windows : Orphans(w) = {}

\* Of an exit nothing is done about: "A clean stop, or one we asked for."  Any other
\* exit of a window's daemon is retried, told, or answered by looking for another.
SilenceIsForStopsAskedFor ==
  [][\A w \in Windows, p \in Daemons :
       window[w].own = p /\ proc[p] \in Exits \ {"ok"} /\ window'[w].own # p
         => \/ p \in signalled'
            \/ window'[w].told \/ window'[w].timer # NoTimer \/ window'[w].adopting # {}]_addressVars
=============================================================================
