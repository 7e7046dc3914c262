---------------------------- MODULE HelperProcess ----------------------------
(***************************************************************************)
(* The embedder helper's supervisor: Start, the monitor goroutine that     *)
(* restarts a helper which died, and Stop, which may come at any moment of *)
(* a restart.  Each critical section of h.mu is one action.                *)
(*                                                                         *)
(* Helpers are numbered in the order they are spawned.  A helper may exit  *)
(* at any time, and on SIGTERM it may choose not to; SIGKILL ends it.      *)
(* Start is over before Stop is called: newActiveEmbedder hands out the    *)
(* Stop function only then.                                                *)
(***************************************************************************)
EXTENDS Integers

CONSTANT HelperMaxRestarts

ASSUME RestartsAssumption == HelperMaxRestarts \in Nat

Helpers == 1 .. HelperMaxRestarts + 1

VARIABLES
  helper,    \* of each: "none", "alive", "exited", or "reaped" once Wait()ed for
  killed,    \* helpers that SIGKILL was sent to
  bound,     \* is the endpoint there?
  start,     \* Start: "new", "spawned", "failed" or "done"
  cmd,       \* h.cmd, or 0
  stopping, restarts,
  monitor,   \* "none", "watching", "delaying", "polling" or "over" (doneCh is closed)
  watched,   \* whose exit is on exitCh, or 0 when it already holds a spawn error
  stopCall,  \* Stop: "not called", "grace", "waiting" or "returned"
  target     \* the cmd that Stop read

processVars == <<helper, killed, bound>>
monitorVars == <<cmd, restarts, monitor, watched>>
stopVars    == <<stopping, stopCall, target>>
helperVars == <<processVars, start, monitorVars, stopVars>>

HelperInit ==
  /\ helper = [h \in Helpers |-> "none"] /\ killed = {} /\ bound = FALSE
  /\ start = "new"
  /\ cmd = 0 /\ restarts = 0 /\ monitor = "none" /\ watched = 0
  /\ stopping = FALSE /\ stopCall = "not called" /\ target = 0

-----------------------------------------------------------------------------
\* The helper process, and the goroutine that waits for it.

Bind(h) ==
  /\ helper[h] = "alive"
  /\ bound' = TRUE
  /\ UNCHANGED <<helper, killed, start, monitorVars, stopVars>>

\* It may take its endpoint along, or leave it behind.
HelperExits(h) ==
  /\ helper[h] = "alive"
  /\ helper' = [helper EXCEPT ![h] = "exited"]
  /\ bound' \in {bound, FALSE}
  /\ UNCHANGED <<killed, start, monitorVars, stopVars>>

Reap(h) ==
  /\ helper[h] = "exited"
  /\ helper' = [helper EXCEPT ![h] = "reaped"]
  /\ UNCHANGED <<killed, bound, start, monitorVars, stopVars>>

\* spawnLocked: one helper more, if the binary can be executed.
Spawn(h) ==
  /\ helper[h] = "none" /\ \A g \in Helpers : g < h => helper[g] # "none"
  /\ helper' = [helper EXCEPT ![h] = "alive"]
  /\ cmd' = h
  /\ watched' = h

-----------------------------------------------------------------------------
\* Start.

StartSpawns ==
  /\ start = "new" /\ stopCall = "not called"
  /\ Spawn(1)
  /\ start' = "spawned"
  /\ UNCHANGED <<killed, bound, restarts, monitor, stopVars>>

StartCannotSpawn ==
  /\ start = "new" /\ stopCall = "not called"
  /\ start' = "failed"
  /\ UNCHANGED <<processVars, monitorVars, stopVars>>

StartReady ==
  /\ start = "spawned" /\ helper[1] = "alive" /\ bound
  /\ start' = "done"
  /\ monitor' = "watching"
  /\ UNCHANGED <<processVars, cmd, restarts, watched, stopVars>>

\* Not ready in time: killed, and waited for; h.cmd is nil again.
StartKills ==
  /\ start = "spawned" /\ killed = {}
  /\ killed' = {1}
  /\ UNCHANGED <<helper, bound, start, monitorVars, stopVars>>

StartFails ==
  /\ start = "spawned" /\ killed = {1} /\ helper[1] = "reaped"
  /\ start' = "failed"
  /\ cmd' = 0
  /\ bound' = FALSE
  /\ UNCHANGED <<helper, killed, restarts, monitor, watched, stopVars>>

-----------------------------------------------------------------------------
\* monitor.

\* Mutant: a helper that was sent SIGKILL counts as gone.
ExitSeenWhenKilled ==
  IF watched = 0 THEN TRUE ELSE watched \in killed \/ helper[watched] = "reaped"

\* Has exitCh delivered?
ExitSeen == IF watched = 0 THEN TRUE ELSE helper[watched] = "reaped"

\* Mutant: one restart too many.
NextRestartLate == /\ restarts' = restarts + 1
                   /\ monitor' = IF restarts > HelperMaxRestarts THEN "over" ELSE "delaying"

\* The exit was not asked for: try again after restartDelay, or give up.
NextRestart == /\ restarts' = restarts + 1
               /\ monitor' = IF restarts + 1 > HelperMaxRestarts THEN "over" ELSE "delaying"

ExitObserved ==
  /\ monitor = "watching" /\ ExitSeen
  /\ IF stopping
     THEN monitor' = "over" /\ UNCHANGED restarts
     ELSE NextRestart
  /\ UNCHANGED <<processVars, start, cmd, watched, stopVars>>

\* Mutant: Stop is only noticed when the exit is observed.
StopUnseenAfterDelay == FALSE

\* Has Stop been called while the monitor slept?
StopSeenAfterDelay == stopping

DelayOver ==
  /\ monitor = "delaying"
  /\ StopSeenAfterDelay
  /\ monitor' = "over"
  /\ UNCHANGED <<processVars, start, cmd, restarts, watched, stopVars>>

Respawn(h) ==
  /\ monitor = "delaying"
  /\ ~StopSeenAfterDelay
  /\ Spawn(h)
  /\ monitor' = "polling"
  /\ UNCHANGED <<killed, bound, start, restarts, stopVars>>

\* Mutant: the failure is not passed on, and the monitor waits for an exit
\* that never comes.
RespawnFailsSilently ==
  /\ monitor = "delaying"
  /\ ~StopSeenAfterDelay
  /\ watched' \in {h \in Helpers : helper[h] = "none"}
  /\ monitor' = "watching"
  /\ UNCHANGED <<processVars, start, cmd, restarts, stopVars>>

\* The failure counts as an exit.
RespawnFails ==
  /\ monitor = "delaying"
  /\ ~StopSeenAfterDelay
  /\ watched' = 0
  /\ monitor' = "watching"
  /\ UNCHANGED <<processVars, start, cmd, restarts, stopVars>>

PollReady ==
  /\ monitor = "polling" /\ helper[cmd] = "alive" /\ bound
  /\ monitor' = "watching"
  /\ UNCHANGED <<processVars, start, cmd, restarts, watched, stopVars>>

\* readyTimeout, or Stop's signal: the helper is killed.
PollGivesUp ==
  /\ monitor = "polling"
  /\ killed' = killed \cup {cmd}
  /\ monitor' = "watching"
  /\ UNCHANGED <<helper, bound, start, cmd, restarts, watched, stopVars>>

-----------------------------------------------------------------------------
\* Stop.

StopNothing ==
  /\ stopCall = "not called" /\ start \in {"new", "failed"}
  /\ stopping' = TRUE
  /\ stopCall' = "returned"
  /\ UNCHANGED <<processVars, start, monitorVars, target>>

StopBegins ==
  /\ stopCall = "not called" /\ start = "done"
  /\ stopping' = TRUE
  /\ target' = cmd
  /\ stopCall' = "grace"
  /\ UNCHANGED <<processVars, start, monitorVars>>

\* Mutant: Stop does not wait for the monitor after the kill.
StopKillsAndGoes ==
  /\ stopCall = "grace" /\ monitor # "over"
  /\ killed' = killed \cup {target}
  /\ stopCall' = "returned"
  /\ bound' = FALSE
  /\ UNCHANGED <<helper, start, monitorVars, stopping, target>>

\* Mutant: when the grace is over Stop only goes on waiting.
StopWaitsOn ==
  /\ stopCall = "grace" /\ monitor # "over"
  /\ stopCall' = "waiting"
  /\ UNCHANGED <<processVars, start, monitorVars, stopping, target>>

\* stopGrace is over.
StopKills ==
  /\ stopCall = "grace" /\ monitor # "over"
  /\ killed' = killed \cup {target}
  /\ stopCall' = "waiting"
  /\ UNCHANGED <<helper, bound, start, monitorVars, stopping, target>>

StopReturns ==
  /\ stopCall \in {"grace", "waiting"} /\ monitor = "over"
  /\ stopCall' = "returned"
  /\ bound' = FALSE
  /\ UNCHANGED <<helper, killed, start, monitorVars, stopping, target>>

Monitor == ExitObserved \/ DelayOver \/ (\E h \in Helpers : Respawn(h)) \/ RespawnFails
           \/ PollReady \/ PollGivesUp

Starting == StartSpawns \/ StartCannotSpawn \/ StartReady \/ StartKills \/ StartFails

Stopping == StopKills \/ StopReturns

HelperNext ==
  \/ \E h \in Helpers : Bind(h) \/ HelperExits(h) \/ Reap(h)
  \/ Starting
  \/ Monitor
  \/ StopNothing \/ StopBegins \/ Stopping

HelperSpec == HelperInit /\ [][HelperNext]_helperVars

\* Goroutines run, waits have timeouts, and a killed process ends.
HelperFairness ==
  /\ WF_helperVars(Monitor) /\ WF_helperVars(Stopping)
  /\ \A h \in Helpers : WF_helperVars(h \in killed /\ HelperExits(h)) /\ WF_helperVars(Reap(h))

HelperFairSpec == HelperSpec /\ HelperFairness

-----------------------------------------------------------------------------
\* Properties.

\* Every variable keeps its type; restarts are counted, and bounded.
HelperTypeOK ==
  /\ helper \in [Helpers -> {"none", "alive", "exited", "reaped"}]
  /\ killed \subseteq Helpers /\ bound \in BOOLEAN
  /\ start \in {"new", "spawned", "failed", "done"}
  /\ cmd \in Helpers \cup {0} /\ restarts \in 0 .. HelperMaxRestarts + 1
  /\ monitor \in {"none", "watching", "delaying", "polling", "over"}
  /\ watched \in Helpers \cup {0}
  /\ stopping \in BOOLEAN /\ stopCall \in {"not called", "grace", "waiting", "returned"}
  /\ target \in Helpers \cup {0}

Running(h) == helper[h] \in {"alive", "exited"}

\* However a crash, the restart delay, a respawn and its readiness poll fall
\* together with Stop: once Stop has returned every helper is gone and waited
\* for, and so is the endpoint ("no zombie, no orphan").
StoppedMeansGone ==
  stopCall = "returned" => ~bound /\ \A h \in Helpers : ~Running(h)

\* There are never two helpers on the one endpoint: a helper is spawned only
\* when the one before it was waited for.
OneHelper == \A g, h \in Helpers : Running(g) /\ Running(h) => g = h

\* Stop disables any further restart.
NoRestartAfterStop ==
  [][stopping => \A h \in Helpers : helper'[h] # "none" => helper[h] # "none"]_helperVars

\* Stop returns, whatever the helper does with SIGTERM and wherever the monitor is.
StopEnds == stopCall = "grace" ~> stopCall = "returned"

\* A helper that died is followed by another, or the monitor is over.
DeathIsNoticed ==
  \A h \in Helpers : helper[h] = "exited" /\ start = "done"
                       ~> monitor = "over" \/ \E g \in Helpers : g > h /\ helper[g] # "none"
=============================================================================
