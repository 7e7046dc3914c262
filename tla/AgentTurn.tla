------------------------------- MODULE AgentTurn -------------------------------
(***************************************************************************)
(* One agent turn: the loop of model calls and tool calls of a phase       *)
(* (runAgentLoop), the ceilings it looks at before each call (budgetStop), *)
(* its answers to a provider that sends nothing, refuses or is busy, the   *)
(* last call that sums up (wrapUpAtLimit), and the phases of a pipeline    *)
(* that share one ledger (runOrchestrated).  A turn without a pipeline is  *)
(* one phase, which answers.                                               *)
(*                                                                         *)
(* Time is counted from the start of the turn and passes in its calls and  *)
(* waits.  What the model says is left out, but for whether it said any.   *)
(***************************************************************************)
EXTENDS Integers

CONSTANTS
  Phases,        \* how many phases
  Answer,        \* the phase whose prose is the answer
  MaxTurn,       \* max_turn_iterations
  MaxIter,       \* max_iterations, or the role's
  Timeout,       \* turn_timeout_seconds
  WrapTime,      \* wrapUpReserve of a phase that answers
  MaxBytes,      \* max_total_tool_bytes
  MaxResult,     \* max_tool_result_bytes
  MaxNote,       \* bound: how long a text of the loop's own is
  Frame,         \* bound: len(outcome) + len(frameLaneBOutput(server, ""))
  MaxRaw,        \* bound: how long what a server returns is
  MaxRepeats,    \* maxIdenticalRepeats
  Wait,          \* providerWaitFor: how long a busy provider is given
  MaxWaits,      \* maxProviderWaits
  MaxBatch,      \* bound: tool calls in one reply
  Durations,     \* bound: how long a call may take
  Deliberations  \* bound: how long the user may look at a question

ASSUME TurnAssumption ==
  /\ Phases \in Nat \ {0} /\ Answer \in 1 .. Phases
  /\ MaxTurn \in Nat \ {0} /\ MaxIter \in Nat \ {0}
  /\ {Timeout, WrapTime, MaxBytes, MaxResult, MaxNote, Frame, MaxRaw, MaxRepeats, Wait, MaxWaits,
      MaxBatch} \subseteq Nat
  /\ Durations \subseteq Nat /\ Deliberations \subseteq Nat

VARIABLES
  at,        \* where the turn is
  phase,
  iteration, \* turn.iteration
  calls,     \* turn.calls
  prior,     \* ledger.iterations: the calls of earlier phases
  empties,   \* turn.emptyInARow
  waits,     \* turn.providerWaits
  repeats,   \* turn.repeats
  left,      \* the reply's tool calls that are still to run
  flags,     \* of the phase: nudged, worked, said; of the turn: shrunk, spent, whole
  bytes,     \* ledger.toolBytes
  uncut,     \* those of them that are the loop's own text, which no cap cuts
  now,
  deadline,  \* bud.deadline
  stop,      \* why the phase, or the turn, ended
  billed,    \* requests the provider took, the summing up included
  cancelled  \* has the user stopped the turn?

vars == <<at, phase, iteration, calls, prior, empties, waits, repeats, left, flags, bytes, uncut,
          now, deadline, stop, billed, cancelled>>
loopVars   == <<iteration, calls, prior, empties, waits, repeats, left, flags>>
ledgerVars == <<phase, prior, cancelled>>
countVars  == <<empties, waits, repeats, left>>

Flags == {"nudged", "worked", "said", "shrunk", "spent", "whole"}
OfTheTurn == {"shrunk", "spent", "whole"}

Answers(p) == p >= Answer   \* the bud.wrapUpInside of phase p

\* preAnswerReservation, and what is left of it in a phase's budget.
Share ==
  LET share == (MaxBytes * (Answer - 1)) \div Phases IN IF share < 1 THEN 1 ELSE share

\* Mutant: every phase may read all of it.
ByteCapWhole(p) == MaxBytes

ByteCap(p) == IF Answers(p) \/ MaxBytes < Share THEN MaxBytes ELSE Share

DeadlineOf(p) == IF Answers(p) THEN Timeout ELSE (Timeout * (Answer - 1)) \div Phases

Init ==
  /\ at = "step" /\ phase = 1
  /\ iteration = 1 /\ calls = 0 /\ prior = 0
  /\ empties = 0 /\ waits = 0 /\ repeats = 0 /\ left = 0 /\ flags = {}
  /\ bytes = 0 /\ uncut = 0 /\ now = 0 /\ deadline = DeadlineOf(1)
  /\ stop = "none" /\ billed = 0 /\ cancelled = FALSE

-----------------------------------------------------------------------------
\* budgetStop

\* Mutant: the summing up is one call more.
ReserveNothing == 0

\* The last call of a phase that answers is kept for the summing up.
Reserve == IF Answers(phase) /\ calls > 0 THEN 1 ELSE 0

WrapReserve == IF Answers(phase) THEN WrapTime ELSE 0

BudgetStop ==
  \/ prior + calls >= MaxTurn - Reserve
  \/ iteration > MaxIter - Reserve
  \/ "spent" \in flags
  \/ now > deadline - WrapReserve
  \/ repeats >= MaxRepeats
  \/ bytes >= ByteCap(phase)

Returns(why) == at' = "returned" /\ stop' = why

\* The next pass of the loop.
Continues == at' = "step" /\ iteration' = iteration + 1 /\ UNCHANGED stop

\* Mutant: a call is counted when it has succeeded.
CountsNothing == UNCHANGED calls

CountsCall == calls' = calls + 1

Asks ==
  /\ at = "step" /\ ~BudgetStop
  /\ at' = "asking"
  /\ CountsCall
  /\ billed' = billed + 1
  /\ UNCHANGED <<ledgerVars, iteration, countVars, flags, bytes, uncut, now, deadline, stop>>

WrapsUp == calls > 0 /\ Answers(phase) /\ now <= deadline

StopsWithAnswer ==
  /\ at = "step" /\ BudgetStop /\ WrapsUp
  /\ at' = "wrapping"
  /\ billed' = billed + 1
  /\ UNCHANGED <<phase, loopVars, bytes, uncut, now, deadline, stop, cancelled>>

StopsWithout ==
  /\ at = "step" /\ BudgetStop /\ ~WrapsUp
  /\ Returns("budget")
  /\ UNCHANGED <<phase, loopVars, bytes, uncut, now, deadline, billed, cancelled>>

-----------------------------------------------------------------------------
\* What comes back.  The call may have used up what the session, the day or
\* the turn's tokens allow.

Takes == \E d \in Durations : now' = now + d

Spends(add) == \E spent \in {{}, {"spent"}} : flags' = flags \cup add \cup spent

Reply ==
  /\ at = "asking"
  /\ Takes
  /\ UNCHANGED <<ledgerVars, calls, waits, repeats, bytes, uncut, deadline, billed>>

WrapUpEnds ==
  /\ at = "wrapping"
  /\ Takes /\ Spends({})
  /\ Returns("budget")
  /\ UNCHANGED <<ledgerVars, iteration, calls, countVars, bytes, uncut, deadline, billed>>

RepliesWithCalls ==
  /\ Reply
  /\ \E said \in {{}, {"said"}} : Spends(said)
  /\ at' = "tools" /\ empties' = 0
  /\ left' \in 1 .. MaxBatch
  /\ UNCHANGED <<iteration, stop>>

\* The answer, or one that the output cap cut off.
RepliesWithAnswer ==
  /\ Reply /\ UNCHANGED left /\ Spends({"said"})
  /\ empties' = 0
  /\ \E why \in {"done", "length"} : Returns(why)
  /\ UNCHANGED iteration

\* It could have looked it up: asked once to do so.
Nudged ==
  /\ Reply /\ UNCHANGED left /\ Spends({"said", "nudged"})
  /\ "nudged" \notin flags
  /\ empties' = 0
  /\ Continues

RepliesEmpty ==
  /\ Reply /\ UNCHANGED left /\ Spends({})
  /\ empties' = empties + 1
  /\ IF empties < 2 THEN Continues ELSE Returns("provider") /\ UNCHANGED iteration

\* Refused as too large, and sent once more, smaller.
Shrinks ==
  /\ Reply /\ UNCHANGED left /\ "shrunk" \notin flags
  /\ flags' = flags \cup {"shrunk", "said"}
  /\ Continues /\ UNCHANGED empties

Fails ==
  /\ Reply /\ UNCHANGED left /\ Spends({})
  /\ Returns(IF flags \cap {"worked", "said"} = {} THEN "error" ELSE "provider")
  /\ UNCHANGED <<iteration, empties>>

\* Mutant: a wait is not counted.
WaitedUncounted == UNCHANGED waits

WaitedCounted == waits' = waits + 1

\* waitOutProvider; a refusal for its rate gives the step back.
WaitsOut ==
  /\ at = "asking"
  /\ "worked" \in flags /\ waits < MaxWaits
  /\ deadline - now >= Wait
  /\ now' = now + Wait
  /\ WaitedCounted
  /\ at' = "step"
  /\ \/ iteration' = iteration + 1 /\ UNCHANGED <<calls, billed>>
     \/ calls' = calls - 1 /\ billed' = billed - 1 /\ UNCHANGED iteration
  /\ UNCHANGED <<ledgerVars, empties, repeats, left, flags, bytes, uncut, deadline, stop>>

-----------------------------------------------------------------------------
\* The tool calls of a reply.

\* The time the user took is given back.
Decided == \E w \in Deliberations :
  /\ deadline' = deadline + w
  /\ \E d \in Durations : now' = now + w + d

AtTools ==
  /\ at = "tools" /\ left > 0 /\ left' = left - 1
  /\ UNCHANGED <<phase, prior, iteration, calls, empties, waits, billed>>

\* What of this phase's bytes is left.
Remaining == ByteCap(phase) - bytes

\* The call was named, and maybe asked for what it has answered already.
Worked(how) ==
  /\ flags' = flags \cup {"worked"} \cup how
  /\ \/ repeats < MaxRepeats /\ repeats' = repeats + 1
     \/ UNCHANGED repeats

\* The markers of what was cut or redacted come after the cut, as does the note on a
\* call that brings nothing new.
Sends(said, note) == bytes' = bytes + said + note /\ uncut' = uncut + note

ToolRuns ==
  /\ AtTools /\ Decided
  /\ Remaining > 0
  /\ \E said \in 0 .. MaxResult, note \in {0, MaxNote} : said <= Remaining /\ Sends(said, note)
  /\ Worked({})
  /\ UNCHANGED <<at, stop, cancelled>>

\* The frame of a third-party result takes all that is left: the render's cap is 0,
\* which renderToolResult takes for no cap.
ToolRunsWhole ==
  /\ AtTools /\ Decided
  /\ Remaining > 0
  /\ \E frame \in Remaining .. Frame, raw \in 0 .. MaxRaw, note \in {0, MaxNote} :
       Sends(frame + raw, note)
  /\ Worked({"whole"})
  /\ UNCHANGED <<at, stop, cancelled>>

\* find_tools answers at once, and its answer is not cut either.
FindsTools ==
  /\ AtTools
  /\ \E note \in 1 .. MaxNote : Sends(0, note)
  /\ Worked({})
  /\ UNCHANGED <<at, now, deadline, stop, cancelled>>

\* Refused, failed, or run and withheld because the bytes are used up.
ToolRefused ==
  /\ AtTools /\ Decided
  /\ UNCHANGED <<at, bytes, uncut, flags, repeats, stop, cancelled>>

ToolCancelled ==
  /\ AtTools /\ Decided
  /\ Returns("cancelled")
  /\ cancelled' = TRUE
  /\ UNCHANGED <<bytes, uncut, flags, repeats>>

BatchDone ==
  /\ at = "tools" /\ left = 0
  /\ Continues
  /\ UNCHANGED <<ledgerVars, calls, countVars, flags, bytes, uncut, now, deadline, billed>>

-----------------------------------------------------------------------------
\* The loop has returned: runOrchestrated goes on, or the turn is over.

\* None of the turn's own bounds is used up.
RoomLeft ==
  /\ bytes < MaxBytes /\ prior + calls < MaxTurn /\ "spent" \notin flags /\ now < Timeout

GoesOn ==
  /\ phase < Phases
  /\ stop = "done" \/ (stop # "error" /\ ~Answers(phase) /\ RoomLeft)

NextPhase ==
  /\ at = "returned" /\ GoesOn
  /\ at' = "step" /\ stop' = "none" /\ phase' = phase + 1
  /\ prior' = prior + calls
  /\ iteration' = 1 /\ calls' = 0 /\ empties' = 0 /\ waits' = 0 /\ repeats' = 0 /\ left' = 0
  /\ flags' = flags \cap OfTheTurn
  /\ deadline' = DeadlineOf(phase + 1)
  /\ UNCHANGED <<bytes, uncut, now, billed, cancelled>>

TurnOver ==
  /\ at = "returned" /\ ~GoesOn
  /\ at' = "over"
  /\ UNCHANGED <<phase, loopVars, bytes, uncut, now, deadline, stop, billed, cancelled>>

\* The client is gone, or the daemon shuts down.
Abandoned ==
  /\ at \in {"asking", "tools", "returned"}
  /\ at' = "over" /\ stop' = "error"
  /\ UNCHANGED <<phase, loopVars, bytes, uncut, now, deadline, billed, cancelled>>

-----------------------------------------------------------------------------
Next ==
  \/ Asks \/ StopsWithAnswer \/ StopsWithout \/ WrapUpEnds
  \/ RepliesWithCalls \/ RepliesWithAnswer \/ Nudged \/ RepliesEmpty \/ Shrinks \/ Fails \/ WaitsOut
  \/ ToolRuns \/ ToolRunsWhole \/ FindsTools \/ ToolRefused \/ ToolCancelled \/ BatchDone
  \/ NextPhase \/ TurnOver \/ Abandoned

Spec == Init /\ [][Next]_vars

\* A reply, a refusal or a timeout comes (streamWithRetry bounds a silence),
\* and a tool returns.
FairSpec == Spec /\ WF_vars(Next)

-----------------------------------------------------------------------------
\* Properties.

TypeOK ==
  /\ at \in {"step", "asking", "wrapping", "tools", "returned", "over"}
  /\ phase \in 1 .. Phases /\ iteration \in Nat /\ calls \in Nat /\ prior \in Nat
  /\ empties \in 0 .. 3 /\ waits \in 0 .. MaxWaits /\ repeats \in 0 .. MaxRepeats
  /\ left \in 0 .. MaxBatch
  /\ flags \subseteq Flags /\ bytes \in Nat /\ uncut \in 0 .. bytes
  /\ now \in Nat /\ deadline \in Nat /\ billed \in Nat
  /\ stop \in {"none", "budget", "done", "length", "provider", "error", "cancelled"}
  /\ cancelled \in BOOLEAN

\* "The number in the configuration is the number of calls": whatever comes
\* back empty, too large or not at all, and however the phases share them, a
\* turn bills no more calls than max_turn_iterations, the summing up included,
\* and one more only where its last phase began with a single call left; and a
\* phase no more than max_iterations, unless that is one.
BilledWithinCeiling ==
  /\ billed <= MaxTurn + 1
  /\ prior < MaxTurn - 1 => billed <= MaxTurn
  /\ MaxIter > 1 => billed - prior <= MaxIter

\* One result that came whole, and its frame.
Excess == IF "whole" \in flags THEN Frame + MaxRaw ELSE 0

\* What the phases before the answer take of what tools say is no more than
\* leaves the answer its share, and what a turn takes no more than its budget,
\* however many tools one reply calls: but for a single third-party result
\* that nothing cuts, after which the phase sends nothing more.  (The loop's own
\* notes, menus and markers are not cut, and eat into the rest.)
AnswerKeepsItsBytes ==
  /\ phase < Answer /\ Share <= MaxBytes => bytes - uncut <= Share + Excess
  /\ bytes - uncut <= MaxBytes + Excess

\* However the provider behaves, the turn ends.
TurnEnds == <>(at = "over")

-----------------------------------------------------------------------------
\* What a message of the repository says, and the code does not keep.

\* agentloop.go, at a cancelled question: "you stopped this task at a tool
\* approval ... and nothing further ran."  No model is asked any more.
CancelEndsTheTurn == [][cancelled => UNCHANGED billed]_vars

\* agentloop.go, at the cap of a result: "THE CAP MUST NOT INVERT INTO "NO LIMIT"
\* WHEN THE BUDGET RUNS OUT." and, of a third-party frame, its bytes are "reserved from
\* the cap BEFORE the render rather than added to the total after it."
CapNeverInverts == bytes - uncut <= MaxBytes
=============================================================================
