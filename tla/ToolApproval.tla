---------------------------- MODULE ToolApproval ----------------------------
(***************************************************************************)
(* The tool calls of one agent turn and the user's word on them: what a    *)
(* call needs (resolveExecutable), the question on the client's connection *)
(* and the answers that come back on it (connApprover), and what a         *)
(* shutdown, a client that falls silent and a client that answers twice,   *)
(* or wrongly, do to that.                                                 *)
(*                                                                         *)
(* Calls are numbered in the order the model makes them, which stands for  *)
(* the ids the provider gives them: no two calls of a turn have one id.    *)
(* The arguments stand for their digest.                                   *)
(***************************************************************************)
EXTENDS Integers, Sequences, FiniteSets

CONSTANTS
  Tools, Args,
  Free,      \* tools the configuration allows without a question
  Barred,    \* tools that are denied, withheld by the mode, or not the phase's
  PerArgs,   \* tools that execute code, reach the network or destroy
  MaxCalls,  \* bound: calls the model makes
  MaxStale,  \* maxStaleAnswers
  MaxExtra   \* bound: answers a client sends that the user did not give

ASSUME ApprovalAssumption ==
  /\ Free \subseteq Tools /\ Barred \subseteq Tools /\ PerArgs \subseteq Tools
  /\ Free \cap Barred = {}
  /\ MaxCalls \in Nat /\ MaxStale \in Nat /\ MaxExtra \in Nat

Ids == 1 .. MaxCalls

Approvals == {"approve", "approve_for_turn"}
Decisions == Approvals \cup {"deny", "cancel"}

VARIABLES
  calls,    \* the calls made: [tool, args]
  outcome,  \* of each: "resolving", "asked", "running", "ran", "refused" or "cancelled"
  wire,     \* answers under way: [id, args, decision]
  skipped,  \* stale answers read past while asking the present question
  closed,   \* a.closed
  grants,   \* turn.grants
  down,     \* is ctx cancelled: a shutdown, or the client is gone?
  over,     \* has the turn ended?
  said,     \* what the user said to each call, or "nothing"
  extra,    \* answers sent that the user did not give
  garbled,  \* calls that an answer with other arguments was sent for
  late      \* calls that began to run when ctx was cancelled

vars == <<calls, outcome, wire, skipped, closed, grants, down, over, said, extra, garbled, late>>
clientVars == <<said, extra, garbled>>

Made == 1 .. Len(calls)

Init ==
  /\ calls = << >> /\ outcome = << >>
  /\ wire = << >> /\ skipped = 0 /\ closed = FALSE
  /\ grants = {} /\ down = FALSE /\ over = FALSE
  /\ said = [id \in Ids |-> "nothing"] /\ extra = 0 /\ garbled = {}
  /\ late = {}

-----------------------------------------------------------------------------
\* Mutant: a grant is the tool's, whatever the tool does.
GrantKeyByName(call) == <<call.tool>>

\* What an approve-for-turn is remembered under.
GrantKey(call) ==
  IF call.tool \in PerArgs THEN <<call.tool, call.args>> ELSE <<call.tool>>

Settled == \A id \in Made : outcome[id] \in {"ran", "refused", "cancelled"}

Becomes(id, what) == outcome' = [outcome EXCEPT ![id] = what]

\* Mutant: ctx is not looked at between two calls.
MayBeginAnyway == ~over /\ Settled /\ Len(calls) < MaxCalls

\* The next call of the reply, unless ctx is cancelled.
MayBegin == ~over /\ Settled /\ Len(calls) < MaxCalls /\ ~down

CallBegins(tool, args) ==
  /\ MayBegin
  /\ calls' = Append(calls, [tool |-> tool, args |-> args])
  /\ outcome' = Append(outcome, "resolving")
  /\ UNCHANGED <<wire, skipped, closed, grants, down, over, clientVars, late>>

Refuse(id) ==
  /\ Becomes(id, "refused")
  /\ UNCHANGED late

Run(id) ==
  /\ Becomes(id, "running")
  /\ late' = IF down THEN late \cup {id} ELSE late

\* resolveExecutable: refused or run without a question ...
ResolvedAlone(id) ==
  /\ outcome[id] = "resolving"
  /\ \/ calls[id].tool \in Barred /\ Refuse(id)
     \/ /\ calls[id].tool \notin Barred
        /\ calls[id].tool \in Free \/ GrantKey(calls[id]) \in grants
        /\ Run(id)
  /\ UNCHANGED <<calls, wire, skipped, closed, grants, down, over, clientVars>>

NeedsYes(id) ==
  /\ outcome[id] = "resolving"
  /\ calls[id].tool \notin Barred \cup Free /\ GrantKey(calls[id]) \notin grants

\* ... or the user is asked.
Asks(id) ==
  /\ NeedsYes(id) /\ ~closed /\ ~down
  /\ Becomes(id, "asked")
  /\ skipped' = 0
  /\ UNCHANGED <<calls, wire, closed, grants, down, over, clientVars, late>>

\* Nobody to ask: the channel is closed, ctx is cancelled, or the write fails.
CannotAsk(id) ==
  /\ NeedsYes(id)
  /\ closed' = TRUE
  /\ Refuse(id)
  /\ UNCHANGED <<calls, wire, skipped, grants, down, over, clientVars>>

\* The read fails: silence, a client that is gone, or a shutdown that moved
\* the deadline into the past.
NoAnswer(id) ==
  /\ outcome[id] = "asked"
  /\ closed' = TRUE
  /\ Refuse(id)
  /\ UNCHANGED <<calls, wire, skipped, grants, down, over, clientVars>>

\* Mutant: the first answer is this question's answer.
AnswersAnotherNever(id, answer) == FALSE

AnswersAnother(id, answer) == answer.id # id

\* An answer to another question is read past, MaxStale times.
ReadsPast(id) ==
  /\ outcome[id] = "asked" /\ wire # << >> /\ AnswersAnother(id, Head(wire))
  /\ wire' = Tail(wire)
  /\ IF skipped < MaxStale
     THEN skipped' = skipped + 1 /\ UNCHANGED <<outcome, late>>
     ELSE Refuse(id) /\ UNCHANGED skipped
  /\ UNCHANGED <<calls, closed, grants, down, over, clientVars>>

\* Mutant: the digest is not compared.
VerifyIdOnly(id, answer) == IF answer.id = id THEN answer.decision ELSE "deny"

\* verifyApproval
Verify(id, answer) ==
  IF answer.id = id /\ answer.args = calls[id].args THEN answer.decision ELSE "deny"

\* Mutant: a cancelled call is refused, and the turn goes on.
AnsweredCancelGoesOn(id, decision) ==
  \/ decision \in Approvals /\ Run(id) /\ UNCHANGED <<grants, over>>
  \/ decision \in {"deny", "cancel"} /\ Refuse(id) /\ UNCHANGED <<grants, over>>

Answered(id, decision) ==
  \/ /\ decision \in Approvals
     /\ Run(id)
     /\ grants' = IF decision = "approve_for_turn" THEN grants \cup {GrantKey(calls[id])}
                                                  ELSE grants
     /\ UNCHANGED over
  \/ /\ decision = "deny"
     /\ Refuse(id)
     /\ UNCHANGED <<grants, over>>
  \/ /\ decision = "cancel"
     /\ Becomes(id, "cancelled")
     /\ over' = TRUE
     /\ UNCHANGED <<grants, late>>

Reads(id) ==
  /\ outcome[id] = "asked" /\ wire # << >> /\ ~AnswersAnother(id, Head(wire))
  /\ wire' = Tail(wire)
  /\ Answered(id, Verify(id, Head(wire)))
  /\ UNCHANGED <<calls, skipped, closed, down, clientVars>>

CallEnds(id) ==
  /\ outcome[id] = "running"
  /\ Becomes(id, "ran")
  /\ UNCHANGED <<calls, wire, skipped, closed, grants, down, over, clientVars, late>>

\* ctx.Err() between two calls, or a last answer.
TurnEnds ==
  /\ ~over /\ Settled
  /\ over' = TRUE
  /\ UNCHANGED <<calls, outcome, wire, skipped, closed, grants, down, clientVars, late>>

Cancelled ==
  /\ ~down
  /\ down' = TRUE
  /\ UNCHANGED <<calls, outcome, wire, skipped, closed, grants, over, clientVars, late>>

-----------------------------------------------------------------------------
\* The client.  It shows a question, and sends what the user said to it: also
\* when the daemon stopped waiting meanwhile.

Sends(answer) == wire' = Append(wire, answer)

AnswerTo(id, decision) == [id |-> id, args |-> calls[id].args, decision |-> decision]

UserAnswers(id, decision) ==
  /\ outcome[id] = "asked" /\ said[id] = "nothing"
  /\ said' = [said EXCEPT ![id] = decision]
  /\ Sends(AnswerTo(id, decision))
  /\ UNCHANGED <<calls, outcome, skipped, closed, grants, down, over, extra, garbled, late>>

\* A double-fired keypress.
ClientRepeats(id) ==
  /\ said[id] # "nothing" /\ extra < MaxExtra
  /\ extra' = extra + 1
  /\ Sends(AnswerTo(id, said[id]))
  /\ UNCHANGED <<calls, outcome, skipped, closed, grants, down, over, said, garbled, late>>

\* An approval of other arguments than the daemon asked about.
ClientGarbles(id, args) ==
  /\ outcome[id] = "asked" /\ args # calls[id].args /\ extra < MaxExtra
  /\ extra' = extra + 1
  /\ garbled' = garbled \cup {id}
  /\ Sends([id |-> id, args |-> args, decision |-> "approve"])
  /\ UNCHANGED <<calls, outcome, skipped, closed, grants, down, over, said, late>>

-----------------------------------------------------------------------------
Resolves(id) ==
  \/ ResolvedAlone(id) \/ Asks(id) \/ CannotAsk(id)
  \/ NoAnswer(id) \/ ReadsPast(id) \/ Reads(id) \/ CallEnds(id)

Client(id) ==
  \/ \E decision \in Decisions : UserAnswers(id, decision)
  \/ ClientRepeats(id) \/ \E args \in Args : ClientGarbles(id, args)

Next ==
  \/ \E tool \in Tools, args \in Args : CallBegins(tool, args)
  \/ \E id \in Made : Resolves(id) \/ Client(id)
  \/ TurnEnds \/ Cancelled

Spec == Init /\ [][Next]_vars

-----------------------------------------------------------------------------
\* Properties.

TypeOK ==
  /\ calls \in Seq([tool : Tools, args : Args]) /\ Len(calls) <= MaxCalls
  /\ outcome \in Seq({"resolving", "asked", "running", "ran", "refused", "cancelled"})
  /\ Len(outcome) = Len(calls)
  /\ wire \in Seq([id : Ids, args : Args, decision : Decisions])
  /\ skipped \in 0 .. MaxStale /\ closed \in BOOLEAN
  /\ grants \subseteq {<<t>> : t \in Tools} \cup (Tools \X Args)
  /\ down \in BOOLEAN /\ over \in BOOLEAN
  /\ said \in [Ids -> Decisions \cup {"nothing"}]
  /\ extra \in 0 .. MaxExtra /\ garbled \subseteq Ids /\ late \subseteq Ids

Started(id) == outcome[id] \in {"running", "ran"}

\* Does a yes "for the turn" to one call speak for the other?
Covers(one, other) ==
  /\ calls[one].tool = calls[other].tool
  /\ calls[one].tool \in PerArgs => calls[one].args = calls[other].args

\* Whatever answers come late, twice, to another question or with other
\* arguments, no call runs that the configuration does not allow and the user
\* did not approve: this very call, or an earlier one for the turn.
RanOnlyApproved ==
  \A id \in Made : Started(id) =>
    /\ calls[id].tool \notin Barred
    /\ \/ calls[id].tool \in Free
       \/ said[id] \in Approvals
       \/ \E earlier \in 1 .. id - 1 : said[earlier] = "approve_for_turn" /\ Covers(earlier, id)

\* The user's yes is not lost to a leftover of an earlier question: it is heard
\* unless the channel was closed or the client sent more than the daemon reads.
YesIsHeard ==
  \A id \in Made :
    said[id] \in Approvals /\ outcome[id] = "refused"
      => closed \/ extra > MaxStale \/ id \in garbled

\* A shutdown starts no tool but the one that was being decided on.
OneStartAfterShutdown == Cardinality(late) <= 1

\* The user's stop was heard: it was this question's answer, and nothing the
\* user did not say was on the channel.
Stopped ==
  \E id \in Made :
    /\ said[id] = "cancel" /\ outcome[id] \in {"refused", "cancelled"}
    /\ extra = 0 /\ ~closed

\* Once the user stopped the turn nothing of it runs any more.
StoppedMeansStopped ==
  [][Stopped => UNCHANGED calls /\ \A id \in Made : Started(id)' => Started(id)]_vars
=============================================================================
