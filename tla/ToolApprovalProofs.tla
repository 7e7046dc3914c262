--------------------------- MODULE ToolApprovalProofs ---------------------------
(***************************************************************************)
(* Proofs about ToolApproval, for any tools, any number of calls and any   *)
(* number of wrong, late or repeated answers: what ran was approved, a     *)
(* shutdown starts at most the call that was being decided on, after the   *)
(* user's stop nothing runs, and the user's yes is not lost to a leftover  *)
(* of an earlier question.                                                 *)
(*                                                                         *)
(* None of the four is inductive.  Inv adds that only the last call is    *)
(* undecided (OneAtATime), what an answer on the wire says of the user     *)
(* (AnswersAreTheUsers), who stands behind a grant (GrantsAreTheUsers),    *)
(* and, for the stop, that a client which sends nothing but the user's     *)
(* answers has at most one under way (OnlyTheAnswer).  HeardInv adds, for  *)
(* the yes, that the answer to the open question is still to be read,      *)
(* behind no more than what the client has sent besides.                   *)
(***************************************************************************)
EXTENDS ToolApproval, SequenceTheorems, FiniteSetTheorems, TLAPS

Outcomes == {"resolving", "asked", "running", "ran", "refused", "cancelled"}
Answers  == [id : Ids, args : Args, decision : Decisions]

Decided(id) == outcome[id] \in {"ran", "refused", "cancelled"}

\* The calls before the last are decided on and done; so is the last, once the turn is
\* over.
OneAtATime ==
  /\ \A id \in Made : id < Len(calls) => Decided(id)
  /\ over => Settled

\* A call is asked about when it needs a yes, and the user answers what was asked.
AskedNeedsYes ==
  \A id \in Ids :
    /\ id \in Made /\ outcome[id] = "asked" => calls[id].tool \notin Barred \cup Free
    /\ said[id] # "nothing" => id \in Made /\ outcome[id] # "resolving"

\* An answer with the arguments of its call is what the user said to it.
AnswersAreTheUsers ==
  \A n \in 1 .. Len(wire) :
    /\ wire[n].id \in Made
    /\ wire[n].args = calls[wire[n].id].args => said[wire[n].id] = wire[n].decision

\* A grant is what the user approved for the turn.
GrantsAreTheUsers ==
  \A g \in grants :
    \E id \in Made : said[id] = "approve_for_turn" /\ GrantKey(calls[id]) = g

\* Only the last call may have begun under a shutdown.
LateIsTheLast == late \subseteq {Len(calls)} /\ (late # {} => down)

\* Where the client sends what the user says and nothing else, and the channel is
\* open, at most one answer is under way, the right one to the question that is open;
\* and a stop that was read is the end of the turn.
OnlyTheAnswer ==
  extra = 0 /\ ~closed =>
    /\ \/ wire = << >>
       \/ /\ Len(wire) = 1 /\ outcome[wire[1].id] = "asked"
          /\ wire[1].args = calls[wire[1].id].args
    /\ \A id \in Made : said[id] = "cancel" => outcome[id] = "asked" \/ over

Inv == /\ TypeOK /\ OneAtATime /\ AskedNeedsYes /\ AnswersAreTheUsers /\ GrantsAreTheUsers
       /\ LateIsTheLast /\ RanOnlyApproved /\ OnlyTheAnswer

USE ApprovalAssumption DEF ApprovalAssumption

-----------------------------------------------------------------------------
\* What the types say, and what the changes to the sequences are.

LEMMA MadeAreIds ==
  ASSUME TypeOK
  PROVE  /\ Made \subseteq Ids /\ Len(calls) \in Nat /\ Len(outcome) = Len(calls)
         /\ outcome \in Seq(Outcomes) /\ wire \in Seq(Answers) /\ Len(wire) \in Nat
         /\ \A id \in Made : /\ id \in Nat /\ id >= 1 /\ id <= Len(calls)
                             /\ outcome[id] \in Outcomes
                             /\ calls[id] \in [tool : Tools, args : Args]
         /\ \A n \in 1 .. Len(wire) : wire[n] \in Answers
<1>1. /\ calls \in Seq([tool : Tools, args : Args]) /\ Len(calls) <= MaxCalls
      /\ outcome \in Seq(Outcomes) /\ Len(outcome) = Len(calls) /\ wire \in Seq(Answers)
  BY Zenon DEF TypeOK, Outcomes, Answers
<1>2. Len(calls) \in Nat /\ Len(wire) \in Nat
  BY <1>1
<1>3. Made \subseteq Ids
  BY <1>1, <1>2 DEF Made, Ids
<1>4. \A id \in Made : /\ id \in Nat /\ id >= 1 /\ id <= Len(calls)
                         /\ outcome[id] \in Outcomes
                         /\ calls[id] \in [tool : Tools, args : Args]
  <2>1. \A id \in Made : id \in Nat /\ id >= 1 /\ id <= Len(calls) /\ id \in 1 .. Len(outcome)
    BY <1>1, <1>2 DEF Made
  <2>2. \A id \in 1 .. Len(outcome) : outcome[id] \in Outcomes
    BY <1>1, ElementOfSeq
  <2>3. \A id \in 1 .. Len(calls) : calls[id] \in [tool : Tools, args : Args]
    BY <1>1, ElementOfSeq
  <2>. QED  BY <2>1, <2>2, <2>3 DEF Made
<1>5. \A n \in 1 .. Len(wire) : wire[n] \in Answers
  BY <1>1
<1>. QED  BY <1>1, <1>2, <1>3, <1>4, <1>5

\* One call's outcome changes, and no other's.
LEMMA BecomesThat ==
  ASSUME TypeOK, NEW id \in Made, NEW what \in Outcomes, Becomes(id, what)
  PROVE  /\ outcome' \in Seq(Outcomes) /\ Len(outcome') = Len(calls)
         /\ outcome'[id] = what /\ \A other \in Made \ {id} : outcome'[other] = outcome[other]
<1>1. outcome \in Seq(Outcomes) /\ id \in 1 .. Len(outcome) /\ Len(outcome) = Len(calls)
  BY MadeAreIds DEF Made
<1>. QED  BY <1>1, ExceptSeq DEF Becomes, Made

\* The answer comes last on the wire.
LEMMA SendsThat ==
  ASSUME TypeOK, NEW answer \in Answers, Sends(answer)
  PROVE  /\ wire' \in Seq(Answers) /\ Len(wire') = Len(wire) + 1
         /\ wire'[Len(wire) + 1] = answer /\ \A n \in 1 .. Len(wire) : wire'[n] = wire[n]
  BY MadeAreIds, AppendProperties DEF Sends

\* The first answer is read, and the others move up.
LEMMA ReadsOne ==
  ASSUME TypeOK, wire # << >>, wire' = Tail(wire)
  PROVE  /\ wire' \in Seq(Answers) /\ Len(wire) >= 1 /\ Len(wire') = Len(wire) - 1
         /\ Head(wire) = wire[1] /\ \A n \in 1 .. Len(wire') : wire'[n] = wire[n + 1]
  BY MadeAreIds, HeadTailProperties, EmptySeq

\* A key that is one call's is the other's only for the same tool, and for the same
\* arguments where they matter.
LEMMA SameKeyCovers ==
  ASSUME NEW one \in Made, NEW other \in Made, GrantKey(calls[one]) = GrantKey(calls[other])
  PROVE  Covers(one, other)
<1>1. \A a, b, c : <<a>> # <<b, c>>
  OBVIOUS
<1>. QED  BY <1>1 DEF Covers, GrantKey

\* A grant is a key.
LEMMA KeysAreKeys ==
  ASSUME TypeOK, NEW id \in Made
  PROVE  GrantKey(calls[id]) \in {<<t>> : t \in Tools} \cup (Tools \X Args)
  BY MadeAreIds DEF GrantKey

\* The call a step is about is the last one.
LEMMA UndecidedIsLast ==
  ASSUME TypeOK, OneAtATime, NEW id \in Made, ~Decided(id)
  PROVE  id = Len(calls) /\ ~over /\ \A other \in Made : other # id => Decided(other)
  BY MadeAreIds DEF OneAtATime, Settled, Decided, Made
\* With a client that sends the user's answers only, what is on the wire is the answer
\* to the question that is open.
LEMMA WireIsTheAnswer ==
  ASSUME Inv, extra = 0, ~closed, wire # << >>
  PROVE  /\ Len(wire) = 1 /\ wire[1].id \in Made /\ outcome[wire[1].id] = "asked"
         /\ wire[1].args = calls[wire[1].id].args /\ said[wire[1].id] = wire[1].decision
         /\ wire[1].id = Len(calls) /\ ~Decided(wire[1].id)
<1>1. /\ Len(wire) = 1 /\ outcome[wire[1].id] = "asked"
      /\ wire[1].args = calls[wire[1].id].args
  BY DEF Inv, OnlyTheAnswer
<1>2. wire[1].id \in Made /\ said[wire[1].id] = wire[1].decision
  BY <1>1 DEF Inv, AnswersAreTheUsers
<1>3. ~Decided(wire[1].id)
  BY <1>1 DEF Decided
<1>. QED  BY <1>1, <1>2, <1>3, UndecidedIsLast DEF Inv

-----------------------------------------------------------------------------
\* The daemon.

LEMMA AsksKeepsInv ==
  ASSUME Inv, NEW id \in Made, Asks(id)
  PROVE  Inv'
<1>. USE DEF Inv, Made, Approvals, Decisions, Outcomes
<1>1. outcome[id] = "resolving" /\ ~Decided(id)
  BY DEF Asks, Decided, NeedsYes
<1>2. id = Len(calls) /\ ~over /\ \A other \in Made : other # id => Decided(other)
  BY <1>1, UndecidedIsLast
<1>3. /\ outcome' \in Seq(Outcomes) /\ Len(outcome') = Len(calls)
      /\ outcome'[id] = "asked" /\ \A other \in Made \ {id} : outcome'[other] = outcome[other]
  BY BecomesThat DEF Asks, Refuse
<1>4. TypeOK'
  BY <1>1, <1>2, <1>3, MadeAreIds, KeysAreKeys DEF TypeOK, Answers, Asks, NeedsYes, clientVars
<1>5. OneAtATime'
  BY <1>1, <1>2, <1>3, MadeAreIds DEF OneAtATime, Settled, Decided, Asks, NeedsYes, clientVars
<1>6. AskedNeedsYes'
  BY <1>1, <1>2, <1>3, MadeAreIds DEF AskedNeedsYes, Asks, NeedsYes, clientVars
<1>7. AnswersAreTheUsers'
  BY <1>1, <1>2, <1>3, MadeAreIds DEF AnswersAreTheUsers, Asks, NeedsYes, clientVars
<1>8. GrantsAreTheUsers'
  BY <1>1, <1>2, <1>3, MadeAreIds DEF GrantsAreTheUsers, Asks, NeedsYes, clientVars
<1>9. LateIsTheLast'
  BY <1>1, <1>2, <1>3, MadeAreIds DEF LateIsTheLast, Asks, NeedsYes, clientVars
<1>10. RanOnlyApproved'
  BY <1>1, <1>2, <1>3, MadeAreIds DEF RanOnlyApproved, Started, Covers, Asks, NeedsYes,
       clientVars
<1>11. OnlyTheAnswer'
  <2>1. extra = 0 /\ ~closed => wire = << >>
    BY <1>1, <1>2, WireIsTheAnswer DEF Asks, NeedsYes
  <2>. QED  BY <1>1, <1>2, <1>3, <2>1, MadeAreIds DEF OnlyTheAnswer, AskedNeedsYes, Asks,
       clientVars
<1>. QED  BY <1>4, <1>5, <1>6, <1>7, <1>8, <1>9, <1>10, <1>11

\* Nobody can be asked: refused, and the channel is closed.
LEMMA CannotAskKeepsInv ==
  ASSUME Inv, NEW id \in Made, CannotAsk(id)
  PROVE  Inv'
<1>. USE DEF Inv, Made, Approvals, Decisions, Outcomes
<1>1. outcome[id] = "resolving" /\ ~Decided(id)
  BY DEF CannotAsk, Decided, NeedsYes
<1>2. id = Len(calls) /\ ~over /\ \A other \in Made : other # id => Decided(other)
  BY <1>1, UndecidedIsLast
<1>3. /\ outcome' \in Seq(Outcomes) /\ Len(outcome') = Len(calls)
      /\ outcome'[id] = "refused"
      /\ \A other \in Made \ {id} : outcome'[other] = outcome[other]
  BY BecomesThat DEF CannotAsk, Refuse
<1>4. TypeOK'
  BY <1>1, <1>2, <1>3, MadeAreIds, KeysAreKeys DEF TypeOK, Answers, CannotAsk, NeedsYes,
       Refuse, clientVars
<1>5. OneAtATime'
  BY <1>1, <1>2, <1>3, MadeAreIds DEF OneAtATime, Settled, Decided, CannotAsk, NeedsYes,
       Refuse, clientVars
<1>6. AskedNeedsYes'
  BY <1>1, <1>2, <1>3, MadeAreIds DEF AskedNeedsYes, CannotAsk, NeedsYes, Refuse, clientVars
<1>7. AnswersAreTheUsers'
  BY <1>1, <1>2, <1>3, MadeAreIds DEF AnswersAreTheUsers, CannotAsk, NeedsYes, Refuse,
       clientVars
<1>8. GrantsAreTheUsers'
  BY <1>1, <1>2, <1>3, MadeAreIds DEF GrantsAreTheUsers, CannotAsk, NeedsYes, Refuse,
       clientVars
<1>9. LateIsTheLast'
  BY <1>1, <1>2, <1>3, MadeAreIds DEF LateIsTheLast, CannotAsk, NeedsYes, Refuse, clientVars
<1>10. RanOnlyApproved'
  BY <1>1, <1>2, <1>3, MadeAreIds DEF RanOnlyApproved, Started, Covers, CannotAsk, NeedsYes,
       Refuse, clientVars
<1>11. OnlyTheAnswer'
  BY <1>1, <1>2, <1>3, MadeAreIds DEF OnlyTheAnswer, Settled, Decided, CannotAsk, NeedsYes,
       Refuse, clientVars
<1>. QED  BY <1>4, <1>5, <1>6, <1>7, <1>8, <1>9, <1>10, <1>11

\* No answer came: refused, and the channel is closed.
LEMMA NoAnswerKeepsInv ==
  ASSUME Inv, NEW id \in Made, NoAnswer(id)
  PROVE  Inv'
<1>. USE DEF Inv, Made, Approvals, Decisions, Outcomes
<1>1. outcome[id] = "asked" /\ ~Decided(id)
  BY DEF NoAnswer, Decided
<1>2. id = Len(calls) /\ ~over /\ \A other \in Made : other # id => Decided(other)
  BY <1>1, UndecidedIsLast
<1>3. /\ outcome' \in Seq(Outcomes) /\ Len(outcome') = Len(calls)
      /\ outcome'[id] = "refused"
      /\ \A other \in Made \ {id} : outcome'[other] = outcome[other]
  BY BecomesThat DEF NoAnswer, Refuse
<1>4. TypeOK'
  BY <1>1, <1>2, <1>3, MadeAreIds, KeysAreKeys DEF TypeOK, Answers, NoAnswer, Refuse,
       clientVars
<1>5. OneAtATime'
  BY <1>1, <1>2, <1>3, MadeAreIds DEF OneAtATime, Settled, Decided, NoAnswer, Refuse,
       clientVars
<1>6. AskedNeedsYes'
  BY <1>1, <1>2, <1>3, MadeAreIds DEF AskedNeedsYes, NoAnswer, Refuse, clientVars
<1>7. AnswersAreTheUsers'
  BY <1>1, <1>2, <1>3, MadeAreIds DEF AnswersAreTheUsers, NoAnswer, Refuse, clientVars
<1>8. GrantsAreTheUsers'
  BY <1>1, <1>2, <1>3, MadeAreIds DEF GrantsAreTheUsers, NoAnswer, Refuse, clientVars
<1>9. LateIsTheLast'
  BY <1>1, <1>2, <1>3, MadeAreIds DEF LateIsTheLast, NoAnswer, Refuse, clientVars
<1>10. RanOnlyApproved'
  BY <1>1, <1>2, <1>3, MadeAreIds DEF RanOnlyApproved, Started, Covers, NoAnswer, Refuse,
       clientVars
<1>11. OnlyTheAnswer'
  BY <1>1, <1>2, <1>3, MadeAreIds DEF OnlyTheAnswer, Settled, Decided, NoAnswer, Refuse,
       clientVars
<1>. QED  BY <1>4, <1>5, <1>6, <1>7, <1>8, <1>9, <1>10, <1>11

\* What ran is done.
LEMMA CallEndsKeepsInv ==
  ASSUME Inv, NEW id \in Made, CallEnds(id)
  PROVE  Inv'
<1>. USE DEF Inv, Made, Approvals, Decisions, Outcomes
<1>1. outcome[id] = "running" /\ ~Decided(id)
  BY DEF CallEnds, Decided
<1>2. id = Len(calls) /\ ~over /\ \A other \in Made : other # id => Decided(other)
  BY <1>1, UndecidedIsLast
<1>3. /\ outcome' \in Seq(Outcomes) /\ Len(outcome') = Len(calls)
      /\ outcome'[id] = "ran" /\ \A other \in Made \ {id} : outcome'[other] = outcome[other]
  BY BecomesThat DEF CallEnds, Refuse
<1>4. TypeOK'
  BY <1>1, <1>2, <1>3, MadeAreIds, KeysAreKeys DEF TypeOK, Answers, CallEnds, clientVars
<1>5. OneAtATime'
  BY <1>1, <1>2, <1>3, MadeAreIds DEF OneAtATime, Settled, Decided, CallEnds, clientVars
<1>6. AskedNeedsYes'
  BY <1>1, <1>2, <1>3, MadeAreIds DEF AskedNeedsYes, CallEnds, clientVars
<1>7. AnswersAreTheUsers'
  BY <1>1, <1>2, <1>3, MadeAreIds DEF AnswersAreTheUsers, CallEnds, clientVars
<1>8. GrantsAreTheUsers'
  BY <1>1, <1>2, <1>3, MadeAreIds DEF GrantsAreTheUsers, CallEnds, clientVars
<1>9. LateIsTheLast'
  BY <1>1, <1>2, <1>3, MadeAreIds DEF LateIsTheLast, CallEnds, clientVars
<1>10. RanOnlyApproved'
  BY <1>1, <1>2, <1>3, MadeAreIds DEF RanOnlyApproved, Started, Covers, CallEnds, clientVars
<1>11. OnlyTheAnswer'
  <2>1. extra = 0 /\ ~closed => wire = << >>
    BY <1>1, <1>2, WireIsTheAnswer DEF CallEnds
  <2>. QED  BY <1>1, <1>2, <1>3, <2>1, MadeAreIds DEF OnlyTheAnswer, CallEnds, clientVars
<1>. QED  BY <1>4, <1>5, <1>6, <1>7, <1>8, <1>9, <1>10, <1>11
\* Without a question only what is allowed or granted runs; a grant is an earlier
\* call's.
LEMMA ResolvedAloneKeepsInv ==
  ASSUME Inv, NEW id \in Made, ResolvedAlone(id)
  PROVE  Inv'
<1>. USE DEF Inv, Made, Approvals, Decisions, Outcomes
<1>1. outcome[id] = "resolving" /\ ~Decided(id)
  BY DEF ResolvedAlone, Decided
<1>2. id = Len(calls) /\ ~over /\ \A other \in Made : other # id => Decided(other)
  BY <1>1, UndecidedIsLast
<1>3. /\ outcome' \in Seq(Outcomes) /\ Len(outcome') = Len(calls)
      /\ outcome'[id] \in {"refused", "running"} /\ \A other \in Made \ {id} : outcome'[other]
           = outcome[other]
  BY BecomesThat DEF ResolvedAlone, Refuse, Run
<1>4. said[id] = "nothing"
  BY <1>1, MadeAreIds DEF AskedNeedsYes
<1>5. outcome'[id] = "running" =>
        /\ calls[id].tool \notin Barred
        /\ calls[id].tool \in Free \/ GrantKey(calls[id]) \in grants
  BY <1>1, BecomesThat DEF ResolvedAlone, Refuse
<1>6. late' = late \/ (late' = late \cup {id} /\ down)
  BY DEF ResolvedAlone, Refuse, Run
<1>7. UNCHANGED <<calls, wire, skipped, closed, grants, down, over, said, extra, garbled>>
  BY DEF ResolvedAlone, clientVars
<1>8. TypeOK'
  BY <1>1, <1>2, <1>3, <1>4, <1>5, <1>6, <1>7, MadeAreIds, KeysAreKeys DEF TypeOK, Answers
<1>9. OneAtATime'
  BY <1>1, <1>2, <1>3, <1>4, <1>5, <1>6, <1>7, MadeAreIds DEF OneAtATime, Settled, Decided
<1>10. AskedNeedsYes'
  BY <1>1, <1>2, <1>3, <1>4, <1>5, <1>6, <1>7, MadeAreIds DEF AskedNeedsYes
<1>11. AnswersAreTheUsers'
  BY <1>1, <1>2, <1>3, <1>4, <1>5, <1>6, <1>7, MadeAreIds DEF AnswersAreTheUsers
<1>12. GrantsAreTheUsers'
  BY <1>1, <1>2, <1>3, <1>4, <1>5, <1>6, <1>7, MadeAreIds DEF GrantsAreTheUsers
<1>13. LateIsTheLast'
  BY <1>1, <1>2, <1>3, <1>4, <1>5, <1>6, <1>7, MadeAreIds DEF LateIsTheLast
<1>14. RanOnlyApproved'
  <2>1. \A other \in Made : Started(other)' => Started(other) \/ other = id
    BY <1>3, <1>7 DEF Started
  <2>2. CASE GrantKey(calls[id]) \in grants
    <3>1. PICK one \in Made : said[one] = "approve_for_turn" /\ GrantKey(calls[one]) =
         GrantKey(calls[id])
      BY <2>2 DEF GrantsAreTheUsers
    <3>2. one \in 1 .. id - 1 /\ Covers(one, id)
      BY <1>2, <1>4, <3>1, SameKeyCovers, MadeAreIds
    <3>. QED  BY <1>5, <1>7, <2>1, <3>1, <3>2, MadeAreIds, <1>3 DEF RanOnlyApproved, Started,
         Covers
  <2>3. CASE GrantKey(calls[id]) \notin grants
    BY <1>3, <1>5, <1>7, <2>1, <2>3, MadeAreIds DEF RanOnlyApproved, Started, Covers
  <2>. QED  BY <2>2, <2>3
<1>15. OnlyTheAnswer'
  <2>1. extra = 0 /\ ~closed => wire = << >>
    BY <1>1, <1>2, WireIsTheAnswer
  <2>. QED  BY <1>2, <1>3, <1>4, <1>7, <2>1, MadeAreIds DEF OnlyTheAnswer
<1>. QED  BY <1>8, <1>9, <1>10, <1>11, <1>12, <1>13, <1>14, <1>15

\* An answer to another question decides nothing; only a client that sends more than the
\* user's answers has one on the wire.
LEMMA ReadsPastKeepsInv ==
  ASSUME Inv, NEW id \in Made, ReadsPast(id)
  PROVE  Inv'
<1>. USE DEF Inv, Made, Approvals, Decisions, Outcomes
<1>1. outcome[id] = "asked" /\ ~Decided(id)
  BY DEF ReadsPast, Decided
<1>2. id = Len(calls) /\ ~over /\ \A other \in Made : other # id => Decided(other)
  BY <1>1, UndecidedIsLast
<1>3. /\ outcome' \in Seq(Outcomes) /\ Len(outcome') = Len(calls)
      /\ outcome'[id] \in {"asked", "refused"}
      /\ \A other \in Made \ {id} : outcome'[other] = outcome[other]
  BY <1>1, BecomesThat, MadeAreIds DEF ReadsPast, Refuse
<1>4. /\ wire' \in Seq(Answers) /\ Len(wire) >= 1 /\ Len(wire') = Len(wire) - 1
      /\ Head(wire) = wire[1] /\ \A n \in 1 .. Len(wire') : wire'[n] = wire[n + 1]
  BY ReadsOne DEF ReadsPast
<1>5. UNCHANGED <<calls, closed, grants, down, over, said, extra, garbled, late>>
  BY DEF ReadsPast, clientVars, Refuse
<1>6. skipped' \in 0 .. MaxStale
  BY DEF ReadsPast, TypeOK
<1>7. ~(extra = 0 /\ ~closed)
  BY <1>2, <1>4, WireIsTheAnswer DEF ReadsPast, AnswersAnother
<1>8. TypeOK'
  BY <1>1, <1>2, <1>3, <1>4, <1>5, <1>6, <1>7, MadeAreIds, KeysAreKeys DEF TypeOK, Answers
<1>9. OneAtATime'
  BY <1>1, <1>2, <1>3, <1>4, <1>5, <1>6, <1>7, MadeAreIds DEF OneAtATime, Settled, Decided
<1>10. AskedNeedsYes'
  BY <1>1, <1>2, <1>3, <1>4, <1>5, <1>6, <1>7, MadeAreIds DEF AskedNeedsYes
<1>11. AnswersAreTheUsers'
  <2>1. \A n \in 1 .. Len(wire') : n + 1 \in 1 .. Len(wire)
    BY <1>4, MadeAreIds
  <2>. QED  BY <1>4, <1>5, <2>1 DEF AnswersAreTheUsers
<1>12. GrantsAreTheUsers'
  BY <1>1, <1>2, <1>3, <1>4, <1>5, <1>6, <1>7, MadeAreIds DEF GrantsAreTheUsers
<1>13. LateIsTheLast'
  BY <1>1, <1>2, <1>3, <1>4, <1>5, <1>6, <1>7, MadeAreIds DEF LateIsTheLast
<1>14. RanOnlyApproved'
  <2>1. \A other \in Made : Started(other)' => Started(other)
    BY <1>3 DEF Started
  <2>. QED  BY <1>5, <2>1 DEF RanOnlyApproved, Covers
<1>15. OnlyTheAnswer'
  BY <1>5, <1>7 DEF OnlyTheAnswer
<1>. QED  BY <1>8, <1>9, <1>10, <1>11, <1>12, <1>13, <1>14, <1>15

\* The answer to this question, with its arguments, is what the user said to it.
LEMMA ReadsKeepsInv ==
  ASSUME Inv, NEW id \in Made, Reads(id)
  PROVE  Inv'
<1>. USE DEF Inv, Made, Approvals, Decisions, Outcomes
<1>1. outcome[id] = "asked" /\ ~Decided(id)
  BY DEF Reads, Decided
<1>2. id = Len(calls) /\ ~over /\ \A other \in Made : other # id => Decided(other)
  BY <1>1, UndecidedIsLast
<1>3. /\ outcome' \in Seq(Outcomes) /\ Len(outcome') = Len(calls)
      /\ outcome'[id] \in {"running", "refused", "cancelled"}
      /\ \A other \in Made \ {id} : outcome'[other] = outcome[other]
  BY <1>1, BecomesThat, MadeAreIds DEF Reads, Answered, Refuse, Run
<1>4. /\ wire' \in Seq(Answers) /\ Len(wire) >= 1 /\ Len(wire') = Len(wire) - 1
      /\ Head(wire) = wire[1] /\ \A n \in 1 .. Len(wire') : wire'[n] = wire[n + 1]
  BY ReadsOne DEF Reads
<1>5. UNCHANGED <<calls, skipped, closed, down, said, extra, garbled>>
  BY DEF Reads, clientVars
<1>6. wire[1] \in Answers /\ wire[1].id = id
  BY <1>4, MadeAreIds DEF Reads, AnswersAnother
<1>7. Verify(id, wire[1]) # "deny" => said[id] = Verify(id, wire[1])
  <2>1. 1 \in 1 .. Len(wire)
    BY <1>4
  <2>2. wire[1].args = calls[id].args => said[id] = wire[1].decision
    BY <1>6, <2>1 DEF AnswersAreTheUsers
  <2>3. Verify(id, wire[1]) # "deny" =>
          wire[1].args = calls[id].args /\ Verify(id, wire[1]) = wire[1].decision
    BY DEF Verify
  <2>. QED  BY <2>2, <2>3
<1>8. /\ outcome'[id] = "running" => said[id] \in Approvals
      /\ late' = late \/ (late' = late \cup {id} /\ down)
      /\ \/ grants' = grants
         \/ said[id] = "approve_for_turn" /\ grants' = grants \cup {GrantKey(calls[id])}
      /\ over' = over \/ (over' = TRUE /\ outcome'[id] = "cancelled")
  BY <1>4, <1>7, BecomesThat DEF Reads, Answered, Refuse, Run
<1>9. TypeOK'
  <2>1. grants' \subseteq {<<t>> : t \in Tools} \cup (Tools \X Args)
    BY <1>8, KeysAreKeys DEF TypeOK
  <2>2. over' \in BOOLEAN
    BY <1>8, Zenon DEF TypeOK
  <2>3. late' \subseteq Ids
    BY <1>8, MadeAreIds DEF TypeOK
  <2>. QED  BY <1>3, <1>4, <1>5, <2>1, <2>2, <2>3, MadeAreIds DEF TypeOK, Answers
<1>10. OneAtATime'
  <2>1. \A other \in Made : other # id => Decided(other)'
    BY <1>2, <1>3 DEF Decided
  <2>2. \A other \in Made : other < Len(calls) => other # id
    BY <1>2, MadeAreIds
  <2>3. over' => outcome'[id] = "cancelled"
    BY <1>2, <1>8
  <2>. QED  BY <1>5, <2>1, <2>2, <2>3 DEF OneAtATime, Settled, Decided
<1>11. AskedNeedsYes'
  BY <1>1, <1>2, <1>3, <1>4, <1>5, <1>6, <1>7, <1>8, MadeAreIds DEF AskedNeedsYes
<1>12. AnswersAreTheUsers'
  <2>1. \A n \in 1 .. Len(wire') : n + 1 \in 1 .. Len(wire)
    BY <1>4, MadeAreIds
  <2>. QED  BY <1>4, <1>5, <2>1 DEF AnswersAreTheUsers
<1>13. GrantsAreTheUsers'
  <2>1. \A g \in grants' :
          g \in grants \/ (said[id] = "approve_for_turn" /\ g = GrantKey(calls[id]))
    BY <1>8
  <2>. QED  BY <1>5, <2>1 DEF GrantsAreTheUsers, GrantKey
<1>14. LateIsTheLast'
  BY <1>1, <1>2, <1>3, <1>4, <1>5, <1>6, <1>7, <1>8, MadeAreIds DEF LateIsTheLast
<1>15. RanOnlyApproved'
  <2>1. \A other \in Made : Started(other)' =>
          Started(other) \/ (other = id /\ said[id] \in Approvals)
    BY <1>3, <1>8 DEF Started
  <2>2. calls[id].tool \notin Barred
    BY <1>1, MadeAreIds DEF AskedNeedsYes
  <2>. QED  BY <1>5, <2>1, <2>2 DEF RanOnlyApproved, Covers
<1>16. OnlyTheAnswer'
  <2>1. SUFFICES ASSUME extra = 0, ~closed
                 PROVE  /\ wire' = << >>
                        /\ \A other \in Made : said[other] = "cancel" =>
                             outcome'[other] = "asked" \/ over'
    BY <1>5 DEF OnlyTheAnswer
  <2>2. wire # << >>
    BY DEF Reads
  <2>3. Len(wire) = 1 /\ wire[1].args = calls[id].args /\ said[id] = wire[1].decision
    BY <1>6, <2>1, <2>2, WireIsTheAnswer
  <2>4. wire' = << >>
    BY <1>4, <2>3, EmptySeq
  <2>5. said[id] = "cancel" => over'
    BY <1>4, <1>6, <2>3 DEF Reads, Verify, Answered
  <2>6. \A other \in Made \ {id} : said[other] = "cancel" => over
    BY <1>2, <2>1 DEF OnlyTheAnswer, Decided
  <2>. QED  BY <1>8, <2>4, <2>5, <2>6
<1>. QED  BY <1>9, <1>10, <1>11, <1>12, <1>13, <1>14, <1>15, <1>16

\* The next call begins when all others are decided on, and nobody has been asked about
\* it.
LEMMA CallBeginsKeepsInv ==
  ASSUME Inv, NEW tool \in Tools, NEW args \in Args, CallBegins(tool, args)
  PROVE  Inv'
<1>. USE DEF Inv, Made, Approvals, Decisions, Outcomes
<1>1. Settled /\ ~over /\ ~down /\ Len(calls) < MaxCalls
  BY DEF CallBegins, MayBegin
<1>2. \A id \in Made : Decided(id)
  BY <1>1 DEF Settled, Decided
<1>3. /\ calls' \in Seq([tool : Tools, args : Args]) /\ Len(calls') = Len(calls) + 1
      /\ \A id \in Made : calls'[id] = calls[id]
  BY AppendProperties DEF CallBegins, TypeOK
<1>4. /\ outcome' \in Seq(Outcomes) /\ Len(outcome') = Len(calls) + 1
      /\ outcome'[Len(calls) + 1] = "resolving"
      /\ \A id \in Made : outcome'[id] = outcome[id]
  BY MadeAreIds, AppendProperties DEF CallBegins
<1>5. UNCHANGED <<wire, skipped, closed, grants, down, over, said, extra, garbled, late>>
  BY DEF CallBegins, clientVars
<1>6. Made' = Made \cup {Len(calls) + 1} /\ Len(calls) + 1 \in Ids
  BY <1>1, <1>3, MadeAreIds DEF Ids
<1>7. said[Len(calls) + 1] = "nothing" /\ \A id \in Made : id # Len(calls) + 1
  BY <1>6, MadeAreIds DEF AskedNeedsYes
<1>8. TypeOK'
  BY <1>1, <1>2, <1>3, <1>4, <1>5, <1>6, <1>7, MadeAreIds, KeysAreKeys DEF TypeOK, Answers
<1>9. OneAtATime'
  <2>1. \A id \in Made' : id < Len(calls') => id \in Made
    BY <1>3, <1>6, MadeAreIds
  <2>2. \A id \in Made : Decided(id)'
    BY <1>2, <1>4 DEF Decided
  <2>3. ~over'
    BY <1>1, <1>5
  <2>. QED  BY <2>1, <2>2, <2>3 DEF OneAtATime
<1>10. AskedNeedsYes'
  BY <1>1, <1>2, <1>3, <1>4, <1>5, <1>6, <1>7, MadeAreIds DEF AskedNeedsYes
<1>11. AnswersAreTheUsers'
  BY <1>1, <1>2, <1>3, <1>4, <1>5, <1>6, <1>7, MadeAreIds DEF AnswersAreTheUsers
<1>12. GrantsAreTheUsers'
  BY <1>1, <1>2, <1>3, <1>4, <1>5, <1>6, <1>7, MadeAreIds DEF GrantsAreTheUsers
<1>13. LateIsTheLast'
  BY <1>1, <1>2, <1>3, <1>4, <1>5, <1>6, <1>7, MadeAreIds DEF LateIsTheLast
<1>14. RanOnlyApproved'
  <2>1. \A id \in Made' : Started(id)' => id \in Made /\ Started(id)
    BY <1>4, <1>6 DEF Started
  <2>2. \A id \in Made : \A earlier \in 1 .. id - 1 :
          earlier \in Made /\ (Covers(earlier, id) => Covers(earlier, id)')
    BY <1>3, MadeAreIds DEF Covers
  <2>3. \A id \in Made : calls'[id] = calls[id]
    BY <1>3
  <2>. QED  BY <1>5, <2>1, <2>2, <2>3 DEF RanOnlyApproved
<1>15. OnlyTheAnswer'
  <2>1. extra = 0 /\ ~closed => wire = << >>
    BY <1>2, WireIsTheAnswer
  <2>. QED  BY <1>2, <1>3, <1>4, <1>5, <1>6, <1>7, <2>1, MadeAreIds DEF OnlyTheAnswer, Decided
<1>. QED  BY <1>8, <1>9, <1>10, <1>11, <1>12, <1>13, <1>14, <1>15

\* The turn ends between two calls.
LEMMA TurnEndsKeepsInv ==
  ASSUME Inv, TurnEnds
  PROVE  Inv'
<1>. USE DEF Inv, Made, Approvals, Decisions, Outcomes
<1>1. UNCHANGED <<calls, outcome, wire, skipped, closed, grants, said, extra, garbled, late>>
  BY DEF TurnEnds, clientVars
<1>2. TypeOK'
  BY <1>1, MadeAreIds, KeysAreKeys DEF TypeOK, Answers, TurnEnds
<1>3. OneAtATime'
  BY <1>1, MadeAreIds DEF OneAtATime, Settled, Decided, TurnEnds
<1>4. AskedNeedsYes'
  BY <1>1, MadeAreIds DEF AskedNeedsYes, TurnEnds
<1>5. AnswersAreTheUsers'
  BY <1>1, MadeAreIds DEF AnswersAreTheUsers, TurnEnds
<1>6. GrantsAreTheUsers'
  BY <1>1, MadeAreIds DEF GrantsAreTheUsers, TurnEnds
<1>7. LateIsTheLast'
  BY <1>1, MadeAreIds DEF LateIsTheLast, TurnEnds
<1>8. RanOnlyApproved'
  BY <1>1, MadeAreIds DEF RanOnlyApproved, Started, Covers, TurnEnds
<1>9. OnlyTheAnswer'
  BY <1>1, MadeAreIds DEF OnlyTheAnswer, Settled, Decided, TurnEnds
<1>. QED  BY <1>2, <1>3, <1>4, <1>5, <1>6, <1>7, <1>8, <1>9

\* A shutdown changes nothing by itself.
LEMMA CancelledKeepsInv ==
  ASSUME Inv, Cancelled
  PROVE  Inv'
<1>. USE DEF Inv, Made, Approvals, Decisions, Outcomes
<1>1. UNCHANGED <<calls, outcome, wire, skipped, closed, grants, said, extra, garbled, late>>
  BY DEF Cancelled, clientVars
<1>2. TypeOK'
  BY <1>1, MadeAreIds, KeysAreKeys DEF TypeOK, Answers, Cancelled
<1>3. OneAtATime'
  BY <1>1, MadeAreIds DEF OneAtATime, Settled, Decided, Cancelled
<1>4. AskedNeedsYes'
  BY <1>1, MadeAreIds DEF AskedNeedsYes, Cancelled
<1>5. AnswersAreTheUsers'
  BY <1>1, MadeAreIds DEF AnswersAreTheUsers, Cancelled
<1>6. GrantsAreTheUsers'
  BY <1>1, MadeAreIds DEF GrantsAreTheUsers, Cancelled
<1>7. LateIsTheLast'
  BY <1>1, MadeAreIds DEF LateIsTheLast, Cancelled
<1>8. RanOnlyApproved'
  BY <1>1, MadeAreIds DEF RanOnlyApproved, Started, Covers, Cancelled
<1>9. OnlyTheAnswer'
  BY <1>1, MadeAreIds DEF OnlyTheAnswer, Settled, Decided, Cancelled
<1>. QED  BY <1>2, <1>3, <1>4, <1>5, <1>6, <1>7, <1>8, <1>9

-----------------------------------------------------------------------------
\* The client.

LEMMA UserAnswersKeepsInv ==
  ASSUME Inv, NEW id \in Made, NEW decision \in Decisions, UserAnswers(id, decision)
  PROVE  Inv'
<1>. USE DEF Inv, Made, Approvals, Decisions, Outcomes
<1>1. outcome[id] = "asked" /\ ~Decided(id)
  BY DEF UserAnswers, Decided
<1>2. id = Len(calls) /\ ~over /\ \A other \in Made : other # id => Decided(other)
  BY <1>1, UndecidedIsLast
<1>3. AnswerTo(id, decision) \in Answers
  BY MadeAreIds DEF AnswerTo, Answers
<1>4. /\ wire' \in Seq(Answers) /\ Len(wire') = Len(wire) + 1
      /\ wire'[Len(wire) + 1] = AnswerTo(id, decision)
      /\ \A n \in 1 .. Len(wire) : wire'[n] = wire[n]
  BY <1>3, SendsThat DEF UserAnswers
<1>5. UNCHANGED <<calls, outcome, skipped, closed, grants, down, over, extra, garbled, late>>
  BY DEF UserAnswers
<1>6. /\ said[id] = "nothing" /\ id \in Ids /\ said' \in [Ids -> Decisions \cup {"nothing"}]
      /\ said'[id] = decision /\ \A other \in Ids : other # id => said'[other] = said[other]
  BY MadeAreIds DEF UserAnswers, TypeOK
<1>7. TypeOK'
  BY <1>1, <1>2, <1>3, <1>4, <1>5, <1>6, MadeAreIds, KeysAreKeys DEF TypeOK, Answers
<1>8. OneAtATime'
  BY <1>1, <1>2, <1>3, <1>4, <1>5, <1>6, MadeAreIds DEF OneAtATime, Settled, Decided
<1>9. AskedNeedsYes'
  BY <1>1, <1>2, <1>3, <1>4, <1>5, <1>6, MadeAreIds DEF AskedNeedsYes
<1>10. AnswersAreTheUsers'
  <2>1. \A n \in 1 .. Len(wire) : wire[n].args = calls[wire[n].id].args => wire[n].id # id
    BY <1>6, MadeAreIds DEF AnswersAreTheUsers, Answers
  <2>2. \A n \in 1 .. Len(wire) : wire[n].id \in Ids
    BY MadeAreIds DEF Answers
  <2>3. \A n \in 1 .. Len(wire') : n = Len(wire) + 1 \/ n \in 1 .. Len(wire)
    BY <1>4, MadeAreIds
  <2>4. AnswerTo(id, decision).id = id /\ AnswerTo(id, decision).decision = decision
    BY DEF AnswerTo
  <2>. QED  BY <1>4, <1>5, <1>6, <2>1, <2>2, <2>3, <2>4 DEF AnswersAreTheUsers
<1>11. GrantsAreTheUsers'
  BY <1>1, <1>2, <1>3, <1>4, <1>5, <1>6, MadeAreIds DEF GrantsAreTheUsers
<1>12. LateIsTheLast'
  BY <1>1, <1>2, <1>3, <1>4, <1>5, <1>6, MadeAreIds DEF LateIsTheLast
<1>13. RanOnlyApproved'
  <2>1. SUFFICES ASSUME NEW other \in Made, Started(other)'
                 PROVE  /\ calls[other].tool \notin Barred
                        /\ \/ calls[other].tool \in Free
                           \/ said'[other] \in Approvals
                           \/ \E earlier \in 1 .. other - 1 :
                                said'[earlier] = "approve_for_turn" /\ Covers(earlier, other)
    BY <1>5 DEF RanOnlyApproved, Covers
  <2>2. Started(other)
    BY <1>5, <2>1 DEF Started
  <2>3. \A one \in Ids : said[one] # "nothing" => said'[one] = said[one]
    BY <1>6
  <2>4. other \in Ids /\ 1 .. other - 1 \subseteq Ids
    BY MadeAreIds DEF Ids
  <2>5. /\ calls[other].tool \notin Barred
        /\ \/ calls[other].tool \in Free
           \/ said[other] \in Approvals
           \/ \E earlier \in 1 .. other - 1 :
                said[earlier] = "approve_for_turn" /\ Covers(earlier, other)
    BY <2>2 DEF RanOnlyApproved
  <2>. QED  BY <2>3, <2>4, <2>5
<1>14. OnlyTheAnswer'
  <2>1. SUFFICES ASSUME extra = 0, ~closed
                 PROVE  /\ Len(wire') = 1 /\ outcome[wire'[1].id] = "asked"
                        /\ wire'[1].args = calls[wire'[1].id].args
                        /\ \A other \in Made :
                             said'[other] = "cancel" => outcome[other] = "asked" \/ over
    BY <1>5 DEF OnlyTheAnswer
  <2>2. wire # << >> => said[wire[1].id] # "nothing" /\ wire[1].id = id
    BY <1>2, <2>1, WireIsTheAnswer, MadeAreIds DEF Answers
  <2>3. wire = << >>
    BY <1>6, <2>2
  <2>4. Len(wire') = 1 /\ wire'[1] = AnswerTo(id, decision)
    BY <1>4, <2>3, EmptySeq
  <2>5. AnswerTo(id, decision).id = id /\ AnswerTo(id, decision).args = calls[id].args
    BY DEF AnswerTo
  <2>6. \A other \in Made : said'[other] = "cancel" => outcome[other] = "asked" \/ over
    BY <1>1, <1>6, <2>1, MadeAreIds DEF OnlyTheAnswer
  <2>. QED  BY <1>1, <2>4, <2>5, <2>6
<1>. QED  BY <1>7, <1>8, <1>9, <1>10, <1>11, <1>12, <1>13, <1>14

\* A repeated answer says what the user said.
LEMMA ClientRepeatsKeepsInv ==
  ASSUME Inv, NEW id \in Made, ClientRepeats(id)
  PROVE  Inv'
<1>. USE DEF Inv, Made, Approvals, Decisions, Outcomes
<1>1. id \in Ids /\ said[id] \in Decisions
  BY MadeAreIds DEF ClientRepeats, TypeOK
<1>2. AnswerTo(id, said[id]) \in Answers
  BY <1>1, MadeAreIds DEF AnswerTo, Answers
<1>3. /\ wire' \in Seq(Answers) /\ Len(wire') = Len(wire) + 1
      /\ wire'[Len(wire) + 1] = AnswerTo(id, said[id])
      /\ \A n \in 1 .. Len(wire) : wire'[n] = wire[n]
  BY <1>2, SendsThat DEF ClientRepeats
<1>4. UNCHANGED <<calls, outcome, skipped, closed, grants, down, over, said, garbled, late>>
  BY DEF ClientRepeats
<1>5. extra' \in 1 .. MaxExtra
  BY DEF ClientRepeats, TypeOK
<1>6. TypeOK'
  BY <1>1, <1>2, <1>3, <1>4, <1>5, MadeAreIds, KeysAreKeys DEF TypeOK, Answers
<1>7. OneAtATime'
  BY <1>1, <1>2, <1>3, <1>4, <1>5, MadeAreIds DEF OneAtATime, Settled, Decided
<1>8. AskedNeedsYes'
  BY <1>1, <1>2, <1>3, <1>4, <1>5, MadeAreIds DEF AskedNeedsYes
<1>9. AnswersAreTheUsers'
  <2>1. \A n \in 1 .. Len(wire') : n = Len(wire) + 1 \/ n \in 1 .. Len(wire)
    BY <1>3, MadeAreIds
  <2>2. AnswerTo(id, said[id]).id = id /\ AnswerTo(id, said[id]).decision = said[id]
    BY DEF AnswerTo
  <2>. QED  BY <1>3, <1>4, <2>1, <2>2 DEF AnswersAreTheUsers
<1>10. GrantsAreTheUsers'
  BY <1>1, <1>2, <1>3, <1>4, <1>5, MadeAreIds DEF GrantsAreTheUsers
<1>11. LateIsTheLast'
  BY <1>1, <1>2, <1>3, <1>4, <1>5, MadeAreIds DEF LateIsTheLast
<1>12. RanOnlyApproved'
  BY <1>1, <1>2, <1>3, <1>4, <1>5, MadeAreIds DEF RanOnlyApproved, Started, Covers
<1>13. OnlyTheAnswer'
  BY <1>1, <1>2, <1>3, <1>4, <1>5, MadeAreIds DEF OnlyTheAnswer, Settled, Decided
<1>. QED  BY <1>6, <1>7, <1>8, <1>9, <1>10, <1>11, <1>12, <1>13

\* An answer with other arguments speaks for no call.
LEMMA ClientGarblesKeepsInv ==
  ASSUME Inv, NEW id \in Made, NEW args \in Args, ClientGarbles(id, args)
  PROVE  Inv'
<1>. USE DEF Inv, Made, Approvals, Decisions, Outcomes
<1>1. id \in Ids /\ args # calls[id].args
  BY MadeAreIds DEF ClientGarbles
<1>2. [id |-> id, args |-> args, decision |-> "approve"] \in Answers
  BY <1>1 DEF Answers
<1>3. /\ wire' \in Seq(Answers) /\ Len(wire') = Len(wire) + 1
      /\ wire'[Len(wire) + 1] = [id |-> id, args |-> args, decision |-> "approve"]
      /\ \A n \in 1 .. Len(wire) : wire'[n] = wire[n]
  BY <1>2, SendsThat DEF ClientGarbles
<1>4. UNCHANGED <<calls, outcome, skipped, closed, grants, down, over, said, late>>
  BY DEF ClientGarbles
<1>5. extra' \in 1 .. MaxExtra /\ garbled' \subseteq Ids
  BY <1>1 DEF ClientGarbles, TypeOK
<1>6. TypeOK'
  BY <1>1, <1>2, <1>3, <1>4, <1>5, MadeAreIds, KeysAreKeys DEF TypeOK, Answers
<1>7. OneAtATime'
  BY <1>4, MadeAreIds DEF OneAtATime, Settled, Decided
<1>8. AskedNeedsYes'
  BY <1>4, MadeAreIds DEF AskedNeedsYes
<1>9. AnswersAreTheUsers'
  <2>. DEFINE answer == [id |-> id, args |-> args, decision |-> "approve"]
  <2>1. \A n \in 1 .. Len(wire') : n = Len(wire) + 1 \/ n \in 1 .. Len(wire)
    BY <1>3, MadeAreIds
  <2>2. answer.id = id /\ answer.args # calls[id].args
    BY <1>1
  <2>3. wire'[Len(wire) + 1] = answer
    BY <1>3
  <2>. HIDE DEF answer
  <2>. QED  BY <1>3, <1>4, <2>1, <2>2, <2>3 DEF AnswersAreTheUsers
<1>10. GrantsAreTheUsers'
  BY <1>4, MadeAreIds DEF GrantsAreTheUsers
<1>11. LateIsTheLast'
  BY <1>4, MadeAreIds DEF LateIsTheLast
<1>12. RanOnlyApproved'
  BY <1>4, MadeAreIds DEF RanOnlyApproved, Started, Covers
<1>13. OnlyTheAnswer'
  BY <1>1, <1>2, <1>3, <1>4, <1>5, MadeAreIds DEF OnlyTheAnswer, Settled, Decided
<1>. QED  BY <1>6, <1>7, <1>8, <1>9, <1>10, <1>11, <1>12, <1>13

-----------------------------------------------------------------------------
\* The invariant holds in every initial state.
LEMMA InitInv == Init => Inv
<1>. SUFFICES ASSUME Init
              PROVE  Inv
  OBVIOUS
<1>1. TypeOK
  <2>1. 0 \in 0 .. MaxStale /\ 0 \in 0 .. MaxExtra /\ 0 <= MaxCalls
    OBVIOUS
  <2>2. closed \in BOOLEAN /\ down \in BOOLEAN /\ over \in BOOLEAN
    BY Zenon DEF Init
  <2>3. Len(calls) = 0 /\ Len(outcome) = 0
    BY DEF Init
  <2>. QED  BY <2>1, <2>2, <2>3, EmptySeq DEF Init, TypeOK
<1>2. Made = {} /\ Len(wire) = 0 /\ \A id \in Ids : said[id] = "nothing"
  BY DEF Init, Made
<1>3. OneAtATime /\ AskedNeedsYes /\ AnswersAreTheUsers /\ GrantsAreTheUsers
  BY <1>2 DEF Init, OneAtATime, AskedNeedsYes, AnswersAreTheUsers, GrantsAreTheUsers
<1>4. LateIsTheLast /\ RanOnlyApproved /\ OnlyTheAnswer
  BY <1>2 DEF Init, LateIsTheLast, RanOnlyApproved, OnlyTheAnswer
<1>. QED  BY <1>1, <1>3, <1>4 DEF Inv

\* Every step keeps the invariant.
LEMMA NextKeepsInv == ASSUME Inv, [Next]_vars PROVE Inv'
<1>1. CASE \E tool \in Tools, args \in Args : CallBegins(tool, args)
  BY <1>1, CallBeginsKeepsInv, Zenon
<1>2. CASE \E id \in Made : Resolves(id)
  BY <1>2, ResolvedAloneKeepsInv, AsksKeepsInv, CannotAskKeepsInv, NoAnswerKeepsInv,
     ReadsPastKeepsInv, ReadsKeepsInv, CallEndsKeepsInv, Zenon DEF Resolves
<1>3. CASE \E id \in Made : Client(id)
  BY <1>3, UserAnswersKeepsInv, ClientRepeatsKeepsInv, ClientGarblesKeepsInv, Zenon DEF Client
<1>4. CASE TurnEnds \/ Cancelled
  BY <1>4, TurnEndsKeepsInv, CancelledKeepsInv, Zenon
<1>5. CASE UNCHANGED vars
  BY <1>5 DEF vars, Inv, TypeOK, OneAtATime, Settled, Decided, Made, AskedNeedsYes,
              AnswersAreTheUsers, GrantsAreTheUsers, LateIsTheLast, RanOnlyApproved, Started,
              Covers, OnlyTheAnswer
<1>. QED  BY <1>1, <1>2, <1>3, <1>4, <1>5, Zenon DEF Next

\* The inductive invariant of the turn's approvals.
THEOREM InvHolds == Spec => []Inv
<1>. QED  BY InitInv, NextKeepsInv, PTL DEF Spec

\* Whatever answers come late, twice, to another question or with other arguments, no
\* tool runs that the configuration does not allow and the user did not approve.
THEOREM ToolsRanOnlyApproved == Spec => []RanOnlyApproved
<1>1. Inv => RanOnlyApproved
  BY DEF Inv
<1>. QED  BY <1>1, InvHolds, PTL

\* A shutdown starts no tool but the one that was being decided on.
THEOREM ShutdownStartsOne == Spec => []OneStartAfterShutdown
<1>1. Inv => OneStartAfterShutdown
  <2>. SUFFICES ASSUME Inv
                PROVE  OneStartAfterShutdown
    OBVIOUS
  <2>1. late = {} \/ late = {Len(calls)}
    BY DEF Inv, LateIsTheLast
  <2>2. Cardinality(late) \in {0, 1}
    BY <2>1, FS_EmptySet, FS_Singleton, Zenon
  <2>. QED  BY <2>2 DEF OneStartAfterShutdown
<1>. QED  BY <1>1, InvHolds, PTL

-----------------------------------------------------------------------------
\* Once the user's stop was heard nothing begins.
LEMMA StoppedStays ==
  ASSUME Inv, [Next]_vars, Stopped
  PROVE  UNCHANGED calls /\ \A id \in Made : Started(id)' => Started(id)
<1>1. over /\ Settled
  BY DEF Inv, OnlyTheAnswer, OneAtATime, Stopped
<1>2. \A id \in Made : outcome[id] \in {"ran", "refused", "cancelled"}
  BY <1>1 DEF Settled
<1>3. ASSUME NEW id \in Made, Resolves(id)
      PROVE  FALSE
  BY <1>2, <1>3 DEF Resolves, ResolvedAlone, Asks, CannotAsk, NeedsYes, NoAnswer, ReadsPast,
                    Reads, CallEnds
<1>4. ASSUME NEW id \in Made, Client(id)
      PROVE  UNCHANGED <<calls, outcome>>
  BY <1>4 DEF Client, UserAnswers, ClientRepeats, ClientGarbles
<1>5. ASSUME NEW tool \in Tools, NEW args \in Args, CallBegins(tool, args)
      PROVE  FALSE
  BY <1>1, <1>5 DEF CallBegins, MayBegin
<1>6. TurnEnds \/ Cancelled \/ UNCHANGED vars => UNCHANGED <<calls, outcome>>
  BY DEF TurnEnds, Cancelled, vars
<1>7. UNCHANGED <<calls, outcome>>
  BY <1>3, <1>4, <1>5, <1>6, Zenon DEF Next
<1>. QED  BY <1>7 DEF Started

\* A turn that the user stopped makes no call and starts none.
THEOREM StopIsKept == Spec => StoppedMeansStopped
<1>1. Inv /\ [Next]_vars => [Stopped => UNCHANGED calls
                                         /\ \A id \in Made : Started(id)' => Started(id)]_vars
  BY StoppedStays
<1>. QED  BY <1>1, InvHolds, PTL DEF Spec, StoppedMeansStopped

-----------------------------------------------------------------------------
\* The user's yes is heard.  An answer to a question that was decided on is one too many,
\* as each took its first; so what is read past was extra, and there are no more of those
\* on the wire than the daemon is ready to read past, before the answer to the question.

OpenAnswered(id) == outcome[id] = "asked" /\ said[id] # "nothing"

\* Other arguments than those of the call are the client's doing.
GarbledAreKnown ==
  \A n \in 1 .. Len(wire) :
    wire[n].args = calls[wire[n].id].args \/ wire[n].id \in garbled

\* The answer to the open question is still to be read.
OpenAnswerIsOnWire ==
  \A id \in Made : OpenAnswered(id) => \E n \in 1 .. Len(wire) : wire[n].id = id

\* But for the answer to the open question, what is on the wire or was read past is extra.
LeftoversAreExtra ==
  ~closed /\ extra <= MaxStale =>
    \/ Len(wire) + skipped <= extra
    \/ Len(wire) + skipped <= extra + 1 /\ \E id \in Made : OpenAnswered(id)

HeardInv == YesIsHeard /\ GarbledAreKnown /\ OpenAnswerIsOnWire /\ LeftoversAreExtra

\* Steps that touch neither the wire nor the client: what they refuse has no answer yet,
\* or closes the channel.
LEMMA QuietKeepsHeardInv ==
  ASSUME Inv, HeardInv, UNCHANGED <<wire, said, extra, garbled>>,
         skipped' \in 0 .. skipped, closed => closed',
         Made \subseteq Made', \A id \in Made : calls'[id] = calls[id],
         \A id \in Made' : outcome'[id] = "refused" =>
           (id \in Made /\ outcome[id] = "refused") \/ said[id] = "nothing" \/ closed',
         \A id \in Made' : outcome'[id] = "asked" =>
           (id \in Made /\ outcome[id] = "asked") \/ said[id] = "nothing",
         \A id \in Made : OpenAnswered(id) => closed' \/ outcome'[id] = "asked"
  PROVE  HeardInv'
<1>0. /\ Len(wire) \in Nat /\ skipped \in Nat /\ extra \in Nat
      /\ \A n \in 1 .. Len(wire) : wire[n].id \in Made
  BY MadeAreIds DEF Inv, TypeOK, AnswersAreTheUsers
<1>1. YesIsHeard'
  <2>1. SUFFICES ASSUME NEW id \in Made', said[id] \in Approvals, outcome'[id] = "refused",
                        ~closed'
                 PROVE  extra > MaxStale \/ id \in garbled
    BY DEF YesIsHeard
  <2>2. id \in Made /\ outcome[id] = "refused" /\ ~closed
    BY <2>1 DEF Approvals
  <2>. QED  BY <2>1, <2>2 DEF HeardInv, YesIsHeard
<1>2. GarbledAreKnown'
  BY <1>0 DEF HeardInv, GarbledAreKnown
<1>3. OpenAnswerIsOnWire'
  BY DEF HeardInv, OpenAnswerIsOnWire, OpenAnswered
<1>4. LeftoversAreExtra'
  <2>1. SUFFICES ASSUME ~closed', extra <= MaxStale
                 PROVE  \/ Len(wire) + skipped' <= extra
                        \/ /\ Len(wire) + skipped' <= extra + 1
                           /\ \E id \in Made' : OpenAnswered(id)'
    BY DEF LeftoversAreExtra
  <2>2. (\E id \in Made : OpenAnswered(id)) => \E id \in Made' : OpenAnswered(id)'
    BY <2>1 DEF OpenAnswered
  <2>3. \/ Len(wire) + skipped <= extra
        \/ Len(wire) + skipped <= extra + 1 /\ \E id \in Made' : OpenAnswered(id)'
    BY <2>1, <2>2 DEF HeardInv, LeftoversAreExtra
  <2>4. skipped' \in Nat /\ skipped' <= skipped
    BY <1>0
  <2>5. CASE Len(wire) + skipped <= extra
    BY <1>0, <2>4, <2>5
  <2>6. CASE Len(wire) + skipped <= extra + 1 /\ \E id \in Made' : OpenAnswered(id)'
    <3>1. Len(wire) + skipped' <= extra + 1
      BY <1>0, <2>4, <2>6
    <3>. QED  BY <2>6, <3>1
  <2>. QED  BY <2>3, <2>5, <2>6
<1>. QED  BY <1>1, <1>2, <1>3, <1>4 DEF HeardInv

\* The daemon's steps that read no answer.
LEMMA DecidesKeepsHeardInv ==
  ASSUME Inv, HeardInv, NEW id \in Made,
         ResolvedAlone(id) \/ Asks(id) \/ CannotAsk(id) \/ NoAnswer(id) \/ CallEnds(id)
  PROVE  HeardInv'
<1>. USE DEF Outcomes
<1>0. TypeOK /\ skipped \in Nat
  BY DEF Inv, TypeOK
<1>1. UNCHANGED <<calls, wire, said, extra, garbled>> /\ (closed => closed')
  BY DEF ResolvedAlone, Asks, CannotAsk, NoAnswer, CallEnds, clientVars
<1>2. skipped' \in 0 .. skipped
  BY <1>0 DEF ResolvedAlone, Asks, CannotAsk, NoAnswer, CallEnds
<1>3. PICK what \in Outcomes : Becomes(id, what)
  BY DEF ResolvedAlone, Asks, CannotAsk, NoAnswer, CallEnds, Refuse, Run
<1>4. /\ outcome'[id] = what /\ \A other \in Made \ {id} : outcome'[other] = outcome[other]
      /\ Len(outcome') = Len(calls)
  BY <1>0, <1>3, BecomesThat
<1>5. Made' = Made
  BY <1>1 DEF Made
<1>6. outcome[id] = "resolving" => said[id] = "nothing"
  BY MadeAreIds DEF Inv, AskedNeedsYes
<1>7. outcome'[id] = "refused" => said[id] = "nothing" \/ closed'
  <2>1. CASE ResolvedAlone(id) \/ Asks(id)
    BY <1>6, <2>1 DEF ResolvedAlone, Asks, NeedsYes
  <2>2. CASE CannotAsk(id) \/ NoAnswer(id)
    BY <2>2 DEF CannotAsk, NoAnswer
  <2>3. CASE CallEnds(id)
    BY <1>0, <2>3, BecomesThat DEF CallEnds
  <2>. QED  BY <2>1, <2>2, <2>3
<1>8. outcome'[id] = "asked" => said[id] = "nothing"
  <2>1. CASE ResolvedAlone(id) \/ Asks(id) \/ CannotAsk(id)
    BY <1>6, <2>1 DEF ResolvedAlone, Asks, CannotAsk, NeedsYes
  <2>2. CASE NoAnswer(id) \/ CallEnds(id)
    BY <1>0, <2>2, BecomesThat DEF NoAnswer, CallEnds, Refuse
  <2>. QED  BY <2>1, <2>2
<1>9. OpenAnswered(id) => closed'
  BY DEF OpenAnswered, ResolvedAlone, Asks, CannotAsk, NoAnswer, CallEnds, NeedsYes
<1>10. \A other \in Made : other # id /\ OpenAnswered(other) => outcome'[other] = "asked"
  BY <1>4 DEF OpenAnswered
<1>. QED  BY <1>1, <1>2, <1>4, <1>5, <1>7, <1>8, <1>9, <1>10, QuietKeepsHeardInv

\* A call is made, the turn ends or is cancelled.
LEMMA TurnKeepsHeardInv ==
  ASSUME Inv, HeardInv,
         \/ \E tool \in Tools, args \in Args : CallBegins(tool, args)
         \/ TurnEnds \/ Cancelled \/ UNCHANGED vars
  PROVE  HeardInv'
<1>0. /\ TypeOK /\ skipped \in Nat /\ Len(calls) \in Nat /\ Len(outcome) = Len(calls)
      /\ outcome \in Seq(Outcomes) /\ calls \in Seq([tool : Tools, args : Args])
  BY MadeAreIds DEF Inv, TypeOK
<1>1. UNCHANGED <<wire, said, extra, garbled, closed, skipped>>
  BY DEF CallBegins, TurnEnds, Cancelled, vars, clientVars
<1>2. CASE UNCHANGED <<calls, outcome>>
  <2>1. Made' = Made
    BY <1>2 DEF Made
  <2>. QED  BY <1>0, <1>1, <1>2, <2>1, QuietKeepsHeardInv DEF OpenAnswered
<1>3. ASSUME NEW tool \in Tools, NEW args \in Args, CallBegins(tool, args)
      PROVE  HeardInv'
  <2>. DEFINE call == [tool |-> tool, args |-> args]
  <2>1. calls' = Append(calls, call) /\ outcome' = Append(outcome, "resolving")
    BY <1>3 DEF CallBegins
  <2>2. Len(calls') = Len(calls) + 1 /\ \A n \in 1 .. Len(calls) : calls'[n] = calls[n]
    BY <1>0, <2>1, AppendProperties
  <2>3. /\ outcome'[Len(calls) + 1] = "resolving"
        /\ \A n \in 1 .. Len(calls) : outcome'[n] = outcome[n]
    BY <1>0, <2>1, AppendProperties DEF Outcomes
  <2>4. Made \subseteq Made' /\ \A n \in Made' : n \in Made \/ n = Len(calls) + 1
    BY <1>0, <2>2 DEF Made
  <2>5. \A n \in Made : calls'[n] = calls[n] /\ outcome'[n] = outcome[n]
    BY <2>2, <2>3 DEF Made
  <2>6. \A n \in Made' : outcome'[n] \in {"refused", "asked"} => n \in Made
    BY <2>3, <2>4
  <2>7. \A n \in Made : OpenAnswered(n) => outcome'[n] = "asked"
    BY <2>5 DEF OpenAnswered
  <2>8. skipped' \in 0 .. skipped
    BY <1>0, <1>1
  <2>. QED  BY <1>1, <2>4, <2>5, <2>6, <2>7, <2>8, QuietKeepsHeardInv
<1>4. TurnEnds \/ Cancelled \/ UNCHANGED vars => UNCHANGED <<calls, outcome>>
  BY DEF TurnEnds, Cancelled, vars
<1>. QED  BY <1>2, <1>3, <1>4

\* An answer is read past only where another is left, to the question.
LEMMA ReadsPastKeepsHeardInv ==
  ASSUME Inv, HeardInv, NEW id \in Made, ReadsPast(id)
  PROVE  HeardInv'
<1>. USE DEF Outcomes
<1>0. /\ TypeOK /\ skipped \in 0 .. MaxStale /\ extra \in Nat /\ Len(wire) \in Nat
      /\ outcome[id] = "asked" /\ wire # << >> /\ wire' = Tail(wire)
      /\ AnswersAnother(id, Head(wire))
  BY MadeAreIds DEF Inv, TypeOK, ReadsPast
<1>1. /\ Len(wire) >= 1 /\ Len(wire') = Len(wire) - 1 /\ wire[1].id # id
      /\ \A n \in 1 .. Len(wire') : wire'[n] = wire[n + 1]
  BY <1>0, ReadsOne DEF AnswersAnother
<1>2. UNCHANGED <<calls, closed, said, extra, garbled>> /\ Made' = Made
  BY DEF ReadsPast, clientVars, Made
<1>3. \A other \in Made : other # id => ~OpenAnswered(other)
  <2>1. ~Decided(id)
    BY <1>0 DEF Decided
  <2>. QED  BY <1>0, <2>1, UndecidedIsLast DEF Inv, Decided, OpenAnswered
<1>4. GarbledAreKnown'
  <2>1. \A n \in 1 .. Len(wire') : n + 1 \in 1 .. Len(wire)
    BY <1>0, <1>1
  <2>. QED  BY <1>1, <1>2, <2>1 DEF HeardInv, GarbledAreKnown
\* The answer to the question is not the one that was read.
<1>5. OpenAnswered(id) => \E n \in 1 .. Len(wire') : wire'[n].id = id
  <2>1. SUFFICES ASSUME OpenAnswered(id)
                 PROVE  \E n \in 1 .. Len(wire') : wire'[n].id = id
    OBVIOUS
  <2>2. PICK n \in 1 .. Len(wire) : wire[n].id = id
    BY <2>1 DEF HeardInv, OpenAnswerIsOnWire
  <2>3. n # 1 /\ n - 1 \in 1 .. Len(wire') /\ (n - 1) + 1 = n
    BY <1>0, <1>1, <2>2
  <2>4. wire'[n - 1] = wire[n]
    BY <1>1, <2>3
  <2>. QED  BY <2>2, <2>3, <2>4
<1>6. CASE skipped < MaxStale
  <2>1. skipped' = skipped + 1 /\ UNCHANGED outcome
    BY <1>6 DEF ReadsPast
  <2>2. YesIsHeard'
    BY <1>2, <2>1 DEF HeardInv, YesIsHeard
  <2>3. OpenAnswerIsOnWire'
    BY <1>2, <1>3, <1>5, <2>1 DEF OpenAnswerIsOnWire, OpenAnswered
  <2>4. LeftoversAreExtra'
    <3>1. Len(wire') + skipped' = Len(wire) + skipped
      BY <1>0, <1>1, <2>1
    <3>2. (\E other \in Made : OpenAnswered(other)) => \E other \in Made' : OpenAnswered(other)'
      BY <1>2, <2>1 DEF OpenAnswered
    <3>. QED  BY <1>2, <3>1, <3>2 DEF HeardInv, LeftoversAreExtra
  <2>. QED  BY <1>4, <2>2, <2>3, <2>4 DEF HeardInv
\* One too many: then the client sent more than it is ready for.
<1>7. CASE ~(skipped < MaxStale)
  <2>1. Refuse(id) /\ skipped = MaxStale
    BY <1>0, <1>7 DEF ReadsPast
  <2>2. /\ outcome'[id] = "refused"
        /\ \A other \in Made \ {id} : outcome'[other] = outcome[other]
    BY <1>0, <2>1, BecomesThat DEF Refuse
  <2>3. closed \/ extra > MaxStale
    <3>1. SUFFICES ASSUME ~closed, extra <= MaxStale
                   PROVE  FALSE
      BY <1>0
    <3>2. Len(wire) + skipped <= extra + 1 /\ \E other \in Made : OpenAnswered(other)
      BY <1>0, <1>1, <2>1, <3>1 DEF HeardInv, LeftoversAreExtra
    <3>3. \E n \in 1 .. Len(wire') : wire'[n].id = id
      BY <1>3, <1>5, <3>2
    <3>4. Len(wire) = 1
      BY <1>0, <1>1, <2>1, <3>1, <3>2
    <3>. QED  BY <1>1, <3>3, <3>4
  <2>4. YesIsHeard'
    BY <1>2, <2>2, <2>3 DEF HeardInv, YesIsHeard
  <2>5. OpenAnswerIsOnWire'
    BY <1>2, <1>3, <2>2 DEF OpenAnswerIsOnWire, OpenAnswered
  <2>6. LeftoversAreExtra'
    BY <1>0, <1>2, <2>3 DEF LeftoversAreExtra
  <2>. QED  BY <1>4, <2>4, <2>5, <2>6 DEF HeardInv
<1>. QED  BY <1>6, <1>7

\* The answer that is read is the user's, or it was garbled.
LEMMA ReadsKeepsHeardInv ==
  ASSUME Inv, HeardInv, NEW id \in Made, Reads(id)
  PROVE  HeardInv'
<1>. USE DEF Outcomes
<1>0. /\ TypeOK /\ skipped \in Nat /\ extra \in Nat /\ Len(wire) \in Nat
      /\ outcome[id] = "asked" /\ wire # << >> /\ wire' = Tail(wire)
      /\ ~AnswersAnother(id, Head(wire))
  BY MadeAreIds DEF Inv, TypeOK, Reads
<1>1. /\ Len(wire) >= 1 /\ Len(wire') = Len(wire) - 1 /\ wire[1].id = id /\ Head(wire) = wire[1]
      /\ \A n \in 1 .. Len(wire') : wire'[n] = wire[n + 1]
  BY <1>0, ReadsOne DEF AnswersAnother
<1>2. UNCHANGED <<calls, closed, skipped, said, extra, garbled>> /\ Made' = Made
  BY DEF Reads, clientVars, Made
<1>3. \A other \in Made : other # id => ~OpenAnswered(other)
  <2>1. ~Decided(id)
    BY <1>0 DEF Decided
  <2>. QED  BY <1>0, <2>1, UndecidedIsLast DEF Inv, Decided, OpenAnswered
<1>4. Answered(id, Verify(id, wire[1]))
  BY <1>1 DEF Reads
<1>5. PICK what \in {"running", "refused", "cancelled"} : Becomes(id, what)
  BY <1>4 DEF Answered, Refuse, Run
<1>6. outcome'[id] = what /\ \A other \in Made \ {id} : outcome'[other] = outcome[other]
  BY <1>0, <1>5, BecomesThat
<1>7. outcome'[id] = "refused" => said[id] \notin Approvals \/ id \in garbled
  <2>1. SUFFICES ASSUME outcome'[id] = "refused"
                 PROVE  said[id] \notin Approvals \/ id \in garbled
    OBVIOUS
  <2>2. Verify(id, wire[1]) = "deny"
    BY <1>0, <1>4, <2>1, BecomesThat DEF Answered, Run
  <2>3. CASE wire[1].args = calls[id].args
    <3>1. wire[1].decision = "deny"
      BY <1>1, <2>2, <2>3 DEF Verify
    <3>2. said[id] = wire[1].decision
      BY <1>0, <1>1, <2>3 DEF Inv, AnswersAreTheUsers
    <3>. QED  BY <3>1, <3>2 DEF Approvals
  <2>4. CASE wire[1].args # calls[id].args
    BY <1>0, <1>1, <2>4 DEF HeardInv, GarbledAreKnown
  <2>. QED  BY <2>3, <2>4
<1>8. YesIsHeard'
  BY <1>2, <1>6, <1>7 DEF HeardInv, YesIsHeard
<1>9. GarbledAreKnown'
  <2>1. \A n \in 1 .. Len(wire') : n + 1 \in 1 .. Len(wire)
    BY <1>0, <1>1
  <2>. QED  BY <1>1, <1>2, <2>1 DEF HeardInv, GarbledAreKnown
<1>10. OpenAnswerIsOnWire'
  BY <1>2, <1>3, <1>6 DEF OpenAnswerIsOnWire, OpenAnswered
<1>11. LeftoversAreExtra'
  <2>1. ~closed /\ extra <= MaxStale => Len(wire) + skipped <= extra + 1
    BY <1>0 DEF HeardInv, LeftoversAreExtra
  <2>2. ~closed /\ extra <= MaxStale => Len(wire') + skipped <= extra
    BY <1>0, <1>1, <2>1
  <2>. QED  BY <1>2, <2>2 DEF LeftoversAreExtra
<1>. QED  BY <1>8, <1>9, <1>10, <1>11 DEF HeardInv

\* What the client sends: the user's answer, once, and what is extra.
LEMMA ClientKeepsHeardInv ==
  ASSUME Inv, HeardInv, NEW id \in Made, Client(id)
  PROVE  HeardInv'
<1>0. /\ TypeOK /\ skipped \in Nat /\ extra \in Nat /\ Len(wire) \in Nat /\ id \in Ids
      /\ said \in [Ids -> Decisions \cup {"nothing"}]
      /\ \A other \in Made : other \in Ids
  BY MadeAreIds DEF Inv, TypeOK
<1>1. UNCHANGED <<calls, outcome, skipped, closed>> /\ Made' = Made
  BY DEF Client, UserAnswers, ClientRepeats, ClientGarbles, Made
\* An answer is appended: said by the user, or extra.
<1>2. ASSUME NEW answer \in Answers, Sends(answer), answer.id = id,
             answer.args = calls[id].args \/ id \in garbled',
             garbled \subseteq garbled',
             \/ /\ extra' = extra /\ outcome[id] = "asked" /\ said[id] = "nothing"
                /\ said'[id] # "nothing" /\ \A other \in Ids \ {id} : said'[other] = said[other]
             \/ extra' = extra + 1 /\ UNCHANGED said
      PROVE  HeardInv'
  <2>1. /\ Len(wire') = Len(wire) + 1 /\ wire'[Len(wire) + 1] = answer
        /\ \A n \in 1 .. Len(wire) : wire'[n] = wire[n]
    BY <1>0, <1>2, SendsThat
  <2>2. \A n \in 1 .. Len(wire') : n \in 1 .. Len(wire) \/ n = Len(wire) + 1
    BY <1>0, <2>1
  <2>3. 1 .. Len(wire) \subseteq 1 .. Len(wire') /\ Len(wire) + 1 \in 1 .. Len(wire')
    BY <1>0, <2>1
  <2>4. \A other \in Made :
          said'[other] = said[other] \/ (other = id /\ outcome[id] = "asked")
    BY <1>0, <1>2
  <2>5. YesIsHeard'
    <3>1. SUFFICES ASSUME NEW other \in Made, said'[other] \in Approvals,
                          outcome[other] = "refused"
                   PROVE  closed \/ extra' > MaxStale \/ other \in garbled'
      BY <1>1 DEF YesIsHeard
    <3>2. said[other] \in Approvals
      BY <2>4, <3>1
    <3>3. closed \/ extra > MaxStale \/ other \in garbled
      BY <3>1, <3>2 DEF HeardInv, YesIsHeard
    <3>4. extra' >= extra /\ extra' \in Nat
      BY <1>0, <1>2
    <3>5. extra > MaxStale => extra' > MaxStale
      BY <1>0, <3>4
    <3>. QED  BY <1>2, <3>3, <3>5
  <2>6. GarbledAreKnown'
    BY <1>1, <1>2, <2>1, <2>2 DEF HeardInv, GarbledAreKnown
  <2>7. OpenAnswerIsOnWire'
    <3>1. SUFFICES ASSUME NEW other \in Made, OpenAnswered(other)'
                   PROVE  \E n \in 1 .. Len(wire') : wire'[n].id = other
      BY <1>1 DEF OpenAnswerIsOnWire
    <3>2. CASE other = id
      BY <1>2, <2>1, <2>3, <3>2
    <3>3. CASE other # id
      <4>1. OpenAnswered(other)
        BY <1>1, <2>4, <3>1, <3>3 DEF OpenAnswered
      <4>2. PICK n \in 1 .. Len(wire) : wire[n].id = other
        BY <4>1 DEF HeardInv, OpenAnswerIsOnWire
      <4>3. wire'[n] = wire[n] /\ n \in 1 .. Len(wire')
        BY <2>1, <2>3
      <4>. QED  BY <4>2, <4>3
    <3>. QED  BY <3>2, <3>3
  <2>8. LeftoversAreExtra'
    <3>1. SUFFICES ASSUME ~closed, extra' <= MaxStale
                   PROVE  \/ Len(wire) + 1 + skipped <= extra'
                          \/ /\ Len(wire) + 1 + skipped <= extra' + 1
                             /\ \E other \in Made : OpenAnswered(other)'
      BY <1>1, <2>1 DEF LeftoversAreExtra
    <3>2. extra <= MaxStale
      BY <1>0, <1>2, <3>1
    <3>3. CASE extra' = extra + 1 /\ UNCHANGED said
      <4>1. (\E other \in Made : OpenAnswered(other)) => \E other \in Made : OpenAnswered(other)'
        BY <1>1, <3>3 DEF OpenAnswered
      <4>2. \/ Len(wire) + skipped <= extra
            \/ /\ Len(wire) + skipped <= extra + 1
               /\ \E other \in Made : OpenAnswered(other)'
        BY <3>1, <3>2, <4>1 DEF HeardInv, LeftoversAreExtra
      <4>3. Len(wire) + skipped <= extra => Len(wire) + 1 + skipped <= extra'
        BY <1>0, <3>3
      <4>4. Len(wire) + skipped <= extra + 1 => Len(wire) + 1 + skipped <= extra' + 1
        BY <1>0, <3>3
      <4>. QED  BY <4>2, <4>3, <4>4, Zenon
    <3>4. CASE /\ extra' = extra /\ outcome[id] = "asked" /\ said[id] = "nothing"
               /\ said'[id] # "nothing"
      <4>1. OpenAnswered(id)'
        BY <1>1, <3>4 DEF OpenAnswered
      <4>2. \A other \in Made : ~OpenAnswered(other)
        <5>1. ~Decided(id)
          BY <3>4 DEF Decided
        <5>. QED  BY <1>0, <3>4, <5>1, UndecidedIsLast DEF Inv, Decided, OpenAnswered
      <4>3. Len(wire) + skipped <= extra
        BY <3>1, <3>2, <4>2 DEF HeardInv, LeftoversAreExtra
      <4>4. Len(wire) + 1 + skipped <= extra' + 1
        BY <1>0, <3>4, <4>3
      <4>. QED  BY <4>1, <4>4
    <3>. QED  BY <1>2, <3>3, <3>4
  <2>. QED  BY <2>5, <2>6, <2>7, <2>8 DEF HeardInv
<1>3. ASSUME NEW decision \in Decisions, UserAnswers(id, decision)
      PROVE  HeardInv'
  <2>1. /\ AnswerTo(id, decision) \in Answers /\ AnswerTo(id, decision).id = id
        /\ AnswerTo(id, decision).args = calls[id].args
    BY <1>0, MadeAreIds DEF AnswerTo, Answers
  <2>2. /\ said'[id] = decision /\ \A other \in Ids \ {id} : said'[other] = said[other]
        /\ decision # "nothing" /\ said[id] = "nothing" /\ outcome[id] = "asked"
    BY <1>0, <1>3 DEF UserAnswers, Decisions, Approvals
  <2>3. Sends(AnswerTo(id, decision)) /\ UNCHANGED <<extra, garbled>>
    BY <1>3 DEF UserAnswers
  <2>. QED  BY <1>2, <2>1, <2>2, <2>3
<1>4. CASE ClientRepeats(id)
  <2>1. said[id] \in Decisions
    BY <1>0, <1>4 DEF ClientRepeats
  <2>2. /\ AnswerTo(id, said[id]) \in Answers /\ AnswerTo(id, said[id]).id = id
        /\ AnswerTo(id, said[id]).args = calls[id].args
    BY <1>0, <2>1, MadeAreIds DEF AnswerTo, Answers
  <2>3. Sends(AnswerTo(id, said[id])) /\ extra' = extra + 1 /\ UNCHANGED <<said, garbled>>
    BY <1>4 DEF ClientRepeats
  <2>. QED  BY <1>2, <2>2, <2>3
<1>5. ASSUME NEW args \in Args, ClientGarbles(id, args)
      PROVE  HeardInv'
  <2>. DEFINE answer == [id |-> id, args |-> args, decision |-> "approve"]
  <2>1. answer \in Answers /\ answer.id = id
    BY <1>0 DEF Answers, Decisions, Approvals
  <2>2. /\ Sends(answer) /\ extra' = extra + 1 /\ UNCHANGED said
        /\ garbled' = garbled \cup {id}
    BY <1>5 DEF ClientGarbles
  <2>. HIDE DEF answer
  <2>. QED  BY <1>2, <2>1, <2>2
<1>. QED  BY <1>3, <1>4, <1>5, Zenon DEF Client

LEMMA NextKeepsHeardInv == ASSUME Inv, HeardInv, [Next]_vars PROVE HeardInv'
<1>1. CASE \E id \in Made : Resolves(id)
  BY <1>1, DecidesKeepsHeardInv, ReadsPastKeepsHeardInv, ReadsKeepsHeardInv, Zenon DEF Resolves
<1>2. CASE \E id \in Made : Client(id)
  BY <1>2, ClientKeepsHeardInv, Zenon
<1>3. CASE \/ \E tool \in Tools, args \in Args : CallBegins(tool, args)
           \/ TurnEnds \/ Cancelled \/ UNCHANGED vars
  BY <1>3, TurnKeepsHeardInv, Zenon
<1>. QED  BY <1>1, <1>2, <1>3, Zenon DEF Next

LEMMA InitHeardInv == Init => HeardInv
<1>. SUFFICES ASSUME Init
              PROVE  HeardInv
  OBVIOUS
<1>1. Made = {} /\ Len(wire) = 0 /\ skipped = 0 /\ extra = 0
  BY DEF Init, Made
<1>. QED  BY <1>1 DEF HeardInv, YesIsHeard, GarbledAreKnown, OpenAnswerIsOnWire,
                      LeftoversAreExtra

\* The user's yes is not lost to the leftovers of earlier questions, whatever their
\* number: unless the channel was closed, the client sent more of them than the daemon
\* reads past, or it garbled the answer.
THEOREM YesesAreHeard == Spec => []YesIsHeard
<1>1. HeardInv => YesIsHeard
  BY DEF HeardInv
<1>. QED  BY <1>1, InvHolds, InitHeardInv, NextKeepsHeardInv, PTL DEF Spec
=============================================================================
