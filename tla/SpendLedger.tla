------------------------------ MODULE SpendLedger ------------------------------
(***************************************************************************)
(* What a session and a day may bill (daemon/spend.go), over the daemons   *)
(* of one machine: the count each keeps, the share of the day it stores,   *)
(* the questions of its clients, the steps of their turns and the bills of *)
(* the model's calls.  A daemon counts under one lock, and another sees a  *)
(* share only when its file was renamed into place: each entry to the      *)
(* ledger is one step.                                                     *)
(*                                                                         *)
(* Bills are in tokens; dollars are held to a limit of their own in the    *)
(* same way.  Left out are the warning, which changes only words, and what *)
(* happens past maxSpendSessions sessions; the local date never goes back. *)
(***************************************************************************)
EXTENDS Integers, Sequences, FiniteSetsExt, Functions

CONSTANTS
  Daemons,
  Callers,       \* the clients of the daemons
  Home,          \* the daemon of a client
  Named,         \* the clients that name their session
  SessionTokens, \* session_tokens
  DayTokens,     \* day_tokens
  Prompts,       \* bound: tokens of a request
  Completions,   \* bound: tokens of an answer
  MaxDays,       \* bound: days
  MaxBills,      \* bound: calls that are billed
  MaxRaises,     \* bound: uses of /budget more
  MaxTrouble     \* bound: restarts, and shares that could not be stored

ASSUME SpendAssumption ==
  /\ IsFiniteSet(Daemons) /\ IsFiniteSet(Callers)
  /\ Home \in [Callers -> Daemons] /\ Named \subseteq Callers
  /\ SessionTokens \in Nat \ {0} /\ DayTokens \in Nat \ {0}
  /\ Prompts \subseteq Nat \ {0} /\ \E most \in Prompts : \A prompt \in Prompts : prompt <= most
  /\ Completions \subseteq Nat
  /\ \E most \in Completions : \A completion \in Completions : completion <= most
  /\ MaxDays \in Nat \ {0} /\ {MaxBills, MaxRaises, MaxTrouble} \subseteq Nat

VARIABLES
  today,   \* the local date
  own,     \* spendLedger.own
  stored,  \* the share a daemon last stored
  dayHeld, \* spendLedger.dayHeld
  session, \* spendLedger.sessions; history: was it stopped?
  turn,    \* of each client: [at, called, last]
  billed,  \* history: what was billed today, by all
  unseen,  \* history: was a share of today not stored?
  stopped, \* history: the daemons whose limit of the day stopped a turn or a question
  calls, raises, trouble \* of what is bounded, how much there was

spendVars == <<today, own, stored, dayHeld, session, turn, billed, unseen, stopped,
               calls, raises, trouble>>
bounds    == <<calls, raises, trouble>>

NoShare(day) == [day |-> day, tokens |-> 0, extra |-> 0]
NoSession    == [tokens |-> 0, extra |-> 0, held |-> 0, stopped |-> FALSE]
Idle         == [at |-> "idle", called |-> FALSE, last |-> 0]

SpendInit ==
  /\ today = 1
  /\ own = [d \in Daemons |-> NoShare(1)] /\ stored = own
  /\ dayHeld = [d \in Daemons |-> 0]
  /\ session = [c \in Callers |-> NoSession]
  /\ turn = [c \in Callers |-> Idle]
  /\ billed = 0 /\ unseen = FALSE /\ stopped = {}
  /\ calls = 0 /\ raises = 0 /\ trouble = 0

-----------------------------------------------------------------------------
\* The ledger of one daemon.  Every entry to it rolls the day first, and finds or
\* makes the client's session.

\* A share as of today.
AsOfToday(share) == IF share.day = today THEN share ELSE NoShare(today)

Own(d) == AsOfToday(own[d])

\* rollDay; the others' shares are read from today's folder.
Hold(d) == IF own[d].day = today THEN dayHeld[d] ELSE 0

\* Mutant: the day is what this daemon billed.
DayTotalOwn(d) == Own(d)

\* What daemon d knows of the shares of today: its own, and what the others stored.
Share(d, e) == IF e = d THEN Own(d) ELSE AsOfToday(stored[e])

DayTotal(d) ==
  [day |-> today, tokens |-> SumFunction([e \in Daemons |-> Share(d, e).tokens]),
   extra |-> SumFunction([e \in Daemons |-> Share(d, e).extra])]

Rolls(d) ==
  /\ own' = [own EXCEPT ![d] = Own(d)]
  /\ dayHeld' = [dayHeld EXCEPT ![d] = Hold(d)]

\* writeShare, which may fail: then this daemon alone knows it.
Stores(d, share) ==
  \/ stored' = [stored EXCEPT ![d] = share] /\ UNCHANGED <<unseen, trouble>>
  \/ /\ trouble < MaxTrouble /\ trouble' = trouble + 1
     /\ unseen' = TRUE /\ UNCHANGED stored

\* meterReached
Reached(tokens, reserve, limit, extra) == tokens + reserve >= limit * (1 + extra)

SessionStops(c, reserve) ==
  /\ c \in Named
  /\ \/ session[c].held = session[c].extra + 1
     \/ Reached(session[c].tokens, reserve, SessionTokens, session[c].extra)

DayStops(d, reserve) ==
  LET total == DayTotal(d) IN
  \/ Hold(d) = total.extra + 1
  \/ Reached(total.tokens, reserve, DayTokens, total.extra)

Stops(c, reserve) == SessionStops(c, reserve) \/ DayStops(Home[c], reserve)

\* Mutant: a stop is not remembered.
HeldNothing(extra) == 0

\* The allotment that is used up, as a stop is remembered by.
HeldAt(extra) == extra + 1

\* stopAt: the limit that stopped a turn holds until it is raised.
StopsOn(c, reserve) ==
  LET d == Home[c] IN
  \/ /\ SessionStops(c, reserve)
     /\ Rolls(d)
     /\ session' = [session EXCEPT ![c].held = HeldAt(session[c].extra), ![c].stopped = TRUE]
     /\ UNCHANGED stopped
  \/ /\ ~SessionStops(c, reserve) /\ DayStops(d, reserve)
     /\ own' = [own EXCEPT ![d] = Own(d)]
     /\ dayHeld' = [dayHeld EXCEPT ![d] = HeldAt(DayTotal(d).extra)]
     /\ stopped' = stopped \cup {d}
     /\ UNCHANGED session

Passes(c, reserve) ==
  /\ ~Stops(c, reserve)
  /\ Rolls(Home[c])
  /\ UNCHANGED <<session, stopped>>

\* The daemons still stopped after a step: not those that came to know of a raise of
\* the day in it.  (One that could not be stored at first is stored with the next bill.)
StillStopped == {d \in stopped : DayTotal(d).extra' = DayTotal(d).extra}

-----------------------------------------------------------------------------
\* A client's questions and the turns that answer them.

Moves(c, at) == turn' = [turn EXCEPT ![c].at = at]

\* handlePromptRequest, before anything is sent.
Refuses(c) ==
  /\ turn[c].at = "idle"
  /\ StopsOn(c, 0)
  /\ UNCHANGED <<today, stored, turn, billed, unseen, bounds>>

\* A turn of the agent, or one call.
Admits(c) ==
  /\ turn[c].at = "idle"
  /\ Passes(c, 0)
  /\ \E at \in {"step", "calling"} : Moves(c, at)
  /\ UNCHANGED <<today, stored, billed, unseen, bounds>>

\* budgetStop: room is kept for this step and for the call that sums up.
Steps(c) ==
  /\ turn[c].at = "step"
  /\ Passes(c, 2 * turn[c].last)
  /\ Moves(c, "calling")
  /\ UNCHANGED <<today, stored, billed, unseen, bounds>>

StepStops(c) ==
  /\ turn[c].at = "step"
  /\ StopsOn(c, 2 * turn[c].last)
  /\ turn' = [turn EXCEPT ![c] = IF turn[c].called THEN [turn[c] EXCEPT !.at = "wrapping"] ELSE Idle]
  /\ UNCHANGED <<today, stored, billed, unseen, bounds>>

\* Another ceiling, a failure or the user ends the turn.
EndsOtherwise(c) ==
  /\ turn[c].at = "step"
  /\ \/ turn' = [turn EXCEPT ![c] = Idle]
     \/ turn[c].called /\ Moves(c, "wrapping")
  /\ UNCHANGED <<today, own, stored, dayHeld, session, billed, unseen, stopped, bounds>>

\* The turn after a call: another step, or the end.
AfterCall(c, last) ==
  \/ turn' = [turn EXCEPT ![c] = Idle]
  \/ turn[c].at = "calling" /\ turn' = [turn EXCEPT ![c] = [at |-> "step", called |-> TRUE, last |-> last]]

\* add
Bills(d, tokens) ==
  /\ own' = [own EXCEPT ![d] = [Own(d) EXCEPT !.tokens = @ + tokens]]
  /\ dayHeld' = [dayHeld EXCEPT ![d] = Hold(d)]
  /\ Stores(d, own'[d])

CallBilled(c) ==
  /\ turn[c].at \in {"calling", "wrapping"} /\ calls < MaxBills
  /\ \E prompt \in Prompts, completion \in Completions :
       /\ Bills(Home[c], prompt + completion)
       /\ session' = IF c \in Named THEN [session EXCEPT ![c].tokens = @ + prompt + completion]
                     ELSE session
       /\ AfterCall(c, prompt)
       /\ billed' = billed + prompt + completion
  /\ calls' = calls + 1
  /\ UNCHANGED <<today, raises>>
  /\ stopped' = StillStopped

\* addUnreported: the call failed, or its bill never came.
CallUnreported(c) ==
  /\ turn[c].at \in {"calling", "wrapping"}
  /\ AfterCall(c, turn[c].last)
  /\ UNCHANGED <<today, own, stored, dayHeld, session, billed, unseen, stopped, bounds>>

-----------------------------------------------------------------------------
\* /budget, /budget more, midnight and a restart.

Looks(d) ==
  /\ Rolls(d)
  /\ UNCHANGED <<today, stored, session, turn, billed, unseen, stopped, bounds>>

\* Past the warning mark, four fifths of the limit.
Near(tokens, limit, extra) == 5 * tokens >= 4 * limit * (1 + extra)

Raises(c) ==
  LET d          == Home[c]
      total      == DayTotal(d)
      forSession == \/ Near(session[c].tokens, SessionTokens, session[c].extra)
                    \/ session[c].held = session[c].extra + 1
      forDay     == Near(total.tokens, DayTokens, total.extra) \/ Hold(d) = total.extra + 1
  IN /\ c \in Named /\ raises < MaxRaises /\ (forSession \/ forDay)
     /\ session' = IF forSession
                   THEN [session EXCEPT ![c].extra = @ + 1, ![c].stopped = FALSE]
                   ELSE session
     /\ dayHeld' = [dayHeld EXCEPT ![d] = Hold(d)]
     /\ IF forDay
        THEN /\ own' = [own EXCEPT ![d] = [Own(d) EXCEPT !.extra = @ + 1]]
             /\ Stores(d, own'[d])
        ELSE /\ own' = [own EXCEPT ![d] = Own(d)]
             /\ UNCHANGED <<stored, unseen, trouble>>
     /\ raises' = raises + 1
     /\ UNCHANGED <<today, turn, billed, calls>>
     /\ stopped' = StillStopped

NextDay ==
  /\ today < MaxDays
  /\ today' = today + 1
  /\ billed' = 0 /\ unseen' = FALSE
  /\ stopped' = {}
  /\ UNCHANGED <<own, stored, dayHeld, session, turn, bounds>>

\* newSpendLedger
Opens(d) == own' = [own EXCEPT ![d] = AsOfToday(stored[d])]

Restarts(d) ==
  LET its == {c \in Callers : Home[c] = d} IN
  /\ trouble < MaxTrouble
  /\ Opens(d)
  /\ dayHeld' = [dayHeld EXCEPT ![d] = 0]
  /\ session' = [c \in Callers |-> IF c \in its THEN NoSession ELSE session[c]]
  /\ turn' = [c \in Callers |-> IF c \in its THEN Idle ELSE turn[c]]
  /\ stopped' = stopped \ {d}
  /\ trouble' = trouble + 1
  /\ UNCHANGED <<today, stored, billed, unseen, calls, raises>>

-----------------------------------------------------------------------------
SpendNext ==
  \/ \E c \in Callers :
       \/ Refuses(c) \/ Admits(c) \/ Steps(c) \/ StepStops(c) \/ EndsOtherwise(c)
       \/ CallBilled(c) \/ CallUnreported(c) \/ Raises(c)
  \/ NextDay
  \/ \E d \in Daemons : Looks(d) \/ Restarts(d)

SpendSpec == SpendInit /\ [][SpendNext]_spendVars

-----------------------------------------------------------------------------
\* Properties.

SpendTypeOK ==
  /\ today \in 1 .. MaxDays
  /\ own \in [Daemons -> [day : 1 .. today, tokens : Nat, extra : Nat]]
  /\ stored \in [Daemons -> [day : 1 .. today, tokens : Nat, extra : Nat]]
  /\ dayHeld \in [Daemons -> Nat]
  /\ session \in [Callers -> [tokens : Nat, extra : Nat, held : Nat, stopped : BOOLEAN]]
  /\ turn \in [Callers -> [at : {"idle", "step", "calling", "wrapping"}, called : BOOLEAN, last : Nat]]
  /\ billed \in Nat /\ unseen \in BOOLEAN /\ stopped \subseteq Daemons
  /\ calls \in 0 .. MaxBills /\ raises \in 0 .. MaxRaises /\ trouble \in 0 .. MaxTrouble

MaxCall == Max(Prompts) + Max(Completions)

\* The day's limit is what all daemons bill together: past it go only the calls of
\* turns that were under way when it was met, one step and one summing up each,
\* across midnight, restarts and uses of /budget more, as long as every share could
\* be stored.  A session goes past its own by no more than one turn does.
OverrunBounded ==
  /\ ~unseen => billed < DayTokens * (1 + SumFunction([d \in Daemons |-> Own(d).extra]))
                         + 2 * Cardinality(Callers) * MaxCall
  /\ \A c \in Named :
       session[c].tokens < SessionTokens * (1 + session[c].extra) + 2 * MaxCall

\* A limit that stopped a turn, or refused a question, lets no question through
\* until it is raised: by its client, or for the day by any daemon's, whatever
\* the count says meanwhile.  (Midnight ends the day's, a restart what it forgets.)
HeldUntilRaised ==
  [][\A c \in Callers :
       turn[c].at = "idle" /\ turn'[c].at # "idle" =>
         ~session[c].stopped /\ Home[c] \notin stopped]_spendVars
=============================================================================
