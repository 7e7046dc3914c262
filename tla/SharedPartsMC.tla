----------------------------- MODULE SharedPartsMC -----------------------------
\* What several clients share - the chat of a workspace, between two terminals, the
\* gates of a key, between its requests, and what a day may bill, between two daemons -
\* in one run of TLC: each behaviour is one of one of the three, and the others stay as
\* they start.
EXTENDS ProxyGates, ChatSync, SpendLedger

CONSTANTS t1, t2

VARIABLE part

\* Three requests.
ThreeRequests == 1 .. 3

\* Two terminals.
TwoTerminals == {t1, t2}

\* Two daemons, with a client each, of whom one names its session; limits of one call
\* and a half, where every call bills two tokens.
TwoDaemons == {"d1", "d2"}
TwoClients == {"named", "old"}
OneNamed   == {"named"}
HomeOf     == [c \in TwoClients |-> IF c = "named" THEN "d1" ELSE "d2"]

allVars == <<part, vars, chatVars, spendVars>>

PartsInit == part \in {"chat", "gates", "spend"} /\ Init /\ ChatInit /\ SpendInit

\* A step of one part, and of no other.
PartsNext ==
  \/ part = "chat" /\ ChatNext /\ UNCHANGED <<part, vars, spendVars>>
  \/ part = "gates" /\ Next /\ UNCHANGED <<part, chatVars, spendVars>>
  \/ part = "spend" /\ SpendNext /\ UNCHANGED <<part, chatVars, vars>>

PartsSpec == PartsInit /\ [][PartsNext]_allVars

\* The terminals are alike: the first call is the first's.
FirstCall == call = << >> \/ call[1].by = t1

\* The requests are alike: they come in their order.
InOrder == \A r \in 2 .. 3 : pc[r] # "new" => pc[r - 1] # "new"

\* The daemon does not die before two calls were made, and one is still to come.
TwoCallsFirst == epoch = 1 \/ Len(call) >= 2

\* The third call is made when one of the first two is over, and one of the three is
\* no question.
TwoAtATime == Len(call) = 3 =>
  (\E i \in 1 .. 2 : call[i].at = "over") /\ (\E i \in 1 .. 3 : call[i].kind # "turn")

\* Of midnight, a raise and a failure, two in one behaviour.
TwoTurnsOfFate == today + raises + trouble <= 3

-----------------------------------------------------------------------------
\* The properties are the parts' own: ProxyGates', ChatSync's and SpendLedger's.

\* Every variable of every part has its type.
PartsTypeOK ==
  /\ part = "gates" => TypeOK
  /\ part = "chat" => ChatTypeOK
  /\ part = "spend" => SpendTypeOK
=============================================================================
