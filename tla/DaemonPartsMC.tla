----------------------------- MODULE DaemonPartsMC -----------------------------
\* The daemon's agent turns and its address, which share no state, in one run of
\* TLC: each behaviour is one of one of them, and the other stays as it starts.
EXTENDS AgentTurn, DaemonAddress

CONSTANTS w1, w2

VARIABLE part

\* For the configuration.
TwoWindows == {w1, w2}

allVars == <<part, vars, addressVars>>

PartsInit == part \in {"address", "turn"} /\ Init /\ AddressInit

\* A step of one part, and not of the other.
Turned(step)    == part = "turn"    /\ step /\ UNCHANGED <<part, addressVars>>
Addressed(step) == part = "address" /\ step /\ UNCHANGED <<part, vars>>

PartsNext == Turned(Next) \/ Addressed(AddressNext)

\* The fair actions of both parts.  No part comes back to a state it has left, so
\* that one condition on all of them asks of each what its own module asks.
FairStep ==
  \/ Turned(Next)
  \/ Addressed(\/ \E p \in Daemons : Starts(p) \/ Stops(p)
               \/ \E w \in Windows : Supervises(w))

\* The windows are alike: the first daemon is the first's.
FirstWindow == starter[1] # w2

PartsSpec == PartsInit /\ [][PartsNext]_allVars /\ WF_allVars(FairStep)

-----------------------------------------------------------------------------
\* The properties of the parts are their own; NoOrphan and Served are DaemonAddress's.

\* Every variable of both parts has its type.
PartsTypeOK ==
  /\ part = "turn" => TypeOK
  /\ part = "address" => AddressTypeOK

\* AgentTurn: the turn ends, whatever the provider does.
ThisTurnEnds == part = "turn" => TurnEnds
=============================================================================
