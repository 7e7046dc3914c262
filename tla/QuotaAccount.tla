---------------------------- MODULE QuotaAccount ----------------------------
(***************************************************************************)
(* What the proxy's quota ledger promises one API key, with every process, *)
(* call and retry left out.  An allowance is first held, under the limit,  *)
(* and a hold then ends in exactly one of two ways: it is settled, once,   *)
(* at what was really owed; or it is forfeited, and stays charged at the   *)
(* amount held because nobody knows any more what was owed.                *)
(***************************************************************************)
EXTENDS Integers

CONSTANTS
  Ids,      \* reservations, one per row of pending_corrections ever opened
  Limit,    \* usage.token_limit of the key
  Charges   \* amounts a reservation can be charged

VARIABLES
  total,    \* usage.tokens_used of the key
  acct      \* what each reservation stands for in total

States == {"none", "held", "settled", "forfeit"}

Unopened == [state |-> "none", charge |-> 0]

Init ==
  /\ total = 0
  /\ acct = [i \in Ids |-> Unopened]

\* Holding is admission control: it never takes the total past the limit.
Hold(i) ==
  /\ acct[i].state = "none"
  /\ \E n \in Charges :
       /\ total + n <= Limit
       /\ total' = total + n
       /\ acct' = [acct EXCEPT ![i] = [state |-> "held", charge |-> n]]

\* Settling replaces the hold by what was owed, in one step.
Settle(i) ==
  /\ acct[i].state = "held"
  /\ \E c \in Charges :
       /\ total' = total - acct[i].charge + c
       /\ acct' = [acct EXCEPT ![i] = [state |-> "settled", charge |-> c]]

\* Forfeiting leaves every charge where it was.
Forfeit(S) ==
  /\ \A i \in S : acct[i].state = "held"
  /\ acct' = [i \in Ids |-> IF i \in S THEN [acct[i] EXCEPT !.state = "forfeit"]
                                       ELSE acct[i]]
  /\ UNCHANGED total

Next ==
  \/ \E i \in Ids : Hold(i) \/ Settle(i)
  \/ \E S \in SUBSET Ids : Forfeit(S)

Spec == Init /\ [][Next]_<<total, acct>>
=============================================================================
