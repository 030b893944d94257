----------------------------- MODULE OpenItems -----------------------------
(***************************************************************************)
(* What reconciliation promises, without locks, transactions or foreign    *)
(* exchange: every posted line of a reconcilable account has an open       *)
(* amount, positive for a debit and negative for a credit.  A match takes  *)
(* equal amounts off open debits and credits, never more than is open, and *)
(* undoing it gives exactly these amounts back.                            *)
(***************************************************************************)
EXTENDS Integers, FiniteSets, Functions

CONSTANTS LineIds, MatchIds,
  Allotments   \* what one match may take: functions from lines to positive amounts

VARIABLES
  open,     \* open amount of every posted line
  matches   \* what every match in force took off each of its lines

vars == <<open, matches>>

Put(f, x, value) == [y \in DOMAIN f \cup {x} |-> IF y = x THEN value ELSE f[y]]
Drop(f, x) == [y \in DOMAIN f \ {x} |-> f[y]]

Taken(m, l) == IF l \in DOMAIN m THEN m[l] ELSE 0

Init == open \in [DOMAIN open -> Int] /\ matches = [r \in {} |-> 0]

\* Lines are posted, and keep what they are, while others lose what change takes.
Becomes(change) ==
  /\ DOMAIN open \subseteq DOMAIN open' /\ DOMAIN open' \subseteq LineIds
  /\ \A l \in DOMAIN open : open'[l] = open[l] - Taken(change, l)

Settle(r, allotment) ==
  LET sign(l) == IF open[l] > 0 THEN 1 ELSE -1
      match == [l \in DOMAIN allotment |-> sign(l) * allotment[l]]
  IN /\ r \notin DOMAIN matches /\ DOMAIN allotment \subseteq DOMAIN open
     /\ \A l \in DOMAIN allotment : allotment[l] <= sign(l) * open[l]
     /\ SumFunction(match) = 0
     /\ matches' = Put(matches, r, match)
     /\ Becomes(match)

Reopen(r) ==
  /\ r \in DOMAIN matches
  /\ matches' = Drop(matches, r)
  /\ Becomes([l \in DOMAIN matches[r] |-> -matches[r][l]])

PostLine == matches' = matches /\ Becomes([l \in {} |-> 0])

Next ==
  \/ \E r \in MatchIds : Reopen(r) \/ \E a \in Allotments : Settle(r, a)
  \/ PostLine

Spec == Init /\ [][Next]_vars
=============================================================================
