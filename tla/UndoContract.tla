---------------------------- MODULE UndoContract ----------------------------
(***************************************************************************)
(* What the outbox promises of one queued action, with no queue in sight.  *)
(* An action is open until it is committed, undone or failed, once and for *)
(* all.  Undone and failed mean the provider does not have it, except for  *)
(* actions in doubt: an attempt took effect without anybody learning it.   *)
(***************************************************************************)
CONSTANTS Actions,   \* the actions a user may queue
          MayDoubt   \* can an attempt take effect unnoticed?

VARIABLES outcome,   \* where each action stands
          taken,     \* does the provider have it?
          doubt      \* did an attempt take effect unnoticed?

contractVars == <<outcome, taken, doubt>>

Ended == {"committed", "undone", "failed"}

ContractInit ==
  /\ outcome = [a \in Actions |-> "none"]
  /\ taken = [a \in Actions |-> FALSE]
  /\ doubt = [a \in Actions |-> FALSE]

Same(a) == taken'[a] = taken[a] /\ doubt'[a] = doubt[a]

Stays(a)  == outcome'[a] = outcome[a] /\ Same(a)
Opens(a)  == outcome[a] = "none" /\ outcome'[a] = "open" /\ Same(a)

Commits(a) == /\ outcome[a] = "open" /\ outcome'[a] = "committed"
              /\ taken[a] => taken'[a]
              /\ doubt'[a] = doubt[a]

\* Undo is refused once the provider is known to have the action.
Undoes(a) == /\ outcome[a] = "open" /\ outcome'[a] = "undone"
             /\ taken[a] => doubt[a]
             /\ Same(a)

Fails(a)  == /\ outcome[a] = "open" /\ outcome'[a] = "failed"
             /\ taken'[a] => doubt'[a]
             /\ taken[a] => taken'[a]
             /\ doubt[a] => doubt'[a]
             /\ doubt'[a] # doubt[a] => MayDoubt

\* An attempt takes effect unnoticed; the action is still open.
Slips(a)  == /\ MayDoubt
             /\ outcome[a] = "open" /\ outcome'[a] = "open"
             /\ taken'[a] /\ doubt'[a]

Forgets(a) == outcome[a] \in Ended /\ outcome'[a] = "forgotten" /\ Same(a)

ContractNext ==
  \A a \in Actions : \/ Stays(a) \/ Opens(a) \/ Commits(a) \/ Undoes(a)
                     \/ Fails(a) \/ Slips(a) \/ Forgets(a)

ContractSpec == ContractInit /\ [][ContractNext]_contractVars
=============================================================================
