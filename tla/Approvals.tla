------------------------------ MODULE Approvals ------------------------------
(***************************************************************************)
(* What the approval tokens of the false-positive tuner promise: a real      *)
(* apply is begun only on the strength of a grant that the same process gave *)
(* for that very proposal, in time, and no grant serves twice.  How tokens   *)
(* are stored, pruned and lost, and what an apply does, is left to RuleFiles, *)
(* which implements this specification.                                      *)
(***************************************************************************)
EXTENDS Integers

CONSTANTS Procs, Home, Proposals, Tokens, TTL, NoToken

VARIABLES
    grants,    \* token -> the grant it stands for, if it was issued
    spent,     \* the tokens that served an apply
    applying,  \* goroutine -> the proposal that it applies
    clock

vars == <<grants, spent, applying, clock>>

Init ==
    /\ grants = [t \in Tokens |-> NoToken]
    /\ spent = {}
    /\ applying = [p \in Procs |-> NoToken]
    /\ clock = 0

Issue(p, t, proposal) ==
    /\ grants[t] = NoToken
    /\ grants' = [grants EXCEPT ![t] =
         [node |-> Home[p], proposal |-> proposal, expires |-> clock + TTL]]
    /\ UNCHANGED <<spent, applying, clock>>

Begin(p, t) ==
    /\ applying[p] = NoToken
    /\ grants[t] # NoToken /\ grants[t].node = Home[p]
    /\ t \notin spent /\ clock <= grants[t].expires
    /\ spent' = spent \cup {t}
    /\ applying' = [applying EXCEPT ![p] = grants[t].proposal]
    /\ UNCHANGED <<grants, clock>>

(* One apply comes to its end, or all of a process that dies.                *)
End(ps) ==
    /\ applying' = [p \in Procs |-> IF p \in ps THEN NoToken ELSE applying[p]]
    /\ UNCHANGED <<grants, spent, clock>>

Tick == clock' = clock + 1 /\ UNCHANGED <<grants, spent, applying>>

Next ==
    \/ Tick
    \/ \E p \in Procs, t \in Tokens :
         Begin(p, t) \/ \E proposal \in Proposals : Issue(p, t, proposal)
    \/ \E ps \in SUBSET Procs : End(ps)

Spec == Init /\ [][Next]_vars
===============================================================================
