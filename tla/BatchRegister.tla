---------------------------- MODULE BatchRegister ----------------------------
(***************************************************************************)
(* What the batch manager promises of the task updates it accepts: each is *)
(* settled at most once, a transaction settles all of its updates or none, *)
(* a final one is counted against the daily usage in the transaction that  *)
(* writes it, and whatever leaves without being written is counted never.  *)
(***************************************************************************)
EXTENDS Naturals

CONSTANTS Tasks, Updates   \* an update has an id, a task and a flag final

VARIABLES
    open,      \* updates accepted and not settled
    row,       \* per task: the id of the update its row shows, 0 if none
    counted    \* ids counted against the daily usage

Init == open = {} /\ row = [t \in Tasks |-> 0] /\ counted = {}

IdsOf(S, t) == {u.id : u \in {v \in S : v.task = t}}

\* Every task of S shows one of its updates in S, the others stay as they are.
Shows(S) ==
    /\ row' \in [Tasks -> Nat]
    /\ \A t \in Tasks : IF IdsOf(S, t) = {} THEN row'[t] = row[t]
                                            ELSE row'[t] \in IdsOf(S, t)

\* An update comes in; it may take the place of an older one of its task.
Accept == \E u \in Updates \ open, S \in SUBSET open :
    /\ \A v \in S : v.task = u.task /\ v.id < u.id
    /\ open' = (open \ S) \cup {u}
    /\ UNCHANGED <<row, counted>>

\* One transaction for all of S.
Write == \E S \in SUBSET open :
    /\ open' = open \ S
    /\ Shows(S)
    /\ counted' = counted \cup {u.id : u \in {v \in S : v.final}}

\* One transaction for each of S, of which those in T succeed; none is counted.
Split == \E S \in SUBSET open : \E T \in SUBSET S :
    /\ open' = open \ S
    /\ Shows(T)
    /\ UNCHANGED counted

Next == Accept \/ Write \/ Split

Spec == Init /\ [][Next]_<<open, row, counted>>
=============================================================================
