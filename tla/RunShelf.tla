------------------------------ MODULE RunShelf ------------------------------
(***************************************************************************)
(* What a directory of saved runs promises its readers: a run appears once *)
(* and for good, and a reader is given every run that was there when it    *)
(* began and none that is not there when it ends.                          *)
(***************************************************************************)
CONSTANTS Runs, Readers, NoRead

VARIABLES
    shelf,     \* the runs published
    reading,   \* what each reader asked for, and what of it was there then
    seen       \* what each reader was last given

rvars == <<shelf, reading, seen>>

Init ==
    /\ shelf = {}
    /\ reading = [a \in Readers |-> NoRead]
    /\ seen = [a \in Readers |-> {}]

Publish(a, r) ==
    /\ shelf' = shelf \cup {r}
    /\ seen' = [seen EXCEPT ![a] = {}]
    /\ UNCHANGED reading

Begin(a, scope) ==
    /\ reading[a] = NoRead
    /\ reading' = [reading EXCEPT ![a] = [scope |-> scope, since |-> shelf \cap scope]]
    /\ UNCHANGED <<shelf, seen>>

End(a, got) ==
    /\ reading[a] # NoRead
    /\ reading[a].since \subseteq got
    /\ got \subseteq shelf \cap reading[a].scope
    /\ seen' = [seen EXCEPT ![a] = got]
    /\ reading' = [reading EXCEPT ![a] = NoRead]
    /\ UNCHANGED shelf

\* Readers may go away, or turn to something else.
Drop(S) ==
    /\ reading' = [a \in Readers |-> IF a \in S THEN NoRead ELSE reading[a]]
    /\ seen' = [a \in Readers |-> IF a \in S THEN {} ELSE seen[a]]
    /\ UNCHANGED shelf

Next ==
    \/ \E a \in Readers, r \in Runs : Publish(a, r)
    \/ \E a \in Readers, scope \in SUBSET Runs : Begin(a, scope)
    \/ \E a \in Readers, got \in SUBSET Runs : End(a, got)
    \/ \E S \in SUBSET Readers : Drop(S)

Spec == Init /\ [][Next]_rvars
=============================================================================
