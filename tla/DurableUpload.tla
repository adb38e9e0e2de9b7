---------------------------- MODULE DurableUpload ----------------------------
(***************************************************************************)
(* What uploading a document in successive versions promises a client that *)
(* waits for each answer: the store holds the version last acknowledged or *)
(* the one after it, whatever is retried and whatever crashes.             *)
(***************************************************************************)
EXTENDS Naturals

CONSTANT Documents

VARIABLES
    kept,     \* the version stored of each document (0: none)
    acked     \* the version last acknowledged to its client (0: none)

uvars == <<kept, acked>>

Init ==
    /\ kept = [d \in Documents |-> 0]
    /\ acked = [d \in Documents |-> 0]

\* An attempt takes effect, perhaps not the first one.
Store(d) ==
    /\ kept' = [kept EXCEPT ![d] = acked[d] + 1]
    /\ UNCHANGED acked

Acknowledge(d) ==
    /\ kept[d] = acked[d] + 1
    /\ acked' = [acked EXCEPT ![d] = kept[d]]
    /\ UNCHANGED kept

Next == \E d \in Documents : Store(d) \/ Acknowledge(d)

Spec == Init /\ [][Next]_uvars
=============================================================================
