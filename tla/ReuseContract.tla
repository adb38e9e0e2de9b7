--------------------------- MODULE ReuseContract ---------------------------
(***************************************************************************)
(* What enforced deduplication promises, without saying how: a call whose  *)
(* key has a remembered success is never started again, and a call that is *)
(* answered without running gets exactly the remembered result.  Calls     *)
(* that started before the first success may still finish and overwrite    *)
(* it.                                                                     *)
(***************************************************************************)
CONSTANTS Callers, Keys, ResultsOf, NoResult, NoKey, NoGift

VARIABLES
    memo,      \* the remembered success of each key
    working,   \* the key each caller is executing
    given      \* the reuse each caller was last answered with

cvars == <<memo, working, given>>

Init ==
    /\ memo = [k \in Keys |-> NoResult]
    /\ working = [c \in Callers |-> NoKey]
    /\ given = [c \in Callers |-> NoGift]

Begin(c, k) ==
    /\ working[c] = NoKey
    /\ memo[k] = NoResult
    /\ working' = [working EXCEPT ![c] = k]
    /\ given' = [given EXCEPT ![c] = NoGift]
    /\ UNCHANGED memo

Deliver(c, v) ==
    /\ working[c] # NoKey
    /\ v \in ResultsOf[working[c]]
    /\ memo' = [memo EXCEPT ![working[c]] = v]
    /\ working' = [working EXCEPT ![c] = NoKey]
    /\ UNCHANGED given

\* The execution failed, or its result is not one to remember.
Abandon(c) ==
    /\ working' = [working EXCEPT ![c] = NoKey]
    /\ UNCHANGED <<memo, given>>

Reuse(c, k) ==
    /\ working[c] = NoKey
    /\ memo[k] # NoResult
    /\ given' = [given EXCEPT ![c] = <<k, memo[k]>>]
    /\ UNCHANGED <<memo, working>>

\* The caller does something this contract says nothing about.
Clear(c) ==
    /\ given' = [given EXCEPT ![c] = NoGift]
    /\ UNCHANGED <<memo, working>>

Next ==
    \E c \in Callers :
        \/ \E k \in Keys : Begin(c, k) \/ Reuse(c, k)
        \/ \E k \in Keys : \E v \in ResultsOf[k] : Deliver(c, v)
        \/ Abandon(c)
        \/ Clear(c)

Spec == Init /\ [][Next]_cvars
=============================================================================
