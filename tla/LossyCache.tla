----------------------------- MODULE LossyCache -----------------------------
(***************************************************************************)
(* What a result cache promises its callers: a hit returns the entry held  *)
(* for that key.  An entry may be lost at any moment, and an answer may be *)
(* dropped, but what was lost or replaced never comes back by itself.      *)
(***************************************************************************)
CONSTANTS Clients, Keys, Entries, NoEntry, None

VARIABLES
    held,      \* the entry of each key
    reply      \* the last hit of each client: the key and its entry

lvars == <<held, reply>>

NoHit == [key |-> None, entry |-> NoEntry]

Init ==
    /\ held = [k \in Keys |-> NoEntry]
    /\ reply = [c \in Clients |-> NoHit]

\* Some entries of S are gone, some answers are dropped.
EntriesKept(S) == \A k \in S : held'[k] \in {held[k], NoEntry}
AnswersKept == \A c \in Clients : reply'[c] \in {reply[c], NoHit}

Store(k) ==
    /\ held' \in [Keys -> Entries \cup {NoEntry}]
    /\ EntriesKept(Keys \ {k})
    /\ AnswersKept

Lose ==
    /\ EntriesKept(Keys)
    /\ AnswersKept

Hit(c, k) ==
    /\ held[k] # NoEntry
    /\ reply' = [reply EXCEPT ![c] = [key |-> k, entry |-> held[k]]]
    /\ UNCHANGED held

Next ==
    \/ \E k \in Keys : Store(k)
    \/ Lose
    \/ \E c \in Clients, k \in Keys : Hit(c, k)

Spec == Init /\ [][Next]_lvars
=============================================================================
