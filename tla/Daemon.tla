------------------------------- MODULE Daemon -------------------------------
(***************************************************************************)
(* daemon.py over storage/sqlite.py: uploads of proposals and of runs to a *)
(* durable, project-scoped store.  A handler runs in a thread of the       *)
(* server's pool; it takes one of a bounded number of write slots or turns *)
(* the client away, writes in a transaction of its own, and gives the slot *)
(* back in a finally block.  save_proposal and save_run differ only in the *)
(* table they write.                                                       *)
(*                                                                         *)
(* A client uploads one document, in successive versions, and sends the    *)
(* next version once the last one is acknowledged.  It retries after any   *)
(* other answer, after a crash and after its own timeout, which leaves the *)
(* abandoned handler running.                                              *)
(*                                                                         *)
(* X_Variant before X is X with a plausible bug, used by no specification. *)
(***************************************************************************)
EXTENDS Naturals, FiniteSets

CONSTANTS
    Projects,      \* project_id
    Ids,           \* proposal_id, run_id
    Documents,     \* what the clients upload, one each
    Authorized,    \* the documents of the clients that send the valid token
    Workers,       \* threads that run handlers
    MaxInflight,   \* max_inflight_writes
    Nobody,        \* no thread
    MaxVersion     \* bound: the versions a client uploads

Tables == {"project_proposals", "project_runs"}

ASSUME DaemonAssumption ==
    /\ Documents \subseteq [table : Tables, project : Projects, id : Ids]
    /\ Authorized \subseteq Documents
    /\ IsFiniteSet(Workers)
    /\ Nobody \notin Workers
    /\ MaxInflight \in Nat \ {0}
    /\ MaxVersion \in Nat

VARIABLES
    up,        \* the daemon is running
    slots,     \* write_slots, a BoundedSemaphore
    rows,      \* the committed rows of the database file
    writer,    \* the thread whose transaction holds the database's write lock
    pc,        \* where each thread is
    work,      \* the upload it handles
    waiting,   \* the thread that handles each client's attempt
    acked,     \* the version last acknowledged to each client
    gaveUp     \* history: the clients that ever stopped waiting for an answer

vars == <<up, slots, rows, writer, pc, work, waiting, acked, gaveUp>>

Upload  == [doc : Documents, version : Nat]
NoWork  == [doc |-> Nobody, version |-> 0]
NoRow   == [doc |-> Nobody, version |-> 0]

\* PRIMARY KEY(project_id, proposal_id), PRIMARY KEY(project_id, run_id).
Key_NoProject(d) == <<d.table, d.id>>
Key(d) == <<d.table, d.project, d.id>>

RowKeys == {Key(d) : d \in Documents}

\* The database outlives the daemon; CREATE TABLE IF NOT EXISTS keeps its rows.
Init ==
    /\ up = TRUE
    /\ slots = MaxInflight
    /\ rows = [k \in RowKeys |-> NoRow]
    /\ writer = Nobody
    /\ pc = [w \in Workers |-> "idle"]
    /\ work = [w \in Workers |-> NoWork]
    /\ waiting = [d \in Documents |-> Nobody]
    /\ acked = [d \in Documents |-> 0]
    /\ gaveUp = {}

-----------------------------------------------------------------------------
(* The clients                                                             *)

\* The first attempt at a version, or a retry of it.
Send(d, w) ==
    /\ up
    /\ waiting[d] = Nobody
    /\ acked[d] < MaxVersion
    /\ pc[w] = "idle"
    /\ pc' = [pc EXCEPT ![w] = "arrived"]
    /\ work' = [work EXCEPT ![w] = [doc |-> d, version |-> acked[d] + 1]]
    /\ waiting' = [waiting EXCEPT ![d] = w]
    /\ UNCHANGED <<up, slots, rows, writer, acked, gaveUp>>

GiveUp(d) ==
    /\ waiting[d] # Nobody
    /\ waiting' = [waiting EXCEPT ![d] = Nobody]
    /\ gaveUp' = gaveUp \cup {d}
    /\ UNCHANGED <<up, slots, rows, writer, pc, work, acked>>

-----------------------------------------------------------------------------
(* A handler                                                               *)

\* The answer ends the handler and reaches its client if that still waits.
Answer(w, status) ==
    LET d == work[w].doc
        heard == waiting[d] = w
    IN  /\ pc' = [pc EXCEPT ![w] = "idle"]
        /\ work' = [work EXCEPT ![w] = NoWork]
        /\ waiting' = IF heard THEN [waiting EXCEPT ![d] = Nobody] ELSE waiting
        /\ acked' = IF heard /\ status = "ok"
                    THEN [acked EXCEPT ![d] = work[w].version] ELSE acked
        /\ UNCHANGED <<up, rows, writer, gaveUp>>

\* require_token.
TokenValid(w) == work[w].doc \in Authorized

Unauthorized(w) ==
    /\ pc[w] = "arrived"
    /\ ~TokenValid(w)
    /\ Answer(w, "401")
    /\ UNCHANGED slots

\* acquire(blocking=False).
Acquire(w) ==
    /\ pc[w] = "arrived"
    /\ TokenValid(w)
    /\ slots > 0
    /\ slots' = slots - 1
    /\ pc' = [pc EXCEPT ![w] = "admitted"]
    /\ UNCHANGED <<up, rows, writer, work, waiting, acked, gaveUp>>

Saturated_Waits(w) == FALSE
Saturated(w) ==
    /\ pc[w] = "arrived"
    /\ TokenValid(w)
    /\ slots = 0
    /\ Answer(w, "429")
    /\ UNCHANGED slots

\* INSERT OR REPLACE opens a transaction, alone in the database.
Insert(w) ==
    /\ pc[w] = "admitted"
    /\ writer = Nobody
    /\ writer' = w
    /\ pc' = [pc EXCEPT ![w] = "writing"]
    /\ UNCHANGED <<up, slots, rows, work, waiting, acked, gaveUp>>

\* The connection's context manager commits.
Commit(w) ==
    /\ pc[w] = "writing"
    /\ rows' = [rows EXCEPT ![Key(work[w].doc)] = work[w]]
    /\ writer' = Nobody
    /\ pc' = [pc EXCEPT ![w] = "saved"]
    /\ UNCHANGED <<up, slots, work, waiting, acked, gaveUp>>

\* ... or rolls back: the lock was not to be had in time, or the disk failed.
Fail(w) ==
    /\ pc[w] \in {"admitted", "writing"}
    /\ writer' = IF writer = w THEN Nobody ELSE writer
    /\ pc' = [pc EXCEPT ![w] = "failed"]
    /\ UNCHANGED <<up, slots, rows, work, waiting, acked, gaveUp>>

\* The finally block.
Returned_NotOnError(w) == slots + (IF pc[w] = "saved" THEN 1 ELSE 0)
Returned_TwiceOnError(w) == slots + (IF pc[w] = "saved" THEN 1 ELSE 2)
Returned(w) == slots + 1

Release(w) ==
    /\ pc[w] \in {"saved", "failed"}
    /\ slots' = Returned(w)
    /\ pc' = [pc EXCEPT ![w] = IF pc[w] = "saved" THEN "ok" ELSE "error"]
    /\ UNCHANGED <<up, rows, writer, work, waiting, acked, gaveUp>>

Reply(w) == IF pc[w] = "ok" THEN "ok" ELSE "500"

Return(w) ==
    /\ pc[w] \in {"ok", "error"}
    /\ Answer(w, Reply(w))
    /\ UNCHANGED slots

Handle(w) ==
    \/ Unauthorized(w)
    \/ Acquire(w)
    \/ Saturated(w)
    \/ Insert(w)
    \/ Commit(w)
    \/ Fail(w)
    \/ Release(w)
    \/ Return(w)

-----------------------------------------------------------------------------
(* The process                                                             *)

\* The process dies with its threads and its semaphore: the transaction in
\* progress is rolled back, the connections of the clients are lost.
Crash ==
    /\ up
    /\ up' = FALSE
    /\ writer' = Nobody
    /\ pc' = [w \in Workers |-> "idle"]
    /\ work' = [w \in Workers |-> NoWork]
    /\ waiting' = [d \in Documents |-> Nobody]
    /\ UNCHANGED <<slots, rows, acked, gaveUp>>

\* create_daemon_app over the same database file.
Restart ==
    /\ ~up
    /\ up' = TRUE
    /\ slots' = MaxInflight
    /\ UNCHANGED <<rows, writer, pc, work, waiting, acked, gaveUp>>

Next ==
    \/ \E d \in Documents, w \in Workers : Send(d, w)
    \/ \E d \in Documents : GiveUp(d)
    \/ \E w \in Workers : Handle(w)
    \/ Crash
    \/ Restart

Spec == Init /\ [][Next]_vars

\* The operating system runs every thread; nothing makes a client send or
\* wait, a process crash or an operator restart it.
FairSpec == Spec /\ \A w \in Workers : WF_vars(Handle(w))

-----------------------------------------------------------------------------
(* Properties                                                              *)

Points == {"idle", "arrived", "admitted", "writing", "saved", "failed", "ok", "error"}

Idle(w) == pc[w] = "idle"
Holding == {w \in Workers : pc[w] \in {"admitted", "writing", "saved", "failed"}}

\* Types of the database, of the handlers and of the clients.
TypeOK ==
    /\ up \in BOOLEAN
    /\ slots \in 0 .. MaxInflight
    /\ rows \in [RowKeys -> Upload \cup {NoRow}]
    /\ writer \in Workers \cup {Nobody}
    /\ pc \in [Workers -> Points]
    /\ work \in [Workers -> Upload \cup {NoWork}]
    /\ \A w \in Workers : ~Idle(w) => work[w] \in Upload
    /\ waiting \in [Documents -> Workers \cup {Nobody}]
    /\ acked \in [Documents -> Nat]
    /\ gaveUp \subseteq Documents

\* No path through a handler loses a slot or returns one twice, and writes
\* never exceed max_inflight_writes (the acquire and the finally of
\* save_proposal and save_run).
SlotsAccounted == up => slots + Cardinality(Holding) = MaxInflight

\* The version of d in the database.
Kept(d) == IF rows[Key(d)].doc = d THEN rows[Key(d)].version ELSE 0

\* Whatever crashes, fails or is abandoned, and whatever other projects upload
\* under the same id, a document once acknowledged is in the database, in a
\* version its client sent, and in an older one than the acknowledged only if
\* that client itself gave up an attempt, whose handler may commit late
\* (save_proposal and save_run over the primary keys of sqlite.py).
AcknowledgedKept ==
    \A d \in Documents :
        /\ acked[d] > 0 => Kept(d) > 0
        /\ Kept(d) <= acked[d] + 1
        /\ Kept(d) < acked[d] => d \in gaveUp

KeptVersions == [d \in Documents |-> Kept(d)]

Port == INSTANCE DurableUpload WITH kept <- KeptVersions

\* For clients that wait, an acknowledged upload is stored and stays stored
\* through crashes, failures and retries: neither another attempt nor another
\* project's upload replaces it by anything but the next version.  (A client
\* that gives up may see its abandoned attempt commit later, over a newer one.)
ImplementsDurableUpload ==
    Port!Init /\ [][gaveUp' = {} => Port!Next]_<<KeptVersions, acked>>

\* Every request is answered, or the daemon crashes: no handler waits for a
\* slot, and a wait for the database's lock ends.
RequestsEnd == \A w \in Workers : ~Idle(w) ~> Idle(w)

\* Saturation passes: a daemon whose slots are all taken admits writes again.
SaturationEnds == slots = 0 ~> slots > 0 \/ ~up
=============================================================================
