------------------------------ MODULE FileCache ------------------------------
(***************************************************************************)
(* optimize/cache.py, FileCacheBackend: a result cache in one JSON file.   *)
(* Every process that opens the directory has a backend of its own; its    *)
(* lock serializes the threads of that process and nothing else.  Saving   *)
(* is write_text: the file is truncated, then written.                     *)
(*                                                                         *)
(* X_Variant before X is X with a plausible bug, used by no specification. *)
(***************************************************************************)
EXTENDS Naturals, FiniteSets

CONSTANTS
    Clients,      \* threads that use the cache
    Processes,    \* processes, each with its own FileCacheBackend
    Keys,         \* composite cache keys
    Values,       \* results
    None,         \* Python's None: a miss
    Ttls,         \* the ttl_seconds the callers' policies ask for
    MaxEntries,   \* max_entries
    MaxTime,      \* bound: the wall clock stops here
    MaxPuts       \* bound: put() calls in a behaviour

Entries  == [value : Values, expires : Nat]
NoEntry  == [value |-> None, expires |-> 0]
Contents == [Keys -> Entries \cup {NoEntry}]

ASSUME FileCacheAssumption ==
    /\ IsFiniteSet(Keys)
    /\ Ttls \subseteq Nat
    /\ MaxEntries \in Nat
    /\ MaxTime \in Nat
    /\ MaxPuts \in Nat
    /\ None \notin Keys \cup Values

VARIABLES
    now,       \* the wall clock, time.time()
    text,      \* cache.json: "whole", "empty" (truncated) or "garbage"
    file,      \* the entries in it, while it is whole
    owner,     \* the process each client runs in
    pc,        \* where each client is
    op,        \* the call it is in: its key, its entry and its clock reading
    loaded,    \* what it read from the file
    saving,    \* what it is going to write
    reply,     \* history: its last hit (no entry: none), with the clock reading
    stored,    \* history: every entry a put() was asked to store
    puts       \* put() calls so far (bounded by MaxPuts)

vars == <<now, text, file, owner, pc, op, loaded, saving, reply, stored, puts>>

Nothing == [k \in Keys |-> NoEntry]
NoOp == [key |-> None, entry |-> NoEntry, asked |-> 0]
Held(f) == {k \in Keys : f[k] # NoEntry}

\* An absent file loads as an empty one.
Init ==
    /\ now = 0
    /\ text = "whole"
    /\ file = Nothing
    /\ owner \in [Clients -> Processes]
    /\ pc = [c \in Clients |-> "idle"]
    /\ op = [c \in Clients |-> NoOp]
    /\ loaded = [c \in Clients |-> Nothing]
    /\ saving = [c \in Clients |-> Nothing]
    /\ reply = [c \in Clients |-> NoOp]
    /\ stored = {}
    /\ puts = 0

\* _load: a missing or undecodable file is an empty cache.
Loaded == IF text = "whole" THEN file ELSE Nothing

Expired_Late(entry, time) == entry.expires < time
Expired(entry, time) == entry.expires <= time

ExpiresAt_Swapped(ttl) == now - ttl
ExpiresAt(ttl) == now + ttl

\* The lock of p's backend, held from the load to the end of the save.
Locked_Never(p) == FALSE
Locked(p) == \E c \in Clients : owner[c] = p /\ pc[c] \in {"save", "write"}

\* put() drops what has expired ...
Pruned(f, time) ==
    [k \in Keys |-> IF k \in Held(f) /\ ~Expired(f[k], time) THEN f[k] ELSE NoEntry]

\* ... and, if that leaves too many entries, one that expires first.
Oldest(f) ==
    {k \in Held(f) : \A j \in Held(f) : f[k].expires <= f[j].expires}

OverFull_OneLate(f) == Cardinality(Held(f)) > MaxEntries + 1
OverFull(f) == Cardinality(Held(f)) > MaxEntries

-----------------------------------------------------------------------------
\* A call reads the clock before it takes the lock.
Call(c, method, k, entry) ==
    /\ pc[c] = "idle"
    /\ pc' = [pc EXCEPT ![c] = method]
    /\ op' = [op EXCEPT ![c] = [key |-> k, entry |-> entry, asked |-> now]]
    /\ reply' = [reply EXCEPT ![c] = NoOp]
    /\ UNCHANGED <<now, text, file, owner, loaded, saving, stored>>

Get(c, k) == Call(c, "get", k, NoEntry) /\ UNCHANGED puts

Put(c, k, v, ttl) ==
    /\ puts < MaxPuts
    /\ puts' = puts + 1
    /\ Call(c, "put", k, [value |-> v, expires |-> ExpiresAt(ttl)])

Invalidate(c, k) == Call(c, "invalidate", k, NoEntry) /\ UNCHANGED puts

Save(c, contents) ==
    /\ pc' = [pc EXCEPT ![c] = "save"]
    /\ loaded' = [loaded EXCEPT ![c] = Loaded]
    /\ saving' = [saving EXCEPT ![c] = contents]

\* get() of a live entry, or of none.
GetAnswer(c) ==
    LET k == op[c].key
        found == Loaded[k]
    IN  /\ pc[c] = "get"
        /\ ~Locked(owner[c])
        /\ found # NoEntry => ~Expired(found, op[c].asked)
        /\ pc' = [pc EXCEPT ![c] = "idle"]
        /\ op' = [op EXCEPT ![c] = NoOp]
        /\ reply' = [reply EXCEPT ![c] =
                        IF found = NoEntry THEN NoOp ELSE [op[c] EXCEPT !.entry = found]]
        /\ UNCHANGED <<now, text, file, owner, loaded, saving, stored, puts>>

\* get() of an expired entry removes it before it answers None.
GetExpired(c) ==
    LET k == op[c].key
    IN  /\ pc[c] = "get"
        /\ ~Locked(owner[c])
        /\ Loaded[k] # NoEntry
        /\ Expired(Loaded[k], op[c].asked)
        /\ Save(c, [Loaded EXCEPT ![k] = NoEntry])
        /\ UNCHANGED <<now, text, file, owner, op, reply, stored, puts>>

PutLoad(c) ==
    LET k == op[c].key
        e == op[c].entry
        f == [Pruned(Loaded, op[c].asked) EXCEPT ![k] = e]
    IN  /\ pc[c] = "put"
        /\ ~Locked(owner[c])
        /\ \/ ~OverFull(f) /\ Save(c, f)
           \/ OverFull(f) /\ \E j \in Oldest(f) : Save(c, [f EXCEPT ![j] = NoEntry])
        /\ stored' = stored \cup {<<k, e>>}
        /\ UNCHANGED <<now, text, file, owner, op, reply, puts>>

InvalidateLoad(c) ==
    /\ pc[c] = "invalidate"
    /\ ~Locked(owner[c])
    /\ Save(c, [Loaded EXCEPT ![op[c].key] = NoEntry])
    /\ UNCHANGED <<now, text, file, owner, op, reply, stored, puts>>

\* write_text opens the file for writing ...
Truncate(c) ==
    /\ pc[c] = "save"
    /\ text' = "empty"
    /\ file' = Nothing
    /\ pc' = [pc EXCEPT ![c] = "write"]
    /\ UNCHANGED <<now, owner, op, loaded, saving, reply, stored, puts>>

\* ... and writes from its start: over what another process wrote meanwhile,
\* of which a longer text keeps its tail.
Write(c) ==
    /\ pc[c] = "write"
    /\ \/ /\ text' = "whole"
          /\ file' = saving[c]
       \/ /\ text # "empty"
          /\ text' = "garbage"
          /\ file' = Nothing
    /\ pc' = [pc EXCEPT ![c] = "idle"]
    /\ op' = [op EXCEPT ![c] = NoOp]
    /\ loaded' = [loaded EXCEPT ![c] = Nothing]
    /\ saving' = [saving EXCEPT ![c] = Nothing]
    /\ UNCHANGED <<now, owner, reply, stored, puts>>

\* A process dies and is started again; it may have written a part.
Crash(p) ==
    LET mine == {c \in Clients : owner[c] = p}
    IN  /\ \E c \in mine : pc[c] # "idle"
        /\ \/ UNCHANGED <<text, file>>
           \/ /\ \E c \in mine : pc[c] = "write"
              /\ text' = "garbage"
              /\ file' = Nothing
        /\ pc' = [c \in Clients |-> IF c \in mine THEN "idle" ELSE pc[c]]
        /\ op' = [c \in Clients |-> IF c \in mine THEN NoOp ELSE op[c]]
        /\ loaded' = [c \in Clients |-> IF c \in mine THEN Nothing ELSE loaded[c]]
        /\ saving' = [c \in Clients |-> IF c \in mine THEN Nothing ELSE saving[c]]
        /\ reply' = [c \in Clients |-> IF c \in mine THEN NoOp ELSE reply[c]]
        /\ UNCHANGED <<now, owner, stored, puts>>

Tick ==
    /\ now < MaxTime
    /\ now' = now + 1
    /\ UNCHANGED <<text, file, owner, pc, op, loaded, saving, reply, stored, puts>>

ClientStep(c) ==
    \/ \E k \in Keys : Get(c, k) \/ Invalidate(c, k)
    \/ \E k \in Keys, v \in Values, ttl \in Ttls : Put(c, k, v, ttl)
    \/ GetAnswer(c)
    \/ GetExpired(c)
    \/ PutLoad(c)
    \/ InvalidateLoad(c)
    \/ Truncate(c)
    \/ Write(c)

Next ==
    \/ \E c \in Clients : ClientStep(c)
    \/ \E p \in Processes : Crash(p)
    \/ Tick

Spec == Init /\ [][Next]_vars

-----------------------------------------------------------------------------
(* Properties                                                              *)

Ops == [key : Keys \cup {None}, entry : Entries \cup {NoEntry}, asked : Nat]

\* Types of the file, of the calls in progress and of the history.
TypeOK ==
    /\ now \in Nat
    /\ text \in {"whole", "empty", "garbage"}
    /\ file \in Contents
    /\ owner \in [Clients -> Processes]
    /\ pc \in [Clients -> {"idle", "get", "put", "invalidate", "save", "write"}]
    /\ op \in [Clients -> Ops]
    /\ \A c \in Clients :
          /\ pc[c] \in {"get", "put", "invalidate"} => op[c].key \in Keys
          /\ pc[c] = "put" => op[c].entry \in Entries
    /\ loaded \in [Clients -> Contents]
    /\ saving \in [Clients -> Contents]
    /\ reply \in [Clients -> Ops]
    /\ stored \subseteq Keys \X Entries
    /\ puts \in Nat

\* Whatever processes crash, overlap or overwrite each other, a hit is an
\* entry some put() was asked to store under that key, and it had not expired
\* when the call read the clock (get()).
HitsAreGenuine ==
    \A c \in Clients :
        reply[c].entry # NoEntry => /\ <<reply[c].key, reply[c].entry>> \in stored
                                    /\ reply[c].asked < reply[c].entry.expires

\* The file never holds more than max_entries (the pruning and the eviction
\* of put(), over whatever the file held when it was read).
EntriesBounded == Cardinality(Held(file)) <= MaxEntries

OneProcess == \A c, d \in Clients : owner[c] = owner[d]

\* The threads of one process see a cache: the lock makes load and save one
\* step, which happens when the text is written.  Several processes do not
\* (a save brings back what another process removed or replaced).
Unwritten == {c \in Clients : pc[c] = "write"}

Visible == IF Unwritten = {} THEN Loaded ELSE loaded[CHOOSE c \in Unwritten : TRUE]

Answers == [c \in Clients |-> [key |-> reply[c].key, entry |-> reply[c].entry]]

Port == INSTANCE LossyCache WITH held <- Visible, reply <- Answers

\* FileCacheBackend keeps the promise of a result cache for one process.
ImplementsLossyCache ==
    Port!Init /\ [][OneProcess => Port!Next]_<<Visible, Answers>>
=============================================================================
