-------------------------- MODULE FileCacheProofs --------------------------
(***************************************************************************)
(* What FileCache keeps for every number of processes, threads, keys and   *)
(* crashes.                                                                *)
(***************************************************************************)
EXTENDS FileCache, FiniteSetTheorems, TLAPS

(***************************************************************************)
(* Type correctness.                                                       *)
(***************************************************************************)

LEMMA LoadedType == TypeOK => Loaded \in Contents
  BY DEF TypeOK, Loaded, Nothing, Contents

LEMMA PrunedType ==
    ASSUME NEW f \in Contents, NEW t
    PROVE  Pruned(f, t) \in Contents
  BY DEF Pruned, Contents

LEMMA NothingType == Nothing \in Contents
  BY DEF Nothing, Contents

LEMMA NoOpType == NoOp \in Ops
  BY DEF NoOp, Ops

\* Every reachable state is well typed (FileCacheBackend, its calls and the
\* file).
THEOREM FileTypeCorrect == Spec => []TypeOK
<1>1. Init => TypeOK
  BY NothingType, NoOpType DEF Init, TypeOK
<1>2. TypeOK /\ [Next]_vars => TypeOK'
  <2> SUFFICES ASSUME TypeOK, [Next]_vars PROVE TypeOK'
    OBVIOUS
  <2> USE NothingType, NoOpType, LoadedType
  <2>1. ASSUME NEW c \in Clients, NEW m \in {"get", "put", "invalidate"},
               NEW k \in Keys, NEW e \in Entries \cup {NoEntry},
               m = "put" => e \in Entries, puts' \in Nat, Call(c, m, k, e)
        PROVE  TypeOK'
    <3>1. [key |-> k, entry |-> e, asked |-> now] \in Ops
      BY <2>1 DEF Ops, TypeOK
    <3>2. op' \in [Clients -> Ops] /\ reply' \in [Clients -> Ops]
      BY <2>1, <3>1 DEF Call, TypeOK
    <3>3. \A d \in Clients :
             /\ pc'[d] \in {"get", "put", "invalidate"} => op'[d].key \in Keys
             /\ pc'[d] = "put" => op'[d].entry \in Entries
      BY <2>1 DEF Call, TypeOK
    <3> QED BY <2>1, <3>2, <3>3 DEF Call, TypeOK
  <2>2. ASSUME NEW c \in Clients, NEW k \in Keys, Get(c, k) \/ Invalidate(c, k)
        PROVE  TypeOK'
    <3>1. puts' \in Nat
      BY <2>2 DEF Get, Invalidate, TypeOK
    <3>2. CASE Get(c, k)
      BY <2>1, <3>1, <3>2 DEF Get
    <3>3. CASE Invalidate(c, k)
      BY <2>1, <3>1, <3>3 DEF Invalidate
    <3> QED BY <2>2, <3>2, <3>3
  <2>3. ASSUME NEW c \in Clients, NEW k \in Keys, NEW v \in Values, NEW ttl \in Ttls,
               Put(c, k, v, ttl)
        PROVE  TypeOK'
    <3>1. [value |-> v, expires |-> ExpiresAt(ttl)] \in Entries
      BY FileCacheAssumption DEF Entries, TypeOK, ExpiresAt
    <3>2. puts' \in Nat
      BY <2>3 DEF Put, TypeOK
    <3> QED BY <2>1, <2>3, <3>1, <3>2 DEF Put
  <2>4. ASSUME NEW c \in Clients, GetAnswer(c) PROVE TypeOK'
    <3>1. op[c] \in Ops /\ Loaded[op[c].key] \in Entries \cup {NoEntry}
      BY <2>4 DEF GetAnswer, TypeOK, Contents
    <3>2. [op[c] EXCEPT !.entry = Loaded[op[c].key]] \in Ops
      BY <3>1 DEF Ops
    <3>3. reply' \in [Clients -> Ops] /\ op' \in [Clients -> Ops]
      BY <2>4, <3>2 DEF GetAnswer, TypeOK
    <3> QED BY <2>4, <3>3 DEF GetAnswer, TypeOK
  <2>5. ASSUME NEW c \in Clients, NEW f \in Contents, Save(c, f),
               stored' \subseteq Keys \X Entries,
               UNCHANGED <<now, text, file, owner, op, reply, puts>>
        PROVE  TypeOK'
    BY <2>5 DEF Save, TypeOK
  <2>6. ASSUME NEW c \in Clients, GetExpired(c) PROVE TypeOK'
    <3>1. [Loaded EXCEPT ![op[c].key] = NoEntry] \in Contents
      BY <2>6 DEF Contents
    <3> QED BY <2>5, <2>6, <3>1 DEF GetExpired, TypeOK
  <2>7. ASSUME NEW c \in Clients, PutLoad(c) PROVE TypeOK'
    <3> DEFINE f == [Pruned(Loaded, op[c].asked) EXCEPT ![op[c].key] = op[c].entry]
    <3>1. op[c].key \in Keys /\ op[c].entry \in Entries
      BY <2>7 DEF PutLoad, TypeOK
    <3>2. f \in Contents /\ \A j \in Keys : [f EXCEPT ![j] = NoEntry] \in Contents
      BY <3>1, PrunedType DEF Contents
    <3>3. \A j \in Oldest(f) : j \in Keys
      BY DEF Oldest, Held
    <3>4. stored' \subseteq Keys \X Entries
      BY <2>7, <3>1 DEF PutLoad, TypeOK
    <3>5. PICK g \in Contents : Save(c, g)
      BY <2>7, <3>2, <3>3 DEF PutLoad
    <3> QED BY <2>5, <2>7, <3>4, <3>5 DEF PutLoad
  <2>8. ASSUME NEW c \in Clients, InvalidateLoad(c) PROVE TypeOK'
    <3>1. [Loaded EXCEPT ![op[c].key] = NoEntry] \in Contents
      BY <2>8 DEF Contents
    <3> QED BY <2>5, <2>8, <3>1 DEF InvalidateLoad, TypeOK
  <2>9. ASSUME NEW c \in Clients, Truncate(c) PROVE TypeOK'
    BY <2>9 DEF Truncate, TypeOK
  <2>10. ASSUME NEW c \in Clients, Write(c) PROVE TypeOK'
    <3>1. op' \in [Clients -> Ops]
      BY <2>10 DEF Write, TypeOK
    <3> QED BY <2>10, <3>1 DEF Write, TypeOK
  <2>11. ASSUME NEW p \in Processes, Crash(p) PROVE TypeOK'
    <3>1. op' \in [Clients -> Ops] /\ reply' \in [Clients -> Ops]
      BY <2>11 DEF Crash, TypeOK
    <3> QED BY <2>11, <3>1 DEF Crash, TypeOK
  <2>12. CASE Tick
    BY <2>12 DEF Tick, TypeOK
  <2>13. CASE UNCHANGED vars
    BY <2>13 DEF vars, TypeOK
  <2> QED
    BY <2>2, <2>3, <2>4, <2>6, <2>7, <2>8, <2>9, <2>10, <2>11, <2>12, <2>13
    DEF Next, ClientStep
<1> QED BY <1>1, <1>2, PTL DEF Spec

(***************************************************************************)
(* Hits are genuine: everything in the file, and everything about to be    *)
(* written to it, was once handed to put() under the same key.             *)
(***************************************************************************)

Offered(f) == \A k \in Keys : f[k] # NoEntry => <<k, f[k]>> \in stored

GenuineInv ==
    /\ Offered(file)
    /\ \A c \in Clients : Offered(saving[c])
    /\ HitsAreGenuine

LEMMA NoEntryIsNone == NoEntry \notin Entries
  BY FileCacheAssumption DEF NoEntry, Entries

LEMMA OfferedLoaded == TypeOK /\ Offered(file) => Offered(Loaded)
  BY DEF Offered, Loaded, Nothing

LEMMA OfferedNothing == Offered(Nothing)
  BY DEF Offered, Nothing

LEMMA RemovalOffered ==
    ASSUME NEW f \in Contents, NEW k \in Keys, Offered(f)
    PROVE  Offered([f EXCEPT ![k] = NoEntry])
  BY DEF Offered, Contents

LEMMA GenuineInvariant == Spec => []GenuineInv
<1>1. Init => GenuineInv
  BY OfferedNothing DEF Init, GenuineInv, HitsAreGenuine, NoOp
<1>2. TypeOK /\ GenuineInv /\ [Next]_vars => GenuineInv'
  <2> SUFFICES ASSUME TypeOK, GenuineInv, [Next]_vars PROVE GenuineInv'
    OBVIOUS
  <2> USE OfferedLoaded, OfferedNothing, LoadedType
  <2>1. ASSUME NEW c \in Clients, NEW m, NEW k, NEW e, Call(c, m, k, e)
        PROVE  GenuineInv'
    BY <2>1 DEF Call, GenuineInv, HitsAreGenuine, Offered, NoOp, TypeOK
  <2>2. ASSUME NEW c \in Clients, GetAnswer(c) PROVE GenuineInv'
    <3> DEFINE k == op[c].key
               r == IF Loaded[k] = NoEntry THEN NoOp ELSE [op[c] EXCEPT !.entry = Loaded[k]]
    <3>1. k \in Keys /\ op[c] \in Ops /\ reply' = [reply EXCEPT ![c] = r]
      BY <2>2 DEF GetAnswer, TypeOK
    <3>2. r.entry # NoEntry =>
             /\ <<r.key, r.entry>> \in stored
             /\ r.asked < r.entry.expires
      <4>1. CASE Loaded[k] = NoEntry
        BY <4>1 DEF NoOp
      <4>2. CASE Loaded[k] # NoEntry
        <5>1. r.key = k /\ r.entry = Loaded[k] /\ r.asked = op[c].asked
          BY <3>1, <4>2 DEF Ops
        <5>2. <<k, Loaded[k]>> \in stored
          BY <3>1, <4>2 DEF GenuineInv, Offered
        <5>3. Loaded[k] \in Entries /\ op[c].asked \in Nat
          BY <3>1, <4>2 DEF Contents, Ops
        <5>4. ~(Loaded[k].expires <= op[c].asked)
          BY <2>2, <4>2 DEF GetAnswer, Expired
        <5> QED BY <5>1, <5>2, <5>3, <5>4 DEF Entries
      <4> QED BY <4>1, <4>2
    <3>3. HitsAreGenuine'
      BY <2>2, <3>1, <3>2 DEF GetAnswer, HitsAreGenuine, GenuineInv, TypeOK
    <3> QED BY <2>2, <3>3 DEF GetAnswer, GenuineInv, Offered
  <2>3. ASSUME NEW c \in Clients, NEW f \in Contents, Save(c, f),
               \A i \in Keys : f[i] # NoEntry => <<i, f[i]>> \in stored',
               stored \subseteq stored', UNCHANGED <<text, file, reply>>
        PROVE  GenuineInv'
    BY <2>3 DEF Save, GenuineInv, HitsAreGenuine, Offered, TypeOK
  <2>4. ASSUME NEW c \in Clients, GetExpired(c) PROVE GenuineInv'
    <3> DEFINE f == [Loaded EXCEPT ![op[c].key] = NoEntry]
    <3>1. f \in Contents /\ Offered(f)
      BY <2>4, RemovalOffered DEF GetExpired, TypeOK, Contents, GenuineInv
    <3>2. \A i \in Keys : f[i] # NoEntry => <<i, f[i]>> \in stored'
      BY <2>4, <3>1 DEF GetExpired, Offered
    <3>3. PICK g \in Contents :
              /\ Save(c, g)
              /\ \A i \in Keys : g[i] # NoEntry => <<i, g[i]>> \in stored'
      BY <2>4, <3>1, <3>2 DEF GetExpired
    <3>4. stored \subseteq stored' /\ UNCHANGED <<text, file, reply>>
      BY <2>4 DEF GetExpired
    <3> QED BY <2>3, <3>3, <3>4
  <2>5. ASSUME NEW c \in Clients, InvalidateLoad(c) PROVE GenuineInv'
    <3> DEFINE f == [Loaded EXCEPT ![op[c].key] = NoEntry]
    <3>1. f \in Contents /\ Offered(f)
      BY <2>5, RemovalOffered DEF InvalidateLoad, TypeOK, Contents, GenuineInv
    <3>2. \A i \in Keys : f[i] # NoEntry => <<i, f[i]>> \in stored'
      BY <2>5, <3>1 DEF InvalidateLoad, Offered
    <3>3. PICK g \in Contents :
              /\ Save(c, g)
              /\ \A i \in Keys : g[i] # NoEntry => <<i, g[i]>> \in stored'
      BY <2>5, <3>1, <3>2 DEF InvalidateLoad
    <3>4. stored \subseteq stored' /\ UNCHANGED <<text, file, reply>>
      BY <2>5 DEF InvalidateLoad
    <3> QED BY <2>3, <3>3, <3>4
  <2>6. ASSUME NEW c \in Clients, PutLoad(c) PROVE GenuineInv'
    <3> DEFINE k == op[c].key
               e == op[c].entry
               f == [Pruned(Loaded, op[c].asked) EXCEPT ![k] = e]
    <3>1. k \in Keys /\ e \in Entries /\ stored' = stored \cup {<<k, e>>}
      BY <2>6 DEF PutLoad, TypeOK
    <3>2. Pruned(Loaded, op[c].asked) \in Contents
      BY PrunedType
    <3>3. f \in Contents
      BY <3>1, <3>2 DEF Contents
    <3>4. \A j \in Keys : f[j] # NoEntry => <<j, f[j]>> \in stored'
      <4> SUFFICES ASSUME NEW j \in Keys, f[j] # NoEntry PROVE <<j, f[j]>> \in stored'
        OBVIOUS
      <4>1. CASE j = k
        BY <3>1, <3>2, <4>1 DEF Contents
      <4>2. CASE j # k
        <5>1. f[j] = Pruned(Loaded, op[c].asked)[j]
          BY <3>1, <3>2, <4>2 DEF Contents
        <5>2. f[j] = Loaded[j] /\ Loaded[j] # NoEntry
          BY <5>1 DEF Pruned
        <5> QED BY <3>1, <5>2 DEF GenuineInv, Offered
      <4> QED BY <4>1, <4>2
    <3>5. \A j \in Keys : /\ [f EXCEPT ![j] = NoEntry] \in Contents
                          /\ \A i \in Keys : [f EXCEPT ![j] = NoEntry][i] # NoEntry =>
                                <<i, [f EXCEPT ![j] = NoEntry][i]>> \in stored'
      BY <3>3, <3>4 DEF Contents
    <3>6. \A j \in Oldest(f) : j \in Keys
      BY DEF Oldest, Held
    <3>7. PICK g \in Contents :
              /\ Save(c, g)
              /\ \A i \in Keys : g[i] # NoEntry => <<i, g[i]>> \in stored'
      BY <2>6, <3>3, <3>4, <3>5, <3>6 DEF PutLoad
    <3>8. UNCHANGED <<text, file, reply>> /\ stored \subseteq stored'
      BY <2>6, <3>1 DEF PutLoad
    <3>9. saving' = [saving EXCEPT ![c] = g]
      BY <3>7 DEF Save
    <3> QED BY <3>1, <3>7, <3>8, <3>9 DEF GenuineInv, HitsAreGenuine, Offered, TypeOK
  <2>7. ASSUME NEW c \in Clients, Truncate(c) PROVE GenuineInv'
    BY <2>7 DEF Truncate, GenuineInv, HitsAreGenuine, Offered, Nothing
  <2>8. ASSUME NEW c \in Clients, Write(c) PROVE GenuineInv'
    BY <2>8 DEF Write, GenuineInv, HitsAreGenuine, Offered, Nothing, TypeOK
  <2>9. ASSUME NEW p \in Processes, Crash(p) PROVE GenuineInv'
    BY <2>9 DEF Crash, GenuineInv, HitsAreGenuine, Offered, Nothing, NoOp, TypeOK
  <2>10. CASE Tick
    BY <2>10 DEF Tick, GenuineInv, HitsAreGenuine, Offered
  <2>11. CASE UNCHANGED vars
    BY <2>11 DEF vars, GenuineInv, HitsAreGenuine, Offered
  <2> QED
    BY <2>1, <2>2, <2>4, <2>5, <2>6, <2>7, <2>8, <2>9, <2>10, <2>11
    DEF Next, ClientStep, Get, Put, Invalidate
<1> QED BY <1>1, <1>2, FileTypeCorrect, PTL DEF Spec

\* A hit is an unexpired entry that some put() stored under the same key,
\* through every crash, overlap and lost update (get()).
THEOREM HitsGenuine == Spec => []HitsAreGenuine
<1>1. GenuineInv => HitsAreGenuine
  BY DEF GenuineInv
<1> QED BY <1>1, GenuineInvariant, PTL

(***************************************************************************)
(* The bound on the file's entries.                                        *)
(***************************************************************************)

Small(f) == Cardinality(Held(f)) <= MaxEntries

SizeInv == Small(file) /\ \A c \in Clients : Small(saving[c])

LEMMA HeldIsFinite ==
    ASSUME NEW f
    PROVE  IsFiniteSet(Held(f)) /\ Cardinality(Held(f)) \in Nat
  BY FileCacheAssumption, FS_Subset, FS_CardinalityType DEF Held

LEMMA SmallSubset ==
    ASSUME NEW f, NEW g, Small(f), Held(g) \subseteq Held(f)
    PROVE  Small(g)
<1>1. Cardinality(Held(g)) <= Cardinality(Held(f))
  BY HeldIsFinite, FS_Subset
<1> QED BY <1>1, HeldIsFinite, FileCacheAssumption DEF Small

LEMMA SmallNothing == Small(Nothing)
<1>1. Held(Nothing) = {}
  BY DEF Held, Nothing
<1> QED BY <1>1, FS_EmptySet, FileCacheAssumption DEF Small

LEMMA SmallLoaded == Small(file) => Small(Loaded)
  BY SmallNothing DEF Loaded

LEMMA SmallRemoval ==
    ASSUME NEW f \in Contents, NEW k \in Keys, Small(f)
    PROVE  Small([f EXCEPT ![k] = NoEntry])
<1>1. Held([f EXCEPT ![k] = NoEntry]) \subseteq Held(f)
  BY DEF Held, Contents
<1> QED BY <1>1, SmallSubset

\* One entry more than the bound, less an evicted one, is within the bound.
LEMMA SmallEviction ==
    ASSUME NEW f \in Contents, NEW g \in Contents, NEW k \in Keys, Small(g),
           Held(f) \subseteq Held(g) \cup {k}, NEW j \in Oldest(f)
    PROVE  Small([f EXCEPT ![j] = NoEntry])
<1>1. j \in Held(f) /\ j \in Keys
  BY DEF Oldest, Held
<1>2. Held([f EXCEPT ![j] = NoEntry]) = Held(f) \ {j}
  BY <1>1 DEF Held, Contents
<1>3. Cardinality(Held(f) \ {j}) = Cardinality(Held(f)) - 1
  BY <1>1, HeldIsFinite, FS_RemoveElement
<1>4. IsFiniteSet(Held(g) \cup {k}) /\ Cardinality(Held(g) \cup {k}) <= Cardinality(Held(g)) + 1
  <2>1. IsFiniteSet(Held(g)) /\ Cardinality(Held(g)) \in Nat
    BY HeldIsFinite
  <2> QED BY <2>1, FS_AddElement
<1>5. Cardinality(Held(f)) <= Cardinality(Held(g) \cup {k})
  BY <1>4, FS_Subset
<1>6. Cardinality(Held(f)) \in Nat /\ Cardinality(Held(g)) \in Nat
      /\ Cardinality(Held(g) \cup {k}) \in Nat
  BY <1>4, HeldIsFinite, FS_CardinalityType
<1>7. Cardinality(Held(f) \ {j}) <= MaxEntries
  <2>1. Cardinality(Held(g)) <= MaxEntries
    BY DEF Small
  <2> QED BY <1>3, <1>4, <1>5, <1>6, <2>1, FileCacheAssumption
<1>8. Cardinality(Held([f EXCEPT ![j] = NoEntry])) <= MaxEntries
  BY <1>2, <1>7, Zenon
<1> QED BY <1>8 DEF Small

LEMMA SizeInvariant == Spec => []SizeInv
<1>1. Init => SizeInv
  BY SmallNothing DEF Init, SizeInv
<1>2. TypeOK /\ SizeInv /\ [Next]_vars => SizeInv'
  <2> SUFFICES ASSUME TypeOK, SizeInv, [Next]_vars PROVE SizeInv'
    OBVIOUS
  <2> USE DEF SizeInv
  <2>1. Loaded \in Contents /\ Small(Loaded)
    BY LoadedType, SmallLoaded
  <2>2. ASSUME NEW c \in Clients, NEW f, Small(f), Save(c, f), UNCHANGED file
        PROVE  SizeInv'
    BY <2>2 DEF Save, Small, Held, TypeOK
  <2>3. ASSUME NEW c \in Clients, NEW k \in Keys, Save(c, [Loaded EXCEPT ![k] = NoEntry]),
               UNCHANGED file
        PROVE  SizeInv'
    <3>1. PICK f : f = [Loaded EXCEPT ![k] = NoEntry]
      OBVIOUS
    <3>2. Small(f)
      BY <2>1, <3>1, SmallRemoval
    <3> QED BY <2>2, <2>3, <3>1, <3>2
  <2>4. ASSUME NEW c \in Clients, PutLoad(c) PROVE SizeInv'
    <3> DEFINE k == op[c].key
               e == op[c].entry
    <3>1. k \in Keys /\ e \in Entries /\ UNCHANGED file
      BY <2>4 DEF PutLoad, TypeOK
    <3>2. Pruned(Loaded, op[c].asked) \in Contents
      BY <2>1, PrunedType
    <3>3. PICK f \in Contents : f = [Pruned(Loaded, op[c].asked) EXCEPT ![k] = e]
      BY <3>1, <3>2 DEF Contents
    <3>4. Held(f) \subseteq Held(Loaded) \cup {k}
      BY <3>1, <3>2, <3>3 DEF Held, Pruned
    <3>5. \A j \in Oldest(f) : Small([f EXCEPT ![j] = NoEntry])
      BY <2>1, <3>1, <3>4, SmallEviction
    <3>6. CASE ~OverFull(f) /\ Save(c, f)
      <4>1. Small(f)
        BY <3>6, HeldIsFinite, FileCacheAssumption DEF OverFull, Small
      <4> QED BY <2>2, <3>1, <3>6, <4>1
    <3>7. CASE \E j \in Oldest(f) : Save(c, [f EXCEPT ![j] = NoEntry])
      <4>1. PICK j \in Oldest(f) : Save(c, [f EXCEPT ![j] = NoEntry])
        BY <3>7
      <4>2. Small([f EXCEPT ![j] = NoEntry])
        BY <3>5
      <4>3. PICK g : g = [f EXCEPT ![j] = NoEntry]
        OBVIOUS
      <4> QED BY <2>2, <3>1, <4>1, <4>2, <4>3
    <3> QED BY <2>4, <3>3, <3>6, <3>7 DEF PutLoad
  <2>5. ASSUME NEW c \in Clients, GetExpired(c) PROVE SizeInv'
    BY <2>3, <2>5 DEF GetExpired, TypeOK
  <2>6. ASSUME NEW c \in Clients, InvalidateLoad(c) PROVE SizeInv'
    BY <2>3, <2>6 DEF InvalidateLoad, TypeOK
  <2>7. ASSUME NEW c \in Clients, Truncate(c) PROVE SizeInv'
    BY <2>7, SmallNothing DEF Truncate, Small, Held, Nothing
  <2>8. ASSUME NEW c \in Clients, Write(c) PROVE SizeInv'
    BY <2>8, SmallNothing DEF Write, Small, Held, Nothing, TypeOK
  <2>9. ASSUME NEW p \in Processes, Crash(p) PROVE SizeInv'
    BY <2>9, SmallNothing DEF Crash, Small, Held, Nothing
  <2>10. ASSUME NEW c \in Clients, NEW m, NEW k, NEW e, Call(c, m, k, e)
         PROVE  SizeInv'
    BY <2>10 DEF Call, Small, Held
  <2>11. ASSUME NEW c \in Clients, GetAnswer(c) PROVE SizeInv'
    BY <2>11 DEF GetAnswer, Small, Held
  <2>12. CASE Tick
    BY <2>12 DEF Tick, Small, Held
  <2>13. CASE UNCHANGED vars
    BY <2>13 DEF vars, Small, Held
  <2> QED
    BY <2>4, <2>5, <2>6, <2>7, <2>8, <2>9, <2>10, <2>11, <2>12, <2>13
    DEF Next, ClientStep, Get, Put, Invalidate
<1> QED BY <1>1, <1>2, FileTypeCorrect, PTL DEF Spec

\* The file never holds more than max_entries (put()).
THEOREM FileBounded == Spec => []EntriesBounded
<1>1. SizeInv => EntriesBounded
  BY DEF SizeInv, Small, EntriesBounded
<1> QED BY <1>1, SizeInvariant, PTL

(***************************************************************************)
(* One process keeps the promise of a cache.  The lock makes the thread    *)
(* between its load and its write the only one there, so what it loaded is *)
(* what the others would see, and what it writes differs from that in one  *)
(* key and in lost entries.                                                *)
(***************************************************************************)

Saving(c) == pc[c] \in {"save", "write"}

AloneInv ==
    OneProcess =>
        /\ \A c, d \in Clients : Saving(c) /\ Saving(d) => c = d
        /\ \A c \in Clients :
              /\ pc[c] = "save" => loaded[c] = Loaded
              /\ pc[c] = "write" => text = "empty"
              /\ Saving(c) =>
                    /\ op[c].key \in Keys
                    /\ \A k \in Keys \ {op[c].key} :
                          saving[c][k] \in {loaded[c][k], NoEntry}

LEMMA NobodySaves ==
    ASSUME OneProcess, NEW c \in Clients, ~Locked(owner[c])
    PROVE  \A d \in Clients : ~Saving(d)
  BY DEF OneProcess, Locked, Saving

LEMMA AloneInvariant == Spec => []AloneInv
<1>1. Init => AloneInv
  BY DEF Init, AloneInv, Saving
<1>2. TypeOK /\ AloneInv /\ [Next]_vars => AloneInv'
  <2> SUFFICES ASSUME TypeOK, AloneInv, [Next]_vars, OneProcess' PROVE AloneInv'
    BY DEF AloneInv
  <2>1. OneProcess /\ owner' = owner
    BY DEF OneProcess, Next, ClientStep, Get, Put, Invalidate, Call, GetAnswer,
           GetExpired, PutLoad, InvalidateLoad, Truncate, Write, Crash, Tick, vars
  <2> USE <2>1 DEF AloneInv, Saving
  <2>2. ASSUME NEW c \in Clients, NEW m \in {"get", "put", "invalidate"}, NEW k, NEW e,
               Call(c, m, k, e)
        PROVE  AloneInv'
    BY <2>2 DEF Call, Loaded, TypeOK
  <2>3. ASSUME NEW c \in Clients, GetAnswer(c) PROVE AloneInv'
    BY <2>3 DEF GetAnswer, Loaded, TypeOK
  <2>4. ASSUME NEW c \in Clients, ~Locked(owner[c]), NEW f \in Contents, Save(c, f),
               op[c].key \in Keys,
               \A k \in Keys \ {op[c].key} : f[k] \in {Loaded[k], NoEntry},
               UNCHANGED <<text, file, op>>
        PROVE  AloneInv'
    <3>1. \A d \in Clients : ~Saving(d)
      BY <2>4, NobodySaves
    <3> QED BY <2>4, <3>1 DEF Save, Loaded, TypeOK
  <2>5. ASSUME NEW c \in Clients, ~Locked(owner[c]), op[c].key \in Keys,
               Save(c, [Loaded EXCEPT ![op[c].key] = NoEntry]),
               UNCHANGED <<text, file, op>>
        PROVE  AloneInv'
    <3>1. PICK f \in Contents : f = [Loaded EXCEPT ![op[c].key] = NoEntry]
      BY LoadedType DEF Contents
    <3>2. \A k \in Keys \ {op[c].key} : f[k] \in {Loaded[k], NoEntry}
      BY <2>5, <3>1, LoadedType DEF Contents
    <3> QED BY <2>4, <2>5, <3>1, <3>2
  <2>6. ASSUME NEW c \in Clients, GetExpired(c) PROVE AloneInv'
    BY <2>5, <2>6 DEF GetExpired, TypeOK
  <2>7. ASSUME NEW c \in Clients, InvalidateLoad(c) PROVE AloneInv'
    BY <2>5, <2>7 DEF InvalidateLoad, TypeOK
  <2>8. ASSUME NEW c \in Clients, PutLoad(c) PROVE AloneInv'
    <3> DEFINE k == op[c].key
    <3>1. k \in Keys /\ op[c].entry \in Entries
      BY <2>8 DEF PutLoad, TypeOK
    <3>2. Pruned(Loaded, op[c].asked) \in Contents
      BY LoadedType, PrunedType
    <3>3. PICK f \in Contents :
              f = [Pruned(Loaded, op[c].asked) EXCEPT ![k] = op[c].entry]
      BY <3>1, <3>2 DEF Contents
    <3>4. \A i \in Keys \ {k} : f[i] \in {Loaded[i], NoEntry}
      BY <3>1, <3>2, <3>3 DEF Pruned, Contents
    <3>5. PICK g \in Contents :
              /\ Save(c, g)
              /\ \A i \in Keys \ {k} : g[i] \in {Loaded[i], NoEntry}
      <4>1. CASE Save(c, f)
        BY <3>4, <4>1
      <4>2. CASE \E j \in Oldest(f) : Save(c, [f EXCEPT ![j] = NoEntry])
        <5>1. PICK j \in Oldest(f) : Save(c, [f EXCEPT ![j] = NoEntry])
          BY <4>2
        <5>2. [f EXCEPT ![j] = NoEntry] \in Contents
          BY DEF Contents
        <5>3. \A i \in Keys \ {k} : [f EXCEPT ![j] = NoEntry][i] \in {Loaded[i], NoEntry}
          BY <3>4 DEF Contents
        <5> QED BY <5>1, <5>2, <5>3
      <4> QED BY <2>8, <3>3, <4>1, <4>2 DEF PutLoad
    <3>6. ~Locked(owner[c]) /\ UNCHANGED <<text, file, op>>
      BY <2>8 DEF PutLoad
    <3> QED BY <2>4, <3>1, <3>5, <3>6
  <2>9. ASSUME NEW c \in Clients, Truncate(c) PROVE AloneInv'
    BY <2>9 DEF Truncate, TypeOK
  <2>10. ASSUME NEW c \in Clients, Write(c) PROVE AloneInv'
    BY <2>10 DEF Write, TypeOK
  <2>11. ASSUME NEW p \in Processes, Crash(p) PROVE AloneInv'
    <3>1. \A c \in Clients : pc'[c] = "idle"
      BY <2>11 DEF Crash, OneProcess, TypeOK
    <3> QED BY <3>1
  <2>12. CASE Tick
    BY <2>12 DEF Tick, Loaded
  <2>13. CASE UNCHANGED vars
    BY <2>13 DEF vars, Loaded
  <2> QED
    BY <2>2, <2>3, <2>6, <2>7, <2>8, <2>9, <2>10, <2>11, <2>12, <2>13
    DEF Next, ClientStep, Get, Put, Invalidate
<1> QED BY <1>1, <1>2, FileTypeCorrect, PTL DEF Spec

LEMMA VisibleWhole ==
    ASSUME \A c \in Clients : pc[c] # "write"
    PROVE  Visible = Loaded
  BY DEF Visible, Unwritten

LEMMA VisibleWholeNext ==
    ASSUME \A c \in Clients : pc'[c] # "write"
    PROVE  Visible' = Loaded'
  BY DEF Visible, Unwritten

LEMMA VisibleWhileWriting ==
    ASSUME NEW c \in Clients, pc[c] = "write",
           \A d \in Clients : Saving(d) => d = c
    PROVE  Visible = loaded[c]
<1>1. Unwritten = {c}
  BY DEF Unwritten, Saving
<1> QED BY <1>1 DEF Visible

LEMMA VisibleWhileWritingNext ==
    ASSUME NEW c \in Clients, pc'[c] = "write",
           \A d \in Clients : pc'[d] = "write" => d = c
    PROVE  Visible' = loaded'[c]
<1>1. Unwritten' = {c}
  BY DEF Unwritten
<1> QED BY <1>1 DEF Visible

\* A call that starts to save: nothing changes for the others yet.
LEMMA SaveIsInvisible ==
    ASSUME TypeOK, OneProcess, NEW c \in Clients, ~Locked(owner[c]), NEW f,
           Save(c, f), UNCHANGED <<text, file, reply>>
    PROVE  UNCHANGED <<Visible, Answers>>
<1>1. \A d \in Clients : pc[d] # "write"
  BY NobodySaves DEF Saving
<1>2. \A d \in Clients : pc'[d] # "write"
  BY <1>1 DEF Save, TypeOK
<1> QED BY <1>1, <1>2, VisibleWhole, VisibleWholeNext DEF Loaded, Answers

LEMMA CallLosesAnswer ==
    ASSUME TypeOK, NEW c \in Clients, NEW m \in {"get", "put", "invalidate"},
           NEW k, NEW e, Call(c, m, k, e)
    PROVE  Port!Lose
<1>1. Unwritten' = Unwritten
  BY DEF Call, Unwritten, TypeOK
<1>2. Visible' = Visible
  BY <1>1 DEF Call, Visible, Loaded
<1>3. Port!EntriesKept(Keys)
  BY <1>2 DEF Port!EntriesKept
<1>4. Port!AnswersKept
  BY DEF Port!AnswersKept, Port!NoHit, Answers, Call, NoOp, TypeOK
<1> QED BY <1>3, <1>4 DEF Port!Lose

LEMMA AnswerIsHit ==
    ASSUME TypeOK, OneProcess, NEW c \in Clients, GetAnswer(c)
    PROVE  Port!Next
<1> DEFINE k == op[c].key
<1>1. \A d \in Clients : pc[d] # "write"
  BY NobodySaves DEF GetAnswer, Saving
<1>2. \A d \in Clients : pc'[d] # "write"
  BY <1>1 DEF GetAnswer, TypeOK
<1>3. Visible = Loaded /\ Visible' = Visible
  BY <1>1, <1>2, VisibleWhole, VisibleWholeNext DEF GetAnswer, Loaded
<1>4. k \in Keys /\ op[c] \in Ops
  BY DEF GetAnswer, TypeOK
<1>5. CASE Loaded[k] = NoEntry
  <2>1. reply' = [reply EXCEPT ![c] = NoOp]
    BY <1>5 DEF GetAnswer
  <2>2. Port!AnswersKept
    BY <2>1 DEF Port!AnswersKept, Port!NoHit, Answers, NoOp, TypeOK
  <2>3. Port!EntriesKept(Keys)
    BY <1>3 DEF Port!EntriesKept
  <2> QED BY <2>2, <2>3 DEF Port!Lose, Port!Next
<1>6. CASE Loaded[k] # NoEntry
  <2>1. reply' = [reply EXCEPT ![c] = [op[c] EXCEPT !.entry = Loaded[k]]]
    BY <1>6 DEF GetAnswer
  <2>2. reply'[c].key = k /\ reply'[c].entry = Loaded[k]
    BY <1>4, <2>1 DEF Ops, TypeOK
  <2>3. \A d \in Clients \ {c} : reply'[d] = reply[d]
    BY <2>1 DEF TypeOK
  <2>4. Answers' = [Answers EXCEPT ![c] = [key |-> k, entry |-> Visible[k]]]
    BY <1>3, <2>2, <2>3 DEF Answers
  <2>5. Port!Hit(c, k)
    BY <1>3, <1>6, <2>4 DEF Port!Hit
  <2> QED BY <1>4, <2>5 DEF Port!Next
<1> QED BY <1>5, <1>6

LEMMA TruncateIsInvisible ==
    ASSUME TypeOK, OneProcess, AloneInv, NEW c \in Clients, Truncate(c)
    PROVE  UNCHANGED <<Visible, Answers>>
<1>1. \A d \in Clients : Saving(d) => d = c
  BY DEF AloneInv, Truncate, Saving
<1>2. Visible = Loaded
  BY <1>1, VisibleWhole DEF Truncate, Saving
<1>3. pc'[c] = "write" /\ \A d \in Clients : pc'[d] = "write" => d = c
  BY <1>1 DEF Truncate, Saving, TypeOK
<1>4. Visible' = loaded'[c]
  BY <1>3, VisibleWhileWritingNext
<1>5. loaded' = loaded /\ loaded[c] = Loaded
  BY DEF AloneInv, Truncate
<1> QED BY <1>2, <1>4, <1>5 DEF Truncate, Answers

LEMMA WriteStores ==
    ASSUME TypeOK, OneProcess, AloneInv, NEW c \in Clients, Write(c)
    PROVE  Port!Next
<1> DEFINE k == op[c].key
<1>1. \A d \in Clients : Saving(d) => d = c
  BY DEF AloneInv, Write, Saving
<1>2. Visible = loaded[c]
  BY <1>1, VisibleWhileWriting DEF Write
<1>3. text' = "whole" /\ file' = saving[c]
  BY DEF AloneInv, Write
<1>4. \A d \in Clients : pc'[d] # "write"
  BY <1>1 DEF Write, Saving, TypeOK
<1>5. Visible' = saving[c]
  BY <1>3, <1>4, VisibleWholeNext DEF Loaded
<1>6. k \in Keys /\ \A i \in Keys \ {k} : saving[c][i] \in {loaded[c][i], NoEntry}
  BY DEF AloneInv, Write, Saving
<1>7. Port!EntriesKept(Keys \ {k})
  BY <1>2, <1>5, <1>6 DEF Port!EntriesKept
<1>8. Visible' \in [Keys -> Entries \cup {NoEntry}]
  BY <1>5 DEF TypeOK, Contents
<1>9. Port!AnswersKept
  BY DEF Port!AnswersKept, Answers, Write
<1> QED BY <1>6, <1>7, <1>8, <1>9 DEF Port!Store, Port!Next

LEMMA CrashLoses ==
    ASSUME TypeOK, OneProcess, AloneInv, NEW p \in Processes, Crash(p)
    PROVE  Port!Lose
<1>1. \A c \in Clients : pc'[c] = "idle"
  BY DEF Crash, OneProcess
<1>2. Visible' = Loaded'
  BY <1>1, VisibleWholeNext
<1>3. \A k \in Keys : Visible'[k] \in {Visible[k], NoEntry}
  <2>1. CASE \A c \in Clients : pc[c] # "write"
    BY <1>2, <2>1, VisibleWhole DEF Crash, Loaded
  <2>2. CASE \E c \in Clients : pc[c] = "write"
    <3>1. text = "empty"
      BY <2>2 DEF AloneInv
    <3>2. Loaded' = Nothing
      BY <3>1 DEF Crash, Loaded, Nothing
    <3> QED BY <1>2, <3>2 DEF Nothing
  <2> QED BY <2>1, <2>2
<1>4. Port!AnswersKept
  BY DEF Port!AnswersKept, Port!NoHit, Answers, Crash, NoOp
<1> QED BY <1>3, <1>4 DEF Port!EntriesKept, Port!Lose

\* The threads of one process see a result cache that may lose entries but
\* never invents, mixes up or resurrects one (FileCacheBackend under its lock,
\* crashes of the process included).
THEOREM FileImplementsCache == Spec => ImplementsLossyCache
<1>1. Init => Port!Init
  <2> SUFFICES ASSUME Init PROVE Port!Init
    OBVIOUS
  <2>1. Visible = Nothing
    BY VisibleWhole DEF Init, Loaded
  <2>2. Answers = [c \in Clients |-> Port!NoHit]
    BY DEF Init, Answers, NoOp, Port!NoHit
  <2> QED BY <2>1, <2>2 DEF Port!Init, Nothing
<1>2. TypeOK /\ AloneInv /\ [Next]_vars =>
          [OneProcess => Port!Next]_<<Visible, Answers>>
  <2> SUFFICES ASSUME TypeOK, AloneInv, [Next]_vars, OneProcess
               PROVE  Port!Next \/ UNCHANGED <<Visible, Answers>>
    OBVIOUS
  <2>1. ASSUME NEW c \in Clients, NEW m \in {"get", "put", "invalidate"}, NEW k, NEW e,
               Call(c, m, k, e)
        PROVE  Port!Next
    BY <2>1, CallLosesAnswer DEF Port!Next
  <2>2. ASSUME NEW c \in Clients, GetAnswer(c) PROVE Port!Next
    BY <2>2, AnswerIsHit
  <2>3. ASSUME NEW c \in Clients, GetExpired(c) \/ PutLoad(c) \/ InvalidateLoad(c)
        PROVE  UNCHANGED <<Visible, Answers>>
    <3>1. PICK f : Save(c, f)
      BY <2>3 DEF GetExpired, PutLoad, InvalidateLoad
    <3>2. ~Locked(owner[c]) /\ UNCHANGED <<text, file, reply>>
      BY <2>3 DEF GetExpired, PutLoad, InvalidateLoad
    <3> QED BY <3>1, <3>2, SaveIsInvisible
  <2>4. ASSUME NEW c \in Clients, Truncate(c) PROVE UNCHANGED <<Visible, Answers>>
    BY <2>4, TruncateIsInvisible
  <2>5. ASSUME NEW c \in Clients, Write(c) PROVE Port!Next
    BY <2>5, WriteStores
  <2>6. ASSUME NEW p \in Processes, Crash(p) PROVE Port!Next
    BY <2>6, CrashLoses DEF Port!Next
  <2>7. CASE Tick
    BY <2>7 DEF Tick, Visible, Unwritten, Loaded, Answers
  <2>8. CASE UNCHANGED vars
    BY <2>8 DEF vars, Visible, Unwritten, Loaded, Answers
  <2> QED
    BY <2>1, <2>2, <2>3, <2>4, <2>5, <2>6, <2>7, <2>8
    DEF Next, ClientStep, Get, Put, Invalidate
<1> QED BY <1>1, <1>2, FileTypeCorrect, AloneInvariant, PTL DEF Spec, ImplementsLossyCache
=============================================================================
