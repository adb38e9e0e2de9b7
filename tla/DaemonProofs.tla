---------------------------- MODULE DaemonProofs ----------------------------
(***************************************************************************)
(* What the daemon keeps for every number of threads, slots, documents,    *)
(* crashes and retries.                                                    *)
(***************************************************************************)
EXTENDS Daemon, FiniteSetTheorems, TLAPS

USE DEF Idle

LEMMA KeyIsInjective ==
    ASSUME NEW d \in Documents, NEW e \in Documents, Key(d) = Key(e)
    PROVE  d = e
  BY DaemonAssumption DEF Key

LEMMA UploadDoc == \A u \in Upload : u.doc \in Documents /\ Key(u.doc) \in RowKeys
  BY DEF Upload, RowKeys

LEMMA HoldingIsFinite ==
    IsFiniteSet(Holding) /\ Cardinality(Holding) \in Nat
  BY DaemonAssumption, FS_Subset, FS_CardinalityType DEF Holding

(***************************************************************************)
(* Slots.  A thread in the middle of a write holds a slot, and only a      *)
(* running daemon has such threads.                                        *)
(***************************************************************************)

DownIsIdle == ~up => \A w \in Workers : Idle(w)

SlotInv == TypeOK /\ SlotsAccounted /\ DownIsIdle

LEMMA SlotTaken ==
    ASSUME NEW w \in Workers, w \notin Holding, Holding' = Holding \cup {w}
    PROVE  Cardinality(Holding') = Cardinality(Holding) + 1
  BY HoldingIsFinite, FS_AddElement

LEMMA SlotReturned ==
    ASSUME NEW w \in Workers, w \in Holding, Holding' = Holding \ {w}
    PROVE  /\ Cardinality(Holding') = Cardinality(Holding) - 1
           /\ Cardinality(Holding) \in Nat \ {0}
<1>1. Cardinality(Holding') = Cardinality(Holding) - 1
  BY HoldingIsFinite, FS_RemoveElement
<1>2. Cardinality(Holding) # 0
  BY HoldingIsFinite, FS_EmptySet
<1> QED BY <1>1, <1>2, HoldingIsFinite

LEMMA SlotsInit == Init => SlotInv
<1> SUFFICES ASSUME Init PROVE SlotInv
  OBVIOUS
<1>1. Holding = {}
  BY DEF Init, Holding
<1>2. SlotsAccounted
  BY <1>1, FS_EmptySet, DaemonAssumption DEF Init, SlotsAccounted
<1>3. TypeOK
  BY DaemonAssumption DEF Init, TypeOK, Points, NoRow, NoWork
<1> QED BY <1>2, <1>3 DEF Init, SlotInv, DownIsIdle

\* An answer frees its thread, which holds no slot, and nothing else.
LEMMA AnswerKeepsSlots ==
    ASSUME SlotInv, NEW w \in Workers, NEW status, ~Idle(w), w \notin Holding,
           Answer(w, status), UNCHANGED slots
    PROVE  SlotInv'
<1>1. work[w] \in Upload /\ work[w].doc \in Documents /\ work[w].version \in Nat
  BY DEF SlotInv, TypeOK, Upload
<1>2. Holding' = Holding
  BY DEF Answer, Holding, SlotInv, TypeOK
<1>3. waiting' \in [Documents -> Workers \cup {Nobody}] /\ acked' \in [Documents -> Nat]
  BY <1>1 DEF Answer, SlotInv, TypeOK
<1>4. TypeOK'
  BY <1>3 DEF Answer, SlotInv, TypeOK, Points
<1> QED BY <1>2, <1>4 DEF Answer, SlotInv, SlotsAccounted, DownIsIdle, TypeOK

LEMMA SlotsStep == SlotInv /\ [Next]_vars => SlotInv'
<1> SUFFICES ASSUME SlotInv, [Next]_vars PROVE SlotInv'
  OBVIOUS
<1> USE DEF SlotInv, SlotsAccounted, DownIsIdle
<1>1. ASSUME NEW d \in Documents, NEW w \in Workers, Send(d, w) PROVE SlotInv'
  <2>1. [doc |-> d, version |-> acked[d] + 1] \in Upload
    BY DEF Upload, TypeOK
  <2>2. Holding' = Holding
    BY <1>1 DEF Send, Holding, TypeOK
  <2> QED BY <1>1, <2>1, <2>2 DEF Send, TypeOK, Points
<1>2. ASSUME NEW d \in Documents, GiveUp(d) PROVE SlotInv'
  <2>1. Holding' = Holding
    BY <1>2 DEF GiveUp, Holding
  <2> QED BY <1>2, <2>1 DEF GiveUp, TypeOK
<1>3. ASSUME NEW w \in Workers, Unauthorized(w) \/ Saturated(w) PROVE SlotInv'
  <2>1. ~Idle(w) /\ w \notin Holding /\ UNCHANGED slots
    BY <1>3 DEF Unauthorized, Saturated, Holding
  <2> QED BY <1>3, <2>1, AnswerKeepsSlots DEF Unauthorized, Saturated
<1>4. ASSUME NEW w \in Workers, Return(w) PROVE SlotInv'
  <2>1. ~Idle(w) /\ w \notin Holding /\ UNCHANGED slots
    BY <1>4 DEF Return, Holding
  <2> QED BY <1>4, <2>1, AnswerKeepsSlots DEF Return
<1>5. ASSUME NEW w \in Workers, Acquire(w) PROVE SlotInv'
  <2>1. w \notin Holding /\ Holding' = Holding \cup {w}
    BY <1>5 DEF Acquire, Holding, TypeOK
  <2>2. Cardinality(Holding') = Cardinality(Holding) + 1
    BY <2>1, SlotTaken
  <2>3. slots' = slots - 1 /\ slots > 0 /\ slots \in 0 .. MaxInflight
    BY <1>5 DEF Acquire, TypeOK
  <2>4. SlotsAccounted'
    BY <1>5, <2>2, <2>3, HoldingIsFinite, DaemonAssumption DEF Acquire
  <2>5. slots' \in 0 .. MaxInflight
    BY <2>3, DaemonAssumption
  <2> QED BY <1>5, <2>4, <2>5 DEF Acquire, TypeOK, Points
<1>6. ASSUME NEW w \in Workers, Insert(w) \/ Commit(w) \/ Fail(w) PROVE SlotInv'
  <2>1. Holding' = Holding
    BY <1>6 DEF Insert, Commit, Fail, Holding, TypeOK
  <2>2. rows' \in [RowKeys -> Upload \cup {NoRow}]
    BY <1>6, UploadDoc DEF Insert, Commit, Fail, TypeOK
  <2>3. writer' \in Workers \cup {Nobody} /\ pc' \in [Workers -> Points]
    BY <1>6 DEF Insert, Commit, Fail, TypeOK, Points
  <2>4. pc[w] # "idle" /\ \A v \in Workers : pc'[v] = "idle" <=> pc[v] = "idle"
    BY <1>6 DEF Insert, Commit, Fail, TypeOK
  <2>5. UNCHANGED <<up, slots, work, waiting, acked, gaveUp>>
    BY <1>6 DEF Insert, Commit, Fail
  <2> QED BY <2>1, <2>2, <2>3, <2>4, <2>5 DEF TypeOK
<1>7. ASSUME NEW w \in Workers, Release(w) PROVE SlotInv'
  <2>1. w \in Holding /\ Holding' = Holding \ {w}
    BY <1>7 DEF Release, Holding, TypeOK
  <2>2. Cardinality(Holding') = Cardinality(Holding) - 1
        /\ Cardinality(Holding) \in Nat \ {0}
    BY <2>1, SlotReturned
  <2>3. up /\ slots' = slots + 1 /\ slots \in 0 .. MaxInflight
    BY <1>7 DEF Release, Returned, TypeOK
  <2>4. SlotsAccounted' /\ slots' \in 0 .. MaxInflight
    BY <1>7, <2>2, <2>3, DaemonAssumption DEF Release
  <2> QED BY <1>7, <2>4 DEF Release, TypeOK, Points
<1>8. CASE Crash
  BY <1>8 DEF Crash, TypeOK, Points, NoWork
<1>9. CASE Restart
  <2>1. Holding' = {}
    BY <1>9 DEF Restart, Holding
  <2>2. Cardinality(Holding') = 0
    BY <2>1, FS_EmptySet
  <2>3. slots' \in 0 .. MaxInflight /\ SlotsAccounted'
    BY <1>9, <2>2, DaemonAssumption DEF Restart
  <2> QED BY <1>9, <2>3 DEF Restart, TypeOK
<1>10. CASE UNCHANGED vars
  BY <1>10 DEF vars, TypeOK, Holding
<1> QED
  BY <1>1, <1>2, <1>3, <1>4, <1>5, <1>6, <1>7, <1>8, <1>9, <1>10 DEF Next, Handle

LEMMA SlotInvariant == Spec => []SlotInv
  BY SlotsInit, SlotsStep, PTL DEF Spec

\* Every reachable state is well typed; in particular the semaphore never
\* leaves its bounds (BoundedSemaphore raises if it would).
THEOREM DaemonTypeCorrect == Spec => []TypeOK
<1>1. SlotInv => TypeOK
  BY DEF SlotInv
<1> QED BY <1>1, SlotInvariant, PTL

\* No slot is lost or returned twice, for any number of threads, failures and
\* restarts (save_proposal, save_run).
THEOREM NoSlotLeaks == Spec => []SlotsAccounted
<1>1. SlotInv => SlotsAccounted
  BY DEF SlotInv
<1> QED BY <1>1, SlotInvariant, PTL

(***************************************************************************)
(* Durable uploads.  Every attempt at a document is at a version its       *)
(* client has reached; the attempt it waits for, at the next one.  While   *)
(* the client never gave up there is no other attempt, and once committed  *)
(* it stays committed until its answer, or the crash that loses it.        *)
(***************************************************************************)

Committed(w) == pc[w] \in {"saved", "ok"}

Attempt(d, w) ==
    /\ work[w].version \in 1 .. acked[d] + 1
    /\ waiting[d] = w => work[w].version = acked[d] + 1
    /\ Committed(w) => KeptVersions[d] > 0
    /\ d \notin gaveUp =>
          waiting[d] = w /\ (Committed(w) => KeptVersions[d] = work[w].version)

UploadInv ==
    \A d \in Documents :
        /\ KeptVersions[d] <= acked[d] + 1
        /\ acked[d] > 0 => KeptVersions[d] > 0
        /\ d \notin gaveUp => KeptVersions[d] \in {acked[d], acked[d] + 1}
        /\ \A w \in Workers : ~Idle(w) /\ work[w].doc = d => Attempt(d, w)

LEMMA KeptType == TypeOK => KeptVersions \in [Documents -> Nat]
  BY DEF KeptVersions, Kept, TypeOK, RowKeys, Upload, NoRow

LEMMA KeptUnchanged == UNCHANGED rows => UNCHANGED KeptVersions
  BY DEF KeptVersions, Kept

\* A commit replaces the version of its own document and of no other.
LEMMA CommitKeeps ==
    ASSUME TypeOK, NEW w \in Workers, Commit(w)
    PROVE  /\ work[w] \in Upload
           /\ KeptVersions' = [KeptVersions EXCEPT ![work[w].doc] = work[w].version]
<1>1. work[w] \in Upload /\ work[w].doc \in Documents
  BY DEF Commit, TypeOK, Upload
<1>2. \A k \in RowKeys : rows'[k] = IF k = Key(work[w].doc) THEN work[w] ELSE rows[k]
  BY DEF Commit, TypeOK
<1>3. ASSUME NEW d \in Documents
      PROVE  Kept(d)' = IF d = work[w].doc THEN work[w].version ELSE Kept(d)
  <2>1. Key(d) \in RowKeys
    BY DEF RowKeys
  <2>2. CASE d = work[w].doc
    BY <1>2, <2>1, <2>2 DEF Kept
  <2>3. CASE d # work[w].doc
    <3>1. Key(d) # Key(work[w].doc)
      BY <1>1, <2>3, KeyIsInjective
    <3> QED BY <1>2, <2>1, <2>3, <3>1 DEF Kept
  <2> QED BY <2>2, <2>3
<1> QED BY <1>1, <1>3 DEF KeptVersions

LEMMA UploadInit == Init => UploadInv
<1> SUFFICES ASSUME Init PROVE UploadInv
  OBVIOUS
<1>1. \A d \in Documents : KeptVersions[d] = 0 /\ acked[d] = 0
  BY DEF Init, KeptVersions, Kept, NoRow, RowKeys
<1> QED BY <1>1 DEF Init, UploadInv

\* An answer reaches the client that waits for it, and "ok" says what is stored.
LEMMA AnswerKeepsUploads ==
    ASSUME TypeOK, UploadInv, NEW w \in Workers, NEW status, ~Idle(w),
           Answer(w, status), status = "ok" => Committed(w)
    PROVE  UploadInv'
<1> DEFINE d == work[w].doc
           heard == waiting[d] = w
<1>1. d \in Documents /\ Attempt(d, w)
  BY DEF TypeOK, Upload, UploadInv
<1>2. UNCHANGED <<KeptVersions, gaveUp>>
  BY KeptUnchanged DEF Answer
<1>3. \A v \in Workers : /\ pc'[v] = IF v = w THEN "idle" ELSE pc[v]
                         /\ v # w => work'[v] = work[v]
  BY DEF Answer, TypeOK
<1>4. \A e \in Documents :
         /\ acked'[e] = IF e = d /\ heard /\ status = "ok" THEN work[w].version ELSE acked[e]
         /\ waiting'[e] = IF e = d /\ heard THEN Nobody ELSE waiting[e]
  BY DEF Answer, TypeOK
<1>5. \A e \in Documents : acked[e] \in Nat /\ KeptVersions[e] \in Nat
  BY KeptType DEF TypeOK
<1>6. heard => work[w].version = acked[d] + 1
  BY <1>1 DEF Attempt
<1>7. status = "ok" => KeptVersions[d] > 0
  BY <1>1 DEF Attempt
<1>8. status = "ok" /\ d \notin gaveUp => KeptVersions[d] = work[w].version
  BY <1>1 DEF Attempt
<1>9. ASSUME NEW e \in Documents
      PROVE  /\ KeptVersions'[e] <= acked'[e] + 1
             /\ acked'[e] > 0 => KeptVersions'[e] > 0
             /\ e \notin gaveUp' => KeptVersions'[e] \in {acked'[e], acked'[e] + 1}
  BY <1>1, <1>2, <1>4, <1>5, <1>6, <1>7, <1>8 DEF UploadInv
<1>10. ASSUME NEW e \in Documents, NEW v \in Workers, pc'[v] # "idle", work'[v].doc = e
       PROVE  Attempt(e, v)'
  <2>1. v # w /\ ~Idle(v) /\ work[v].doc = e /\ work'[v] = work[v] /\ pc'[v] = pc[v]
    BY <1>3, <1>10
  <2>2. Attempt(e, v) /\ work[v].version \in Nat
    BY <2>1 DEF UploadInv, TypeOK, Upload
  <2>3. e = d /\ heard => e \in gaveUp
    BY <2>1, <2>2 DEF Attempt
  <2>4. acked'[e] >= acked[e] /\ acked'[e] \in Nat
    BY <1>4, <1>5, <1>6
  <2>5. waiting'[e] = v => waiting[e] = v /\ acked'[e] = acked[e]
    BY <1>4, <2>1, DaemonAssumption
  <2>6. e \notin gaveUp => waiting'[e] = waiting[e]
    BY <1>4, <2>3
  <2>7. work[v].version \in 1 .. acked'[e] + 1
    BY <2>2, <2>4, <1>5 DEF Attempt
  <2> QED BY <1>2, <2>1, <2>2, <2>5, <2>6, <2>7 DEF Attempt, Committed
<1> QED BY <1>9, <1>10 DEF UploadInv

\* A commit stores a version its client has reached; the next one, unless the
\* client ever gave up.
LEMMA CommitKeepsUploads ==
    ASSUME TypeOK, UploadInv, NEW w \in Workers, Commit(w)
    PROVE  UploadInv'
<1> DEFINE d == work[w].doc
<1>1. d \in Documents /\ ~Idle(w) /\ work[w].version \in Nat
  BY DEF Commit, TypeOK, Upload
<1>2. Attempt(d, w)
  BY <1>1 DEF UploadInv
<1>3. UNCHANGED <<work, waiting, acked, gaveUp>>
  BY DEF Commit
<1>4. \A e \in Documents : /\ KeptVersions'[e] = IF e = d THEN work[w].version ELSE KeptVersions[e]
                           /\ acked[e] \in Nat /\ KeptVersions[e] \in Nat
  BY CommitKeeps, KeptType DEF TypeOK
<1>5. \A v \in Workers : pc'[v] = IF v = w THEN "saved" ELSE pc[v]
  BY DEF Commit, TypeOK
<1>6. work[w].version \in 1 .. acked[d] + 1
  BY <1>2 DEF Attempt
<1>7. d \notin gaveUp => work[w].version = acked[d] + 1
  BY <1>2 DEF Attempt
<1>8. ASSUME NEW e \in Documents
      PROVE  /\ KeptVersions'[e] <= acked'[e] + 1
             /\ acked'[e] > 0 => KeptVersions'[e] > 0
             /\ e \notin gaveUp' => KeptVersions'[e] \in {acked'[e], acked'[e] + 1}
  BY <1>1, <1>3, <1>4, <1>6, <1>7 DEF UploadInv
<1>9. ASSUME NEW e \in Documents, NEW v \in Workers, pc'[v] # "idle", work'[v].doc = e
      PROVE  Attempt(e, v)'
  <2>1. ~Idle(v) /\ work[v].doc = e
    BY <1>1, <1>3, <1>5, <1>9
  <2>2. Attempt(e, v)
    BY <2>1 DEF UploadInv
  <2>3. CASE e # d
    <3>1. v # w
      BY <2>1, <2>3
    <3> QED BY <1>3, <1>4, <1>5, <2>2, <2>3, <3>1 DEF Attempt, Committed
  <2>4. CASE e = d
    <3>1. e \notin gaveUp => v = w
      BY <1>2, <2>2, <2>4 DEF Attempt
    <3>2. KeptVersions'[e] = work[w].version /\ work[w].version > 0
      BY <1>4, <1>6, <2>4
    <3> QED BY <1>3, <2>2, <3>1, <3>2 DEF Attempt
  <2> QED BY <2>3, <2>4
<1> QED BY <1>8, <1>9 DEF UploadInv

\* The first attempt at a version is at the next one, and the only one of a
\* client that never gave up.
LEMMA SendKeepsUploads ==
    ASSUME TypeOK, UploadInv, NEW d \in Documents, NEW w \in Workers, Send(d, w)
    PROVE  UploadInv'
<1>1. UNCHANGED <<KeptVersions, acked, gaveUp>>
  BY KeptUnchanged DEF Send
<1>2. pc[w] = "idle" /\ pc'[w] = "arrived" /\ waiting[d] = Nobody
      /\ work'[w] = [doc |-> d, version |-> acked[d] + 1]
  BY DEF Send, TypeOK
<1>3. \A v \in Workers \ {w} : work'[v] = work[v] /\ pc'[v] = pc[v]
  BY DEF Send, TypeOK
<1>4. \A e \in Documents : /\ waiting'[e] = IF e = d THEN w ELSE waiting[e]
                           /\ acked[e] \in Nat
  BY DEF Send, TypeOK
<1>5. ASSUME NEW e \in Documents, NEW v \in Workers, pc'[v] # "idle", work'[v].doc = e
      PROVE  Attempt(e, v)'
  <2>1. CASE v = w
    BY <1>1, <1>2, <1>4, <1>5, <2>1 DEF Attempt, Committed
  <2>2. CASE v # w
    <3>1. work'[v] = work[v] /\ pc'[v] = pc[v] /\ ~Idle(v) /\ work[v].doc = e
      BY <1>3, <1>5, <2>2
    <3>2. Attempt(e, v)
      BY <3>1 DEF UploadInv
    <3>3. waiting'[e] = v => waiting[e] = v
      BY <1>4, <2>2
    <3>4. e \notin gaveUp => waiting'[e] = v
      BY <1>2, <1>4, <3>2, DaemonAssumption DEF Attempt
    <3> QED BY <1>1, <3>1, <3>2, <3>3, <3>4 DEF Attempt, Committed
  <2> QED BY <2>1, <2>2
<1> QED BY <1>1, <1>5 DEF UploadInv

\* The steps of a handler that neither commit nor answer.
LEMMA HandlerKeepsUploads ==
    ASSUME TypeOK, UploadInv, NEW w \in Workers,
           Acquire(w) \/ Insert(w) \/ Fail(w) \/ Release(w)
    PROVE  UploadInv'
<1>1. UNCHANGED <<rows, work, waiting, acked, gaveUp>>
  BY DEF Acquire, Insert, Fail, Release
<1>2. \A v \in Workers : (pc'[v] # "idle" => pc[v] # "idle")
                         /\ (Committed(v)' => Committed(v))
  BY DEF Acquire, Insert, Fail, Release, Committed, TypeOK
<1> QED BY <1>1, <1>2, KeptUnchanged DEF UploadInv, Attempt

LEMMA UploadStep == TypeOK /\ UploadInv /\ [Next]_vars => UploadInv'
<1> SUFFICES ASSUME TypeOK, UploadInv, [Next]_vars PROVE UploadInv'
  OBVIOUS
<1>1. ASSUME NEW d \in Documents, NEW w \in Workers, Send(d, w) PROVE UploadInv'
  BY <1>1, SendKeepsUploads
<1>2. ASSUME NEW d \in Documents, GiveUp(d) PROVE UploadInv'
  <2>1. UNCHANGED <<KeptVersions, pc, work, acked>> /\ d \in gaveUp' /\ gaveUp \subseteq gaveUp'
    BY <1>2, KeptUnchanged DEF GiveUp
  <2>2. \A e \in Documents : waiting'[e] = IF e = d THEN Nobody ELSE waiting[e]
    BY <1>2 DEF GiveUp, TypeOK
  <2>3. ASSUME NEW e \in Documents, NEW v \in Workers, Attempt(e, v)
        PROVE  Attempt(e, v)'
    BY <2>1, <2>2, <2>3, DaemonAssumption DEF Attempt, Committed
  <2> QED BY <2>1, <2>3 DEF UploadInv
<1>3. ASSUME NEW w \in Workers, Unauthorized(w) \/ Saturated(w) PROVE UploadInv'
  BY <1>3, AnswerKeepsUploads DEF Unauthorized, Saturated
<1>4. ASSUME NEW w \in Workers, Return(w) PROVE UploadInv'
  <2>1. Reply(w) = "ok" => Committed(w)
    BY <1>4 DEF Return, Reply, Committed
  <2> QED BY <1>4, <2>1, AnswerKeepsUploads DEF Return
<1>5. ASSUME NEW w \in Workers, Acquire(w) \/ Insert(w) \/ Fail(w) \/ Release(w)
      PROVE  UploadInv'
  BY <1>5, HandlerKeepsUploads
<1>6. ASSUME NEW w \in Workers, Commit(w) PROVE UploadInv'
  BY <1>6, CommitKeepsUploads
<1>7. CASE Crash
  BY <1>7, KeptUnchanged DEF Crash, UploadInv
<1>8. CASE Restart \/ UNCHANGED vars
  <2>1. UNCHANGED <<KeptVersions, pc, work, waiting, acked, gaveUp>>
    BY <1>8, KeptUnchanged DEF Restart, vars
  <2> QED BY <2>1 DEF UploadInv, Attempt, Committed
<1> QED
  BY <1>1, <1>2, <1>3, <1>4, <1>5, <1>6, <1>7, <1>8 DEF Next, Handle

LEMMA UploadInvariant == Spec => []UploadInv
  BY UploadInit, UploadStep, DaemonTypeCorrect, PTL DEF Spec

\* However handlers, crashes, retries and abandoned attempts interleave, what
\* was acknowledged is stored, and only a client that gave up an attempt can
\* find an older version than the acknowledged (save_proposal and save_run).
THEOREM AcknowledgedIsKept == Spec => []AcknowledgedKept
<1>1. TypeOK /\ UploadInv => AcknowledgedKept
  <2> SUFFICES ASSUME TypeOK, UploadInv, NEW d \in Documents
               PROVE  /\ acked[d] > 0 => Kept(d) > 0
                      /\ Kept(d) <= acked[d] + 1
                      /\ Kept(d) < acked[d] => d \in gaveUp
    BY DEF AcknowledgedKept
  <2>1. KeptVersions[d] = Kept(d) /\ Kept(d) \in Nat /\ acked[d] \in Nat
    BY KeptType DEF KeptVersions, TypeOK
  <2> QED BY <2>1 DEF UploadInv
<1> QED BY <1>1, UploadInvariant, DaemonTypeCorrect, PTL

\* For clients that wait for their answers, the daemon implements a durable
\* upload: what it acknowledged is stored, through crashes and retries, until
\* the next version (save_proposal, save_run and the statements they run).
THEOREM DaemonImplementsUpload == Spec => ImplementsDurableUpload
<1>1. Init => Port!Init
  BY DEF Init, Port!Init, KeptVersions, Kept, NoRow, RowKeys
<1>2. TypeOK /\ UploadInv /\ [Next]_vars =>
          [gaveUp' = {} => Port!Next]_<<KeptVersions, acked>>
  <2> SUFFICES ASSUME TypeOK, UploadInv, [Next]_vars, gaveUp' = {}
               PROVE  Port!Next \/ UNCHANGED <<KeptVersions, acked>>
    OBVIOUS
  <2>1. gaveUp = {}
    BY DEF Next, Handle, Send, GiveUp, Unauthorized, Acquire, Saturated, Insert, Commit,
           Fail, Release, Return, Answer, Crash, Restart, vars
  <2>2. UNCHANGED rows => UNCHANGED KeptVersions
    BY KeptUnchanged
  <2>3. ASSUME NEW w \in Workers, Commit(w) PROVE Port!Next
    <3> DEFINE d == work[w].doc
    <3>1. d \in Documents /\ work[w].version = acked[d] + 1
      BY <2>1, <2>3, CommitKeeps DEF Commit, UploadInv, Attempt, Upload
    <3>2. KeptVersions' = [KeptVersions EXCEPT ![d] = acked[d] + 1]
      BY <2>3, <3>1, CommitKeeps
    <3> QED BY <2>3, <3>1, <3>2 DEF Commit, Port!Next, Port!Store
  <2>4. ASSUME NEW w \in Workers, Return(w)
        PROVE  Port!Next \/ UNCHANGED <<KeptVersions, acked>>
    <3> DEFINE d == work[w].doc
    <3>1. d \in Documents
      BY <2>4 DEF Return, TypeOK, Upload
    <3>2. CASE pc[w] = "ok" /\ waiting[d] = w
      <4>1. KeptVersions[d] = work[w].version /\ work[w].version = acked[d] + 1
        BY <2>1, <2>4, <3>1, <3>2 DEF Return, UploadInv, Attempt, Committed
      <4>2. acked' = [acked EXCEPT ![d] = KeptVersions[d]]
        BY <2>4, <3>1, <3>2, <4>1 DEF Return, Reply, Answer
      <4>3. UNCHANGED KeptVersions
        BY <2>2, <2>4 DEF Return, Answer
      <4>4. KeptVersions[d] = acked[d] + 1
        BY <3>1, <4>1
      <4> QED BY <3>1, <4>2, <4>3, <4>4 DEF Port!Next, Port!Acknowledge
    <3>3. CASE ~(pc[w] = "ok" /\ waiting[d] = w)
      BY <2>2, <2>4, <3>3 DEF Return, Reply, Answer
    <3> QED BY <3>2, <3>3
  <2>5. ASSUME NEW w \in Workers, Unauthorized(w) \/ Saturated(w)
        PROVE  UNCHANGED <<KeptVersions, acked>>
    BY <2>2, <2>5 DEF Unauthorized, Saturated, Answer
  <2>6. ASSUME NEW w \in Workers, Acquire(w) \/ Insert(w) \/ Fail(w) \/ Release(w)
        PROVE  UNCHANGED <<KeptVersions, acked>>
    BY <2>2, <2>6 DEF Acquire, Insert, Fail, Release
  <2>7. ASSUME NEW d \in Documents, NEW w \in Workers, Send(d, w)
        PROVE  UNCHANGED <<KeptVersions, acked>>
    BY <2>2, <2>7 DEF Send
  <2>8. CASE Crash \/ Restart \/ UNCHANGED vars
    BY <2>2, <2>8 DEF Crash, Restart, vars
  <2>9. ASSUME NEW d \in Documents, GiveUp(d) PROVE UNCHANGED <<KeptVersions, acked>>
    BY <2>2, <2>9 DEF GiveUp
  <2> QED
    BY <2>3, <2>4, <2>5, <2>6, <2>7, <2>8, <2>9 DEF Next, Handle
<1> QED BY <1>1, <1>2, DaemonTypeCorrect, UploadInvariant, PTL
        DEF Spec, ImplementsDurableUpload
=============================================================================
