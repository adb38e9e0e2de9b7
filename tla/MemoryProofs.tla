---------------------------- MODULE MemoryProofs ----------------------------
(***************************************************************************)
(* The safety theorems of Memory, for any records, tenants, agents, limits *)
(* and weights: its types, the audit of removals, and what a retrieval may *)
(* hand out and mark.                                                      *)
(***************************************************************************)
EXTENDS Memory, TLAPS

-----------------------------------------------------------------------------
(* Types                                                                   *)

\* The initial state is well-typed (the constructor of the store).
LEMMA TypeInit == Init => TypeOK
  <1> SUFFICES ASSUME Init  PROVE TypeOK
    OBVIOUS
  <1>1. \A i \in Ids : made[i] = NoRecord
    BY DEF Init
  <1>2. answer \in [Callers -> Manifest]
    BY DEF Init, Empty, Manifest
  <1>3. QED  BY <1>1, <1>2 DEF Init, TypeOK

\* remember() makes a record of what it was given.
LEMMA RememberedIsRecord ==
    ASSUME TypeOK, NEW t \in Templates
    PROVE  [tenant |-> t.tenant, content |-> t.content, tier |-> t.tier,
            confidence |-> t.confidence, trust |-> t.trust, ttl |-> t.ttl,
            created |-> now, accessed |-> now, uses |-> 0,
            baseline |-> Baseline(t)] \in Record
  <1>1. t \in Template
    BY MemoryAssumption
  <1>2. QED  BY <1>1 DEF Template, Record, Baseline, TypeOK

\* record_access() changes when and how often, of the records chosen.
LEMMA AccessedKeeps ==
    ASSUME TypeOK, NEW S \in SUBSET Ids, NEW i \in Ids, made[i] \in Record
    PROVE  /\ Accessed(S)[i] \in Record
           /\ Accessed(S)[i].tenant = made[i].tenant
           /\ Accessed(S)[i].content = made[i].content
           /\ Accessed(S)[i].baseline = made[i].baseline
           /\ i \notin S => Accessed(S)[i] = made[i]
  <1>1. CASE i \in S
    <2> DEFINE r == [made[i] EXCEPT !.accessed = now,
                                    !.uses = IF @ < 5 THEN @ + 1 ELSE 5]
    <2>1. made[i].uses \in 0 .. 5 /\ now \in Nat
      BY DEF Record, TypeOK
    <2>2. (IF made[i].uses < 5 THEN made[i].uses + 1 ELSE 5) \in 0 .. 5
      BY <2>1
    <2>3. r \in Record
      BY <2>1, <2>2 DEF Record
    <2>4. r.tenant = made[i].tenant /\ r.content = made[i].content
            /\ r.baseline = made[i].baseline
      BY DEF Record
    <2>5. Accessed(S)[i] = r
      BY <1>1 DEF Accessed
    <2>6. QED  BY <1>1, <2>3, <2>4, <2>5
  <1>2. CASE i \notin S
    BY <1>2 DEF Accessed
  <1>3. QED  BY <1>1, <1>2

\* record_access() makes records of records and of nothing else.
LEMMA AccessedType ==
    ASSUME TypeOK, NEW S \in SUBSET stored
    PROVE  /\ Accessed(S) \in [Ids -> Record \cup {NoRecord}]
           /\ \A i \in Ids : made[i] \in Record => Accessed(S)[i] \in Record
           /\ \A i \in Ids : made[i] = NoRecord => Accessed(S)[i] = NoRecord
  <1>1. S \in SUBSET Ids /\ \A i \in S : made[i] # NoRecord
    BY DEF TypeOK
  <1>2. \A i \in Ids : made[i] \in Record => Accessed(S)[i] \in Record
    BY <1>1, AccessedKeeps
  <1>3. \A i \in Ids : made[i] = NoRecord => Accessed(S)[i] = NoRecord
    BY <1>1 DEF Accessed
  <1>4. Accessed(S) = [i \in Ids |-> Accessed(S)[i]]
    BY DEF Accessed
  <1>5. \A i \in Ids : made[i] \in Record \cup {NoRecord}
    BY DEF TypeOK
  <1>6. QED  BY <1>2, <1>3, <1>4, <1>5

\* Candidates are among the records seen, and of the tenant asked for.
LEMMA CandidatesSeen ==
    ASSUME NEW seen, NEW tenant, NEW q, NEW i \in Candidates(seen, tenant, q)
    PROVE  i \in seen /\ made[i].tenant = tenant
  BY DEF Candidates

\* A step that leaves the records and the calls alone.
LEMMA TypeQuiet ==
    ASSUME TypeOK, UNCHANGED <<enabled, made, call, answer, calls>>,
           now' \in Nat, stored' \subseteq stored,
           audit' \subseteq Ids \X {"ttl_elapsed", "explicit_removal"}
    PROVE  TypeOK'
  BY DEF TypeOK

\* Every step keeps the types, one step per action.
LEMMA TypeStep == TypeOK /\ [Next]_vars => TypeOK'
  <1> SUFFICES ASSUME TypeOK, [Next]_vars  PROVE TypeOK'
    OBVIOUS
  <1>1. ASSUME NEW i \in Ids, NEW t \in Templates, Remember(i, t)  PROVE TypeOK'
    <2> DEFINE r == [tenant |-> t.tenant, content |-> t.content, tier |-> t.tier,
                     confidence |-> t.confidence, trust |-> t.trust, ttl |-> t.ttl,
                     created |-> now, accessed |-> now, uses |-> 0,
                     baseline |-> Baseline(t)]
    <2>1. r \in Record /\ r # NoRecord
      BY RememberedIsRecord, MemoryAssumption
    <2> HIDE DEF r
    <2>2. made[i] = NoRecord /\ made' = [made EXCEPT ![i] = r]
            /\ stored' = stored \cup {i} /\ UNCHANGED <<enabled, now, call, answer, audit, calls>>
      BY <1>1 DEF Remember, r
    <2>3. made' \in [Ids -> Record \cup {NoRecord}]
      BY <2>1, <2>2 DEF TypeOK
    <2>4. stored' \subseteq {j \in Ids : made'[j] # NoRecord}
      BY <2>1, <2>2 DEF TypeOK
    <2>5. \A c \in Callers : call'[c] # NoCall =>
              \A j \in call'[c].begun \cup call'[c].found : made'[j] \in Record
      <3> SUFFICES ASSUME NEW c \in Callers, call[c] # NoCall,
                          NEW j \in call[c].begun \cup call[c].found
                   PROVE  made'[j] \in Record
        BY <2>2
      <3>1. call[c] \in Call /\ j \in Ids /\ made[j] \in Record
        BY DEF TypeOK, Call
      <3>2. QED  BY <2>1, <2>2, <3>1 DEF TypeOK
    <2>6. QED  BY <2>2, <2>3, <2>4, <2>5 DEF TypeOK
  <1>2. ASSUME NEW c \in Callers, NEW tenant \in Tenants, NEW q \in Queries,
               NEW limit \in Limits, RetrieveBegin(c, tenant, q, limit)
        PROVE TypeOK'
    <2> DEFINE k == [tenant |-> tenant, query |-> q, limit |-> limit, asked |-> now,
                     begun |-> stored, listed |-> FALSE, found |-> {}]
    <2>1. \A i \in stored : i \in Ids /\ made[i] \in Record
      BY DEF TypeOK
    <2>2. k \in Call /\ k.begun \cup k.found = stored
      BY <2>1 DEF Call, TypeOK
    <2> HIDE DEF k
    <2>3. /\ call' = [call EXCEPT ![c] = k] /\ calls' = calls + 1
          /\ answer' = [answer EXCEPT ![c] = Empty]
          /\ UNCHANGED <<enabled, now, made, stored, audit>>
      BY <1>2 DEF RetrieveBegin, k
    <2>4. call' \in [Callers -> Call \cup {NoCall}]
      BY <2>2, <2>3 DEF TypeOK
    <2>5. \A d \in Callers : call'[d] # NoCall =>
              \A i \in call'[d].begun \cup call'[d].found : made'[i] \in Record
      BY <2>1, <2>2, <2>3 DEF TypeOK
    <2>6. answer' \in [Callers -> Manifest]
      BY <2>3 DEF TypeOK, Empty, Manifest
    <2>7. QED  BY <2>3, <2>4, <2>5, <2>6 DEF TypeOK
  <1>11. ASSUME NEW c \in Callers, ListCandidates(c)  PROVE TypeOK'
    <2> DEFINE q == call[c]
    <2>1. PICK seen \in SUBSET (q.begun \cup stored) :
             call' = [call EXCEPT ![c] =
                [q EXCEPT !.begun = {}, !.listed = TRUE,
                          !.found = Candidates(seen, q.tenant, q.query)]]
      BY <1>11 DEF ListCandidates
    <2> DEFINE k == [q EXCEPT !.begun = {}, !.listed = TRUE,
                              !.found = Candidates(seen, q.tenant, q.query)]
    <2>2. q \in Call /\ \A i \in q.begun \cup stored : i \in Ids /\ made[i] \in Record
      BY <1>11 DEF ListCandidates, TypeOK, Call
    <2>3. \A i \in Candidates(seen, q.tenant, q.query) : i \in Ids /\ made[i] \in Record
      BY <2>2, CandidatesSeen
    <2>4. k \in Call /\ k.begun \cup k.found = Candidates(seen, q.tenant, q.query)
      BY <2>2, <2>3 DEF Call
    <2>5. /\ call' = [call EXCEPT ![c] = k]
          /\ UNCHANGED <<enabled, now, made, stored, answer, audit, calls>>
      BY <1>11, <2>1 DEF ListCandidates
    <2> HIDE DEF k, q
    <2>6. call' \in [Callers -> Call \cup {NoCall}]
      BY <2>4, <2>5 DEF TypeOK
    <2>7. \A d \in Callers : call'[d] # NoCall =>
              \A i \in call'[d].begun \cup call'[d].found : made'[i] \in Record
      BY <2>3, <2>4, <2>5 DEF TypeOK
    <2>8. QED  BY <2>5, <2>6, <2>7 DEF TypeOK
  <1>12. ASSUME NEW c \in Callers, ListingRaises(c)  PROVE TypeOK'
    BY <1>12 DEF ListingRaises, TypeOK
  <1>3. ASSUME NEW c \in Callers, RetrieveEnd(c)  PROVE TypeOK'
    <2> DEFINE q == call[c]
               out == {i \in q.found : Excluded(made[i], q.asked)}
    <2>1. q \in Call /\ q.found \subseteq Ids
      BY <1>3 DEF RetrieveEnd, TypeOK, Call
    <2>2. PICK S \in Chosen(q.found \ out, q.limit, q.asked) :
             /\ made' = Accessed(Touched(S, q.found))
             /\ answer' = [answer EXCEPT ![c] = [included |-> S, excluded |-> out]]
      BY <1>3 DEF RetrieveEnd
    <2>3. S \subseteq q.found /\ out \subseteq q.found
      BY DEF Chosen
    <2> HIDE DEF q, out
    <2>4. [included |-> S, excluded |-> out] \in Manifest
      BY <2>1, <2>3 DEF Manifest
    <2>5. answer' \in [Callers -> Manifest]
      BY <2>2, <2>4 DEF TypeOK
    <2>6. Touched(S, q.found) \in SUBSET stored
      BY DEF Touched
    <2>7. /\ made' \in [Ids -> Record \cup {NoRecord}]
          /\ \A i \in Ids : made[i] \in Record => made'[i] \in Record
          /\ \A i \in Ids : made[i] = NoRecord => made'[i] = NoRecord
      BY <2>2, <2>6, AccessedType
    <2>8. call' = [call EXCEPT ![c] = NoCall] /\ UNCHANGED <<enabled, now, stored, audit, calls>>
      BY <1>3 DEF RetrieveEnd
    <2>9. stored' \subseteq {i \in Ids : made'[i] # NoRecord}
      <3>1. \A i \in stored : i \in Ids /\ made[i] \in Record
        BY DEF TypeOK
      <3>2. QED  BY <2>7, <2>8, <3>1, MemoryAssumption
    <2>10. \A d \in Callers : call'[d] # NoCall =>
               \A i \in call'[d].begun \cup call'[d].found : made'[i] \in Record
      <3> SUFFICES ASSUME NEW d \in Callers, call'[d] # NoCall,
                          NEW i \in call'[d].begun \cup call'[d].found
                   PROVE  made'[i] \in Record
        OBVIOUS
      <3>1. call'[d] = call[d]
        BY <2>8 DEF TypeOK
      <3>2. call[d] \in Call /\ made[i] \in Record /\ i \in Ids
        BY <3>1 DEF TypeOK, Call
      <3>3. QED  BY <2>7, <3>2
    <2>11. call' \in [Callers -> Call \cup {NoCall}]
      BY <2>8 DEF TypeOK
    <2>12. QED  BY <2>5, <2>7, <2>8, <2>9, <2>10, <2>11 DEF TypeOK
  <1>4. ASSUME NEW c \in Callers, RetrieveOff(c)  PROVE TypeOK'
    <2>1. answer' \in [Callers -> Manifest]
      BY <1>4 DEF RetrieveOff, TypeOK, Empty, Manifest
    <2>2. QED  BY <1>4, <2>1 DEF RetrieveOff, TypeOK
  <1>5. CASE Expire
    <2>1. audit' \subseteq Ids \X {"ttl_elapsed", "explicit_removal"}
      BY <1>5 DEF Expire, TypeOK
    <2>2. QED  BY <1>5, <2>1, TypeQuiet DEF Expire, AfterExpiry, TypeOK
  <1>6. ASSUME NEW i \in Ids, Forget(i)  PROVE TypeOK'
    <2>1. audit' \subseteq Ids \X {"ttl_elapsed", "explicit_removal"}
      BY <1>6 DEF Forget, TypeOK
    <2>2. QED  BY <1>6, <2>1, TypeQuiet DEF Forget, TypeOK
  <1>7. ASSUME NEW i \in Ids, NEW text \in Contents, Edit(i, text)  PROVE TypeOK'
    <2> DEFINE r == [made[i] EXCEPT !.content = text]
    <2>1. made[i] \in Record
      BY <1>7 DEF Edit, TypeOK
    <2>2. r \in Record /\ r # NoRecord
      BY <2>1, MemoryAssumption DEF Record
    <2> HIDE DEF r
    <2>3. made' = [made EXCEPT ![i] = r] /\ UNCHANGED <<enabled, now, stored, call, answer, audit, calls>>
      BY <1>7 DEF Edit, r
    <2>4. made' \in [Ids -> Record \cup {NoRecord}]
      BY <2>2, <2>3 DEF TypeOK
    <2>5. stored' \subseteq {j \in Ids : made'[j] # NoRecord}
      BY <2>2, <2>3 DEF TypeOK
    <2>6. \A c \in Callers : call'[c] # NoCall =>
              \A j \in call'[c].begun \cup call'[c].found : made'[j] \in Record
      <3> SUFFICES ASSUME NEW c \in Callers, call[c] # NoCall,
                          NEW j \in call[c].begun \cup call[c].found
                   PROVE  made'[j] \in Record
        BY <2>3
      <3>1. j \in Ids /\ made[j] \in Record
        BY DEF TypeOK, Call
      <3>2. QED  BY <2>2, <2>3, <3>1 DEF TypeOK
    <2>7. QED  BY <2>3, <2>4, <2>5, <2>6 DEF TypeOK
  <1>8. CASE Tick
    BY <1>8, TypeQuiet DEF Tick, TypeOK
  <1>9. CASE UNCHANGED vars
    BY <1>9, TypeQuiet DEF vars, TypeOK
  <1>10. QED
    BY <1>1, <1>2, <1>3, <1>4, <1>5, <1>6, <1>7, <1>8, <1>9, <1>11, <1>12 DEF Next

\* The records, the calls in progress and the audit trail keep their types
\* whatever is remembered, retrieved, edited and forgotten (memory/store.py,
\* memory/governor.py).
THEOREM MemoryTypeCorrect == Spec => []TypeOK
  BY TypeInit, TypeStep, PTL DEF Spec

-----------------------------------------------------------------------------
(* Removal                                                                 *)

\* Nothing has been removed at first.
LEMMA RemovalInit == Init => RemovalAudited
  BY DEF Init, RemovalAudited

\* Only Forget takes a record out of the store, and says so.
LEMMA RemovalStep == TypeOK /\ RemovalAudited /\ [Next]_vars => RemovalAudited'
  <1> SUFFICES ASSUME TypeOK, RemovalAudited, [Next]_vars,
                      NEW i \in Ids, made'[i] # NoRecord, i \notin stored'
               PROVE  <<i, "explicit_removal">> \in audit'
    BY DEF RemovalAudited
  <1> USE DEF RemovalAudited
  <1>1. ASSUME NEW j \in Ids, NEW t \in Templates, Remember(j, t)
        PROVE  <<i, "explicit_removal">> \in audit'
    <2>1. i # j
      BY <1>1 DEF Remember
    <2>2. made'[i] = made[i] /\ i \notin stored /\ audit' = audit
      BY <1>1, <2>1 DEF Remember, TypeOK
    <2>3. QED  BY <2>2
  <1>2. ASSUME NEW c \in Callers, RetrieveEnd(c)
        PROVE  <<i, "explicit_removal">> \in audit'
    <2>1. PICK S : made' = Accessed(Touched(S, call[c].found))
      BY <1>2 DEF RetrieveEnd
    <2>2. Touched(S, call[c].found) \in SUBSET stored
      BY DEF Touched
    <2>3. made[i] # NoRecord
      BY <2>1, <2>2, AccessedType
    <2>4. stored' = stored /\ audit' = audit
      BY <1>2 DEF RetrieveEnd
    <2>5. QED  BY <2>3, <2>4
  <1>3. ASSUME NEW j \in Ids, Forget(j)
        PROVE  <<i, "explicit_removal">> \in audit'
    BY <1>3 DEF Forget
  <1>4. ASSUME NEW j \in Ids, NEW text \in Contents, Edit(j, text)
        PROVE  <<i, "explicit_removal">> \in audit'
    BY <1>4 DEF Edit, TypeOK
  <1>5. CASE Expire
    BY <1>5 DEF Expire, AfterExpiry
  <1>6. CASE Tick \/ UNCHANGED vars
    BY <1>6 DEF Tick, vars
  <1>7. ASSUME NEW c \in Callers,
               \/ \E tenant \in Tenants, q \in Queries, limit \in Limits :
                      RetrieveBegin(c, tenant, q, limit)
               \/ ListCandidates(c) \/ ListingRaises(c) \/ RetrieveOff(c)
        PROVE  <<i, "explicit_removal">> \in audit'
    BY <1>7 DEF RetrieveOff, RetrieveBegin, ListCandidates, ListingRaises
  <1>8. QED  BY <1>1, <1>2, <1>3, <1>4, <1>5, <1>6, <1>7 DEF Next

\* No record leaves the store without its explicit_removal event, expired or
\* not (forget_memory() and expire_memory()).
THEOREM RemovalsAreAudited == Spec => []RemovalAudited
  BY TypeInit, TypeStep, RemovalInit, RemovalStep, PTL DEF Spec

-----------------------------------------------------------------------------
(* What a retrieval hands out and marks                                    *)

\* The candidates of a call in progress are of its tenant, since nothing changes
\* the tenant of a record, and its caller has been handed nothing yet.
FoundAreOwn ==
    \A c \in Callers : call[c] # NoCall =>
        /\ \A i \in call[c].found : made[i].tenant = call[c].tenant
        /\ answer[c].included = {}

\* No call is in progress at first.
LEMMA FoundInit == Init => FoundAreOwn
  BY DEF Init, FoundAreOwn

\* A step that begins no call keeps FoundAreOwn if it keeps tenants.
LEMMA FoundKept ==
    ASSUME TypeOK, FoundAreOwn,
           \A c \in Callers : call'[c] # NoCall =>
               call'[c] = call[c] /\ answer'[c].included = answer[c].included,
           \A i \in Ids : made[i] \in Record => made'[i].tenant = made[i].tenant
    PROVE  FoundAreOwn'
  <1>1. ASSUME NEW c \in Callers, call'[c] # NoCall, NEW i \in call'[c].found
        PROVE  made'[i].tenant = call'[c].tenant
    <2>1. call'[c] = call[c]
      BY <1>1
    <2>2. call[c] \in Call /\ i \in Ids /\ made[i] \in Record
      BY <1>1, <2>1 DEF TypeOK, Call
    <2>3. QED  BY <1>1, <2>1, <2>2 DEF FoundAreOwn
  <1>2. \A c \in Callers : call'[c] # NoCall => answer'[c].included = {}
    BY DEF FoundAreOwn
  <1>3. QED  BY <1>1, <1>2 DEF FoundAreOwn

\* Every step keeps the candidates of a call its own.
LEMMA FoundStep == TypeOK /\ FoundAreOwn /\ [Next]_vars => FoundAreOwn'
  <1> SUFFICES ASSUME TypeOK, FoundAreOwn, [Next]_vars  PROVE FoundAreOwn'
    OBVIOUS
  <1>1. ASSUME NEW i \in Ids, NEW t \in Templates, Remember(i, t)  PROVE FoundAreOwn'
    <2>1. \A j \in Ids : made[j] \in Record => j # i
      BY <1>1, MemoryAssumption DEF Remember
    <2>2. \A j \in Ids : made[j] \in Record => made'[j] = made[j]
      BY <1>1, <2>1 DEF Remember, TypeOK
    <2>3. call' = call /\ answer' = answer
      BY <1>1 DEF Remember
    <2>4. QED  BY <2>2, <2>3, FoundKept
  <1>2. ASSUME NEW c \in Callers, NEW tenant \in Tenants, NEW q \in Queries,
               NEW limit \in Limits, RetrieveBegin(c, tenant, q, limit)
        PROVE  FoundAreOwn'
    <2>1. made' = made /\ call'[c].found = {} /\ answer'[c].included = {}
      BY <1>2 DEF RetrieveBegin, TypeOK, Empty
    <2>2. \A d \in Callers \ {c} : call'[d] = call[d] /\ answer'[d] = answer[d]
      BY <1>2 DEF RetrieveBegin, TypeOK
    <2>3. QED  BY <2>1, <2>2 DEF FoundAreOwn
  <1>7. ASSUME NEW c \in Callers, ListCandidates(c)  PROVE FoundAreOwn'
    <2>1. PICK seen :
             call' = [call EXCEPT ![c] =
                [call[c] EXCEPT !.begun = {}, !.listed = TRUE,
                                !.found = Candidates(seen, call[c].tenant, call[c].query)]]
      BY <1>7 DEF ListCandidates
    <2>2. call[c] \in Call /\ made' = made /\ answer' = answer /\ answer[c].included = {}
      BY <1>7 DEF ListCandidates, TypeOK, FoundAreOwn
    <2>3. /\ call'[c].found = Candidates(seen, call[c].tenant, call[c].query)
          /\ call'[c].tenant = call[c].tenant
          /\ \A d \in Callers \ {c} : call'[d] = call[d]
      BY <2>1, <2>2 DEF TypeOK, Call
    <2>4. \A i \in call'[c].found : made'[i].tenant = call'[c].tenant
      BY <2>2, <2>3, CandidatesSeen
    <2>5. QED  BY <2>2, <2>3, <2>4 DEF FoundAreOwn
  <1>8. ASSUME NEW c \in Callers, ListingRaises(c)  PROVE FoundAreOwn'
    <2>1. /\ made' = made /\ answer' = answer
          /\ \A d \in Callers : call'[d] # NoCall => call'[d] = call[d]
      BY <1>8 DEF ListingRaises, TypeOK
    <2>2. QED  BY <2>1, FoundKept
  <1>3. ASSUME NEW c \in Callers, RetrieveEnd(c)  PROVE FoundAreOwn'
    <2>1. PICK S : made' = Accessed(Touched(S, call[c].found))
      BY <1>3 DEF RetrieveEnd
    <2>2. Touched(S, call[c].found) \in SUBSET Ids
      BY DEF Touched, TypeOK
    <2>3. \A i \in Ids : made[i] \in Record => made'[i].tenant = made[i].tenant
      BY <2>1, <2>2, AccessedKeeps
    <2>4. \A d \in Callers : call'[d] # NoCall => call'[d] = call[d] /\ answer'[d] = answer[d]
      BY <1>3 DEF RetrieveEnd, TypeOK
    <2>5. QED  BY <2>3, <2>4, FoundKept
  <1>4. ASSUME NEW i \in Ids, NEW text \in Contents, Edit(i, text)  PROVE FoundAreOwn'
    <2>1. \A j \in Ids : made[j] \in Record => made'[j].tenant = made[j].tenant
      BY <1>4 DEF Edit, TypeOK, Record
    <2>2. call' = call /\ answer' = answer
      BY <1>4 DEF Edit
    <2>3. QED  BY <2>1, <2>2, FoundKept
  <1>5. CASE UNCHANGED <<made, call, answer>>
    BY <1>5, FoundKept
  <1>9. ASSUME NEW c \in Callers, RetrieveOff(c)  PROVE FoundAreOwn'
    <2>1. /\ made' = made /\ call' = call
          /\ \A d \in Callers : answer'[d] = answer[d] \/ answer'[d].included = {}
      BY <1>9 DEF RetrieveOff, TypeOK, Empty
    <2>2. QED  BY <2>1 DEF FoundAreOwn
  <1>6. QED
    BY <1>1, <1>2, <1>3, <1>4, <1>5, <1>7, <1>8, <1>9
       DEF Next, Expire, Forget, Tick, vars

\* The call that ends in a step is that of the caller whose step it is.  What it
\* hands out was chosen among its candidates that the governor did not exclude; a
\* call that raises hands out nothing.
LEMMA EndingStep ==
    ASSUME TypeOK, FoundAreOwn, Next, NEW c \in Callers, call[c] # NoCall, call'[c] = NoCall
    PROVE  \E S \in SUBSET call[c].found :
              /\ \A i \in S : i \in Ids /\ made[i] \in Record
                                /\ ~Excluded(made[i], call[c].asked)
              /\ made' = Accessed(stored \cap S)
              /\ answer'[c].included = S
  <1>1. RetrieveEnd(c) \/ ListingRaises(c)
    <2>1. ASSUME NEW d \in Callers, NEW tenant \in Tenants, NEW q \in Queries,
                 NEW limit \in Limits, RetrieveBegin(d, tenant, q, limit)
          PROVE  FALSE
      <3>1. c # d
        BY <2>1 DEF RetrieveBegin
      <3>2. QED  BY <2>1, <3>1 DEF RetrieveBegin, TypeOK
    <2>2. ASSUME NEW d \in Callers, RetrieveEnd(d) \/ ListingRaises(d)  PROVE d = c
      BY <2>2 DEF RetrieveEnd, ListingRaises, TypeOK
    <2>3. ASSUME NEW d \in Callers, ListCandidates(d)  PROVE FALSE
      <3>1. d = c
        BY <2>3 DEF ListCandidates, TypeOK
      <3>2. PICK seen \in SUBSET (call[c].begun \cup stored) :
              call'[c] = [call[c] EXCEPT
                            !.begun = {}, !.listed = TRUE,
                            !.found = Candidates(seen, call[c].tenant, call[c].query)]
        BY <2>3, <3>1 DEF ListCandidates, TypeOK
      <3>3. Candidates(seen, call[c].tenant, call[c].query) \in SUBSET Ids
        BY DEF Candidates, TypeOK, Call
      <3>4. call[c] \in Call
        BY DEF TypeOK
      <3>5. call'[c] \in Call
        BY <3>2, <3>3, <3>4 DEF Call
      <3>6. QED  BY <3>5, CallAssumption
    <2>4. QED
      BY <2>1, <2>2, <2>3 DEF Next, Remember, RetrieveOff, Expire, Forget, Edit, Tick
  <1>2. CASE RetrieveEnd(c)
    <2>1. PICK S \in Chosen(call[c].found
                              \ {i \in call[c].found : Excluded(made[i], call[c].asked)},
                            call[c].limit, call[c].asked) :
             /\ made' = Accessed(Touched(S, call[c].found))
             /\ answer' = [answer EXCEPT ![c] =
                   [included |-> S,
                    excluded |-> {i \in call[c].found : Excluded(made[i], call[c].asked)}]]
      BY <1>2 DEF RetrieveEnd
    <2>2. /\ S \subseteq call[c].found
          /\ \A i \in S : ~Excluded(made[i], call[c].asked)
      BY DEF Chosen
    <2>3. \A i \in S : i \in Ids /\ made[i] \in Record
      <3>1. call[c] \in Call
        BY DEF TypeOK
      <3>2. QED  BY <2>2, <3>1 DEF TypeOK, Call
    <2>4. answer'[c].included = S
      BY <2>1 DEF TypeOK
    <2>5. made' = Accessed(stored \cap S)
      BY <2>1 DEF Touched
    <2>6. QED  BY <2>2, <2>3, <2>4, <2>5
  <1>3. CASE ListingRaises(c)
    <2>1. made' = made /\ answer'[c].included = {}
      BY <1>3 DEF ListingRaises, FoundAreOwn
    <2>2. Accessed(stored \cap {}) = [i \in Ids |-> made[i]]
      BY DEF Accessed
    <2>3. made = [i \in Ids |-> made[i]]
      BY DEF TypeOK
    <2>4. made' = Accessed(stored \cap {})
      BY <2>1, <2>2, <2>3
    <2>5. QED  BY <2>1, <2>4
  <1>4. QED  BY <1>1, <1>2, <1>3

\* The end of a retrieval hands out intact records of its tenant, and marks
\* only those.
LEMMA IntactStep ==
    ASSUME TypeOK, FoundAreOwn, Next, NEW c \in Callers, call[c] # NoCall, call'[c] = NoCall
    PROVE  /\ \A i \in answer'[c].included :
                 made'[i].content = made'[i].baseline /\ made'[i].tenant = call[c].tenant
           /\ \A i \in Ids : made'[i] # made[i] => made[i].tenant = call[c].tenant
  <1>1. PICK S \in SUBSET call[c].found :
           /\ \A i \in S : i \in Ids /\ made[i] \in Record
                             /\ ~Excluded(made[i], call[c].asked)
           /\ made' = Accessed(stored \cap S)
           /\ answer'[c].included = S
    BY EndingStep
  <1>2. \A i \in S : made[i].tenant = call[c].tenant
    BY DEF FoundAreOwn
  <1>3. \A i \in S : made[i].content = made[i].baseline
    BY <1>1 DEF Excluded, Drifted
  <1>4. stored \cap S \in SUBSET Ids
    BY <1>1
  <1>5. \A i \in S : /\ made'[i].content = made[i].content
                     /\ made'[i].baseline = made[i].baseline
                     /\ made'[i].tenant = made[i].tenant
    BY <1>1, <1>4, AccessedKeeps
  <1>6. \A i \in Ids : i \notin S => made'[i] = made[i]
    BY <1>1 DEF Accessed
  <1>7. QED  BY <1>1, <1>2, <1>3, <1>5, <1>6

\* What an agent is handed is of its tenant and as remembered when it was
\* judged, whoever changed a shared record meanwhile.
THEOREM WhatIsHandedOut == Spec => HandedOutIntact
  <1>1. TypeOK /\ FoundAreOwn /\ [Next]_vars
          => [\A c \in Callers :
                 call[c] # NoCall /\ call'[c] = NoCall =>
                     \A i \in answer'[c].included :
                         /\ made'[i].content = made'[i].baseline
                         /\ made'[i].tenant = call[c].tenant]_vars
    BY IntactStep
  <1>2. QED
    BY <1>1, TypeInit, TypeStep, FoundInit, FoundStep, PTL DEF Spec, HandedOutIntact

\* A retrieval for one tenant marks no record of another.
THEOREM TenantsAreApart == Spec => TenantsApart
  <1>1. TypeOK /\ FoundAreOwn /\ [Next]_vars
          => [\A c \in Callers :
                 call[c] # NoCall /\ call'[c] = NoCall =>
                     \A i \in Ids :
                         made'[i] # made[i] => made[i].tenant = call[c].tenant]_vars
    BY IntactStep
  <1>2. QED
    BY <1>1, TypeInit, TypeStep, FoundInit, FoundStep, PTL DEF Spec, TenantsApart

-----------------------------------------------------------------------------
(* Staleness                                                               *)

\* A step that leaves the time of the last access of record i, begins no call
\* and does not turn the clock back leaves i out.
LEMMA OutKept ==
    ASSUME TypeOK, NEW i \in Ids, OutForGood(i),
           made'[i] # NoRecord, made'[i].accessed = made[i].accessed,
           now' \in Nat, now' >= now,
           \A c \in Callers : call'[c] # NoCall => call'[c] = call[c]
    PROVE  OutForGood(i)'
  <1>1. made[i] \in Record /\ made[i].accessed \in Nat /\ now \in Nat /\ StaleAfter \in Nat
    BY MemoryAssumption DEF OutForGood, Old, TypeOK, Record
  <1>2. now' - made'[i].accessed > StaleAfter
    BY <1>1 DEF OutForGood, Old, TooOld
  <1>3. \A c \in Callers : call'[c] # NoCall /\ (call'[c].listed => i \in call'[c].found) =>
            call'[c].asked - made'[i].accessed > StaleAfter
    BY DEF OutForGood, TooOld
  <1>4. QED  BY <1>2, <1>3 DEF OutForGood, Old, TooOld

\* No step brings a record back in.
LEMMA OldStep ==
    ASSUME TypeOK, [Next]_vars, NEW i \in Ids, OutForGood(i)
    PROVE  OutForGood(i)'
  <1>1. made[i] \in Record /\ made[i] # NoRecord /\ now \in Nat
    BY DEF OutForGood, Old, TypeOK
  <1>2. ASSUME NEW j \in Ids, NEW t \in Templates, Remember(j, t)  PROVE OutForGood(i)'
    BY <1>1, <1>2, OutKept DEF Remember, TypeOK
  <1>3. ASSUME NEW c \in Callers, NEW tenant \in Tenants, NEW q \in Queries,
               NEW limit \in Limits, RetrieveBegin(c, tenant, q, limit)
        PROVE  OutForGood(i)'
    <2>1. made' = made /\ now' = now
      BY <1>3 DEF RetrieveBegin
    <2>2. \A d \in Callers : call'[d] # NoCall => call'[d] = call[d] \/ call'[d].asked = now
      BY <1>3 DEF RetrieveBegin, TypeOK
    <2>3. QED  BY <2>1, <2>2 DEF OutForGood, Old, TooOld
  <1>4. ASSUME NEW c \in Callers, RetrieveEnd(c)  PROVE OutForGood(i)'
    <2>1. call[c] # NoCall /\ call' = [call EXCEPT ![c] = NoCall] /\ now' = now
      BY <1>4 DEF RetrieveEnd
    <2>2. PICK S \in Chosen(call[c].found
                              \ {j \in call[c].found : Excluded(made[j], call[c].asked)},
                            call[c].limit, call[c].asked) :
             made' = Accessed(Touched(S, call[c].found))
      BY <1>4 DEF RetrieveEnd
    <2>3. i \notin S
      BY <2>1 DEF Chosen, Excluded, OutForGood
    <2>4. made'[i] = made[i]
      BY <2>2, <2>3 DEF Accessed, Touched
    <2>5. \A d \in Callers : call'[d] # NoCall => call'[d] = call[d]
      BY <2>1 DEF TypeOK
    <2>6. QED  BY <1>1, <2>1, <2>4, <2>5, OutKept
  <1>9. ASSUME NEW c \in Callers, ListCandidates(c)  PROVE OutForGood(i)'
    <2>1. /\ call[c] \in Call /\ call[c] # NoCall /\ ~call[c].listed
          /\ made' = made /\ now' = now
      BY <1>9 DEF ListCandidates, TypeOK
    <2>2. TooOld(made[i], call[c].asked)
      BY <2>1 DEF OutForGood
    <2>3. /\ call'[c].asked = call[c].asked
          /\ \A d \in Callers \ {c} : call'[d] = call[d]
      BY <1>9, <2>1 DEF ListCandidates, TypeOK, Call
    <2>4. QED  BY <2>1, <2>2, <2>3 DEF OutForGood, Old
  <1>10. ASSUME NEW c \in Callers, ListingRaises(c)  PROVE OutForGood(i)'
    <2>1. /\ made' = made /\ now' = now
          /\ \A d \in Callers : call'[d] # NoCall => call'[d] = call[d]
      BY <1>10 DEF ListingRaises, TypeOK
    <2>2. QED  BY <1>1, <2>1, OutKept
  <1>5. ASSUME NEW j \in Ids, NEW text \in Contents, Edit(j, text)  PROVE OutForGood(i)'
    <2>1. made'[i] \in Record /\ made'[i].accessed = made[i].accessed
      BY <1>1, <1>5 DEF Edit, TypeOK, Record
    <2>2. QED  BY <1>1, <1>5, <2>1, OutKept, MemoryAssumption DEF Edit
  <1>6. CASE Tick
    BY <1>1, <1>6, OutKept DEF Tick
  <1>7. CASE UNCHANGED <<now, made, call>>
    BY <1>1, <1>7, OutKept
  <1>8. QED
    BY <1>2, <1>3, <1>4, <1>5, <1>6, <1>7, <1>9, <1>10
       DEF Next, RetrieveOff, Expire, Forget, vars

\* A record that is too old for every call that found it or may yet find it stays
\* so: only the records handed out are renewed.
THEOREM StalenessIsFinal == Spec => OldStaysOut
  <1>1. TypeOK /\ [Next]_vars => [\A i \in Ids : OutForGood(i) => OutForGood(i)']_vars
    BY OldStep
  <1>2. QED  BY <1>1, TypeInit, TypeStep, PTL DEF Spec, OldStaysOut

=============================================================================
