--------------------------- MODULE ConsoleProofs ---------------------------
(***************************************************************************)
(* Theorems about Console, for any processes, actors, workflows and runs.  *)
(***************************************************************************)
EXTENDS Console, TLAPS

-----------------------------------------------------------------------------
(* Types                                                                   *)

\* What the three ways an actor moves do to the locals.
LEMMA MovedFrames ==
    ASSUME TypeOK, NEW a \in Actors, NEW label, NEW locals,
           step' = [step EXCEPT ![a] = label], frame' = [frame EXCEPT ![a] = locals]
    PROVE  /\ DOMAIN frame' = Actors
           /\ step'[a] = label /\ frame'[a] = locals
           /\ \A b \in Actors : b # a => step'[b] = step[b] /\ frame'[b] = frame[b]
BY DEF TypeOK

LEMMA BegunType ==
    ASSUME TypeOK, NEW a \in Actors, NEW label, NEW locals, Begin(a, label, locals),
           \/ label \in {"fill", "lookup"} /\ locals \in AskFrame
           \/ label = "script"
           \/ label = "reading" /\ locals \in ReadFrame
    PROVE  TypeOK'
<1>1. /\ DOMAIN frame' = Actors
      /\ step'[a] = label /\ frame'[a] = locals
      /\ \A b \in Actors : b # a => step'[b] = step[b] /\ frame'[b] = frame[b]
  BY MovedFrames DEF Begin, Goto
<1>2. \A b \in Actors : FrameOK(b)'
  BY <1>1 DEF TypeOK, FrameOK, Begin
<1>3. requests' \in 0 .. MaxRequests
  BY ConsoleAssumption DEF TypeOK, Begin
<1> QED
  BY <1>1, <1>2, <1>3 DEF TypeOK, Begin, Goto

LEMMA ReturnedType ==
    ASSUME TypeOK, NEW a \in Actors, NEW runs \in SUBSET Runs,
           NEW how \in {"none", "listed", "found", "unknown", "refused", "error", "ok", "read"},
           Return(a, how, runs), registry' = registry, used' = used,
           files' \in [Runs -> {"none", "torn"} \cup Batches],
           requests' \in 0 .. MaxRequests
    PROVE  TypeOK'
<1>1. /\ DOMAIN frame' = Actors
      /\ step'[a] = "idle" /\ frame'[a] = NoFrame
      /\ \A b \in Actors : b # a => step'[b] = step[b] /\ frame'[b] = frame[b]
  BY MovedFrames DEF Return, Goto
<1>2. \A b \in Actors : FrameOK(b)'
  BY <1>1 DEF TypeOK, FrameOK
<1> QED
  BY <1>1, <1>2 DEF TypeOK, Return, Goto

LEMMA SavingType ==
    ASSUME TypeOK, NEW a \in Actors, NEW r \in Runs, NEW batch \in Batches,
           Saving(a, r, batch)
    PROVE  TypeOK'
<1>1. /\ DOMAIN frame' = Actors
      /\ step'[a] = "open" /\ frame'[a] = [run |-> r, batch |-> batch]
      /\ \A b \in Actors : b # a => step'[b] = step[b] /\ frame'[b] = frame[b]
  BY MovedFrames DEF Saving, Goto
<1>2. frame'[a] \in SaveFrame /\ r \in used' /\ used \subseteq used'
  BY <1>1 DEF Saving, SaveFrame
<1>3. \A b \in Actors : FrameOK(b)'
  BY <1>1, <1>2 DEF TypeOK, FrameOK
<1> QED
  BY <1>1, <1>3 DEF TypeOK, Saving, Goto

\* Every reachable state of the console, the commands and their files is well
\* typed.
THEOREM ConsoleTypeCorrect == Spec => []TypeOK
<1>1. Init => TypeOK
  BY ConsoleAssumption DEF Init, TypeOK, FrameOK, NoAnswer
<1>2. TypeOK /\ [Next]_vars => TypeOK'
  <2> SUFFICES ASSUME TypeOK, [Next]_vars PROVE TypeOK'
    OBVIOUS
  <2>0. /\ 1 \in DOMAIN Builtins
        /\ MaxRequests \in Nat
        /\ DOMAIN Builtins = 1 .. Len(Builtins)
    BY ConsoleAssumption
  <2>1. ASSUME NEW a \in Actors, NEW op \in {"list", "inspect", "run"}, NEW name \in Names,
               Ask(a, op, name)
        PROVE  TypeOK'
    <3>1. [op |-> op, name |-> name, at |-> 1] \in AskFrame
      BY <2>0 DEF AskFrame
    <3> QED
      BY <2>1, <3>1, BegunType DEF Ask
  <2>2. ASSUME NEW a \in Actors, Refuse(a) PROVE TypeOK'
    BY <2>0, <2>2, ReturnedType DEF Refuse, TypeOK
  <2>3. ASSUME NEW a \in Actors,
               ImportFails(a) \/ WorkflowRaises(a) \/ ScriptUnsaved(a) \/ ScriptRaises(a)
                   \/ SaveFails(a)
        PROVE  TypeOK'
    BY <2>3, ReturnedType
       DEF ImportFails, WorkflowRaises, ScriptUnsaved, ScriptRaises, SaveFails, TypeOK
  <2>4. ASSUME NEW a \in Actors, Fill(a) PROVE TypeOK'
    <3>1. frame[a] \in AskFrame /\ step[a] = "fill"
      BY <2>4 DEF Fill, TypeOK, FrameOK
    <3>2. registry' \in [Processes -> SUBSET Importable]
      BY <2>4, ConsoleAssumption DEF Fill, Registers, TypeOK
    <3>3. CASE Last(a)
      BY <2>4, <3>1, <3>2, <3>3 DEF Fill, Goto, TypeOK, FrameOK
    <3>4. CASE ~Last(a)
      <4>1. frame[a].at + 1 \in DOMAIN Builtins
        BY <2>0, <3>1, <3>4 DEF Last, AskFrame
      <4>2. frame' = [frame EXCEPT ![a] = [frame[a] EXCEPT !.at = frame[a].at + 1]]
            /\ step' = step
        BY <2>4, <3>4 DEF Fill
      <4>3. [frame[a] EXCEPT !.at = frame[a].at + 1] \in AskFrame
        BY <3>1, <4>1 DEF AskFrame
      <4>4. /\ DOMAIN frame' = Actors /\ frame'[a] \in AskFrame
            /\ \A b \in Actors : b # a => frame'[b] = frame[b]
        BY <4>2, <4>3 DEF TypeOK
      <4>5. \A b \in Actors : FrameOK(b)'
        BY <2>4, <3>1, <4>2, <4>4 DEF Fill, TypeOK, FrameOK
      <4> QED
        BY <2>4, <3>2, <4>2, <4>4, <4>5 DEF Fill, TypeOK
    <3> QED
      BY <3>3, <3>4
  <2>5. ASSUME NEW a \in Actors, Lookup(a) PROVE TypeOK'
    <3>1. CASE \E how \in {"listed", "found", "unknown"} : Return(a, how, {})
      BY <2>5, <3>1, ReturnedType DEF Lookup, TypeOK
    <3>2. CASE Goto(a, "execute") /\ UNCHANGED <<frame, answer>>
      BY <2>5, <3>2 DEF Lookup, Goto, TypeOK, FrameOK
    <3> QED
      BY <2>5, <3>1, <3>2 DEF Lookup
  <2>6. ASSUME NEW a \in Actors, NEW r \in Runs, WorkflowReturns(a, r) PROVE TypeOK'
    BY <2>6, SavingType DEF WorkflowReturns, Batches
  <2>7. ASSUME NEW a \in Actors, StartScript(a) PROVE TypeOK'
    BY <2>7, BegunType DEF StartScript
  <2>8. ASSUME NEW a \in Actors, NEW leaves \in {"end", "exit"}, NEW r \in Runs,
               ScriptLeaves(a, leaves, r)
        PROVE  TypeOK'
    BY <2>8, SavingType DEF ScriptLeaves, BatchOf, Batches
  <2>9. ASSUME NEW a \in Actors, OpenTrace(a) PROVE TypeOK'
    BY <2>9 DEF OpenTrace, Goto, TypeOK, FrameOK
  <2>10. ASSUME NEW a \in Actors, WriteTrace(a) PROVE TypeOK'
    <3>1. frame[a] \in SaveFrame
      BY <2>10 DEF WriteTrace, TypeOK, FrameOK
    <3>2. files' \in [Runs -> {"none", "torn"} \cup Batches]
      BY <2>10, <3>1 DEF WriteTrace, TypeOK, SaveFrame
    <3> QED
      BY <2>10, <3>2, ReturnedType DEF WriteTrace, TypeOK
  <2>11. ASSUME NEW a \in Actors, NEW scope \in SUBSET Runs,
                Begin(a, "reading", Reading(scope))
         PROVE  TypeOK'
    <3>1. Reading(scope) \in ReadFrame
      BY DEF Reading, ReadFrame, Whole
    <3> QED
      BY <2>11, <3>1, BegunType
  <2>12. ASSUME NEW a \in Actors, NEW r \in Runs, ReadTrace(a, r) PROVE TypeOK'
    <3>1. frame[a] \in ReadFrame /\ step[a] = "reading"
      BY <2>12 DEF ReadTrace, TypeOK, FrameOK
    <3>2. PICK got \in SUBSET Runs :
              frame' = [frame EXCEPT ![a] = [frame[a] EXCEPT !.read = frame[a].read \cup {r},
                                                            !.got = got]]
      BY <2>12, <3>1 DEF ReadTrace, ReadFrame
    <3>3. frame'[a] \in ReadFrame /\ DOMAIN frame' = Actors
          /\ \A b \in Actors : b # a => frame'[b] = frame[b]
      BY <3>1, <3>2 DEF TypeOK, ReadFrame
    <3>4. \A b \in Actors : FrameOK(b)'
      BY <2>12, <3>1, <3>3 DEF ReadTrace, TypeOK, FrameOK
    <3> QED
      BY <2>12, <3>3, <3>4 DEF ReadTrace, TypeOK
  <2>13. ASSUME NEW a \in Actors, ReadDone(a) PROVE TypeOK'
    <3>1. frame[a].got \in SUBSET Runs
      BY <2>13 DEF ReadDone, TypeOK, FrameOK, ReadFrame
    <3> QED
      BY <2>13, <3>1, ReturnedType DEF ReadDone, TypeOK
  <2>14. ASSUME NEW p \in Processes, Exit(p) PROVE TypeOK'
    BY <2>14 DEF Exit, TypeOK, FrameOK, NoAnswer
  <2>15. CASE UNCHANGED vars
    BY <2>15 DEF vars, TypeOK, FrameOK
  <2>16. ASSUME NEW a \in Actors, ListRuns(a) \/ \E r \in Runs : ShowRun(a, r) PROVE TypeOK'
    BY <2>11, <2>16 DEF ListRuns, ShowRun
  <2> QED
    BY <2>1, <2>2, <2>3, <2>4, <2>5, <2>6, <2>7, <2>8, <2>9, <2>10, <2>12, <2>13, <2>14,
       <2>15, <2>16 DEF Next
<1> QED
  BY <1>1, <1>2, PTL DEF Spec

-----------------------------------------------------------------------------
(* The registry                                                            *)

\* A request that fills the registry has registered what precedes its place,
\* and a registry that has something is whole or has somebody at work beyond
\* the first workflow: a request that is still importing may give up.
Filled(a) ==
    step[a] = "fill" =>
        \A i \in DOMAIN Builtins :
            i < frame[a].at /\ Builtins[i] \in Importable => Builtins[i] \in Registered(a)

WholeOrFilling(p) ==
    \/ registry[p] = {}
    \/ registry[p] = Importable
    \/ \E b \in Actors : step[b] = "fill" /\ ProcessOf[b] = p /\ frame[b].at > 1

RegistryInv ==
    /\ \A a \in Actors : Filled(a)
    /\ \A p \in Processes : WholeOrFilling(p)
    /\ \A a \in Actors : step[a] = "lookup" => Registered(a) # {}

\* A step that leaves the registry alone and neither begins nor ends a filling
\* beyond the first workflow.
LEMMA RegistryKept ==
    ASSUME TypeOK, RegistryInv, registry' = registry,
           \A b \in Actors :
              /\ step[b] = "fill" /\ frame[b].at > 1 =>
                     step'[b] = "fill" /\ frame'[b].at = frame[b].at
              /\ step'[b] = "fill" => \/ frame'[b].at = 1
                                      \/ step[b] = "fill" /\ frame'[b].at = frame[b].at
              /\ step'[b] = "lookup" => step[b] = "lookup" \/ Registered(b) # {}
    PROVE  RegistryInv'
<1>1. \A b \in Actors : Filled(b)'
  <2> TAKE b \in Actors
  <2>1. CASE step'[b] = "fill" /\ frame'[b].at = 1
    <3>1. \A i \in DOMAIN Builtins : ~ (i < 1)
      BY ConsoleAssumption
    <3> QED
      BY <2>1, <3>1 DEF Filled
  <2>2. CASE step[b] = "fill" /\ frame'[b].at = frame[b].at
    BY <2>2 DEF Filled, RegistryInv, Registered
  <2>3. CASE step'[b] # "fill"
    BY <2>3 DEF Filled
  <2> QED
    BY <2>1, <2>2, <2>3
<1>2. \A q \in Processes : WholeOrFilling(q)'
  BY DEF WholeOrFilling, RegistryInv
<1>3. \A b \in Actors : step'[b] = "lookup" => Registered(b)' # {}
  BY DEF RegistryInv, Registered
<1> QED
  BY <1>1, <1>2, <1>3 DEF RegistryInv

\* The same for the steps of one actor that is not registering.
LEMMA RegistryKeptBy ==
    ASSUME TypeOK, RegistryInv, registry' = registry, NEW a \in Actors,
           NEW label, NEW locals,
           step[a] = "fill" => frame[a].at = 1,
           step' = [step EXCEPT ![a] = label], frame' = [frame EXCEPT ![a] = locals],
           label = "fill" => locals.at = 1,
           label = "lookup" => Registered(a) # {}
    PROVE  RegistryInv'
<1>1. /\ step'[a] = label /\ frame'[a] = locals
      /\ \A b \in Actors : b # a => step'[b] = step[b] /\ frame'[b] = frame[b]
  BY MovedFrames
<1> QED
  BY <1>1, RegistryKept

\* The registry a request finds is whole, unless another request of its
\* process is filling it, for any workflows, processes and threads.
THEOREM RegistryIsWhole == Spec => []LookupsHonest
<1>1. Init => RegistryInv
  BY ConsoleAssumption DEF Init, RegistryInv, Filled, WholeOrFilling
<1>2. TypeOK /\ TypeOK' /\ RegistryInv /\ [Next]_vars => RegistryInv'
  <2> SUFFICES ASSUME TypeOK, TypeOK', RegistryInv, [Next]_vars PROVE RegistryInv'
    OBVIOUS
  <2>1. ASSUME NEW a \in Actors, NEW op, NEW name, Ask(a, op, name) PROVE RegistryInv'
    BY <2>1, RegistryKeptBy DEF Ask, Begin, Goto
  <2>2. ASSUME NEW a \in Actors, NEW how, NEW runs, Return(a, how, runs),
               registry' = registry, step[a] = "fill" => frame[a].at = 1
        PROVE  RegistryInv'
    BY <2>2, RegistryKeptBy DEF Return, Goto
  <2>3. ASSUME NEW a \in Actors, Fill(a) PROVE RegistryInv'
    <3> DEFINE p == ProcessOf[a]
    <3>1. /\ frame[a].at \in DOMAIN Builtins /\ step[a] = "fill"
          /\ p \in Processes
          /\ DOMAIN Builtins = 1 .. Len(Builtins) /\ Len(Builtins) \in Nat
      BY <2>3, ConsoleAssumption DEF Fill, TypeOK, FrameOK, AskFrame
    <3>2. /\ registry'[p] = registry[p] \cup Registers(a)
          /\ \A q \in Processes : q # p => registry'[q] = registry[q]
      BY <2>3, <3>1 DEF Fill, TypeOK
    <3>3. \A i \in DOMAIN Builtins :
             i <= frame[a].at /\ Builtins[i] \in Importable => Builtins[i] \in registry'[p]
      BY <3>1, <3>2 DEF RegistryInv, Filled, Registered, Registers
    <3>4. CASE Last(a)
      <4>1. step'[a] = "lookup" /\ frame' = frame
            /\ \A b \in Actors : b # a => step'[b] = step[b]
        BY <2>3, <3>4 DEF Fill, Goto, TypeOK
      <4>2. \A i \in DOMAIN Builtins : i <= frame[a].at
        BY <3>1, <3>4 DEF Last
      <4>3. registry'[p] = Importable
        <5>1. Importable \subseteq registry'[p]
          BY <3>3, <4>2, ConsoleAssumption DEF Builtin
        <5>2. registry'[p] \subseteq Importable
          BY <3>1 DEF TypeOK
        <5> QED
          BY <5>1, <5>2
      <4>4. Importable # {}
        BY ConsoleAssumption
      <4>5. \A b \in Actors : Filled(b)'
        BY <3>2, <4>1, <4>3, ConsoleAssumption DEF RegistryInv, Filled, Registered
      <4>6. \A q \in Processes : WholeOrFilling(q)'
        <5> TAKE q \in Processes
        <5>1. CASE q = p
          BY <4>3, <5>1 DEF WholeOrFilling
        <5>2. CASE q # p
          BY <3>2, <4>1, <5>2 DEF RegistryInv, WholeOrFilling
        <5> QED
          BY <5>1, <5>2
      <4>7. \A b \in Actors : step'[b] = "lookup" => Registered(b)' # {}
        BY <3>2, <4>1, <4>3, <4>4, ConsoleAssumption DEF RegistryInv, Registered
      <4> QED
        BY <4>5, <4>6, <4>7 DEF RegistryInv
    <3>5. CASE ~Last(a)
      <4>1. /\ step' = step /\ frame'[a].at = frame[a].at + 1
            /\ \A b \in Actors : b # a => frame'[b] = frame[b]
        <5>1. frame[a] \in AskFrame
          BY <3>1 DEF TypeOK, FrameOK
        <5>2. frame' = [frame EXCEPT ![a] = [frame[a] EXCEPT !.at = frame[a].at + 1]]
              /\ step' = step
          BY <2>3, <3>5 DEF Fill
        <5> QED
          BY <5>1, <5>2 DEF TypeOK, AskFrame
      <4>2. frame'[a].at > 1
        BY <3>1, <4>1
      <4>3. \A b \in Actors : Filled(b)'
        <5> TAKE b \in Actors
        <5>1. CASE b = a
          BY <3>1, <3>3, <4>1, <5>1 DEF Filled, Registered
        <5>2. CASE b # a
          BY <3>2, <4>1, <5>2, ConsoleAssumption DEF RegistryInv, Filled, Registered
        <5> QED
          BY <5>1, <5>2
      <4>4. \A q \in Processes : WholeOrFilling(q)'
        <5> TAKE q \in Processes
        <5>1. CASE q = p
          BY <3>1, <4>1, <4>2, <5>1 DEF WholeOrFilling
        <5>2. CASE q # p
          BY <3>1, <3>2, <4>1, <5>2 DEF RegistryInv, WholeOrFilling
        <5> QED
          BY <5>1, <5>2
      <4>5. \A b \in Actors : step'[b] = "lookup" => Registered(b)' # {}
        BY <3>2, <4>1, ConsoleAssumption DEF RegistryInv, Registered
      <4> QED
        BY <4>3, <4>4, <4>5 DEF RegistryInv
    <3> QED
      BY <3>4, <3>5
  <2>4. ASSUME NEW a \in Actors, Lookup(a) PROVE RegistryInv'
    <3>1. CASE \E how \in {"listed", "found", "unknown"} : Return(a, how, {})
      BY <2>2, <2>4, <3>1 DEF Lookup
    <3>2. CASE Goto(a, "execute") /\ UNCHANGED <<frame, answer>>
      BY <2>4, <3>2, RegistryKept DEF Lookup, Goto, TypeOK
    <3> QED
      BY <2>4, <3>1, <3>2 DEF Lookup
  <2>5. ASSUME NEW a \in Actors, NEW r, NEW batch, Saving(a, r, batch), step[a] # "fill"
        PROVE  RegistryInv'
    BY <2>5, RegistryKeptBy DEF Saving, Goto
  <2>6. ASSUME NEW a \in Actors, NEW label \in {"script", "reading"}, NEW locals,
               Begin(a, label, locals)
        PROVE  RegistryInv'
    BY <2>6, RegistryKeptBy DEF Begin, Goto
  <2>7. ASSUME NEW a \in Actors, OpenTrace(a) PROVE RegistryInv'
    BY <2>7, RegistryKept DEF OpenTrace, Goto, TypeOK
  <2>8. ASSUME NEW a \in Actors, NEW r \in Runs, ReadTrace(a, r) PROVE RegistryInv'
    <3>1. \A b \in Actors : b # a => frame'[b] = frame[b]
      BY <2>8 DEF ReadTrace, TypeOK
    <3> QED
      BY <2>8, <3>1, RegistryKept DEF ReadTrace
  <2>9. ASSUME NEW p \in Processes, Exit(p) PROVE RegistryInv'
    <3>1. /\ registry'[p] = {}
          /\ \A q \in Processes : q # p => registry'[q] = registry[q]
          /\ \A b \in Actors : ProcessOf[b] = p => step'[b] = "idle"
          /\ \A b \in Actors : ProcessOf[b] # p => step'[b] = step[b] /\ frame'[b] = frame[b]
      BY <2>9 DEF Exit, Members, TypeOK
    <3>2. \A b \in Actors : Filled(b)'
      BY <3>1, ConsoleAssumption DEF RegistryInv, Filled, Registered
    <3>3. \A q \in Processes : WholeOrFilling(q)'
      BY <3>1 DEF RegistryInv, WholeOrFilling
    <3>4. \A b \in Actors : step'[b] = "lookup" => Registered(b)' # {}
      BY <3>1, ConsoleAssumption DEF RegistryInv, Registered
    <3> QED
      BY <3>2, <3>3, <3>4 DEF RegistryInv
  <2>10. CASE UNCHANGED vars
    BY <2>10, RegistryKept DEF vars
  <2>11. ASSUME NEW a \in Actors,
                Refuse(a) \/ ImportFails(a) \/ WorkflowRaises(a) \/ ScriptUnsaved(a)
                    \/ ScriptRaises(a) \/ WriteTrace(a) \/ SaveFails(a) \/ ReadDone(a)
         PROVE  RegistryInv'
    BY <2>2, <2>11 DEF Refuse, ImportFails, WorkflowRaises, ScriptUnsaved, ScriptRaises,
                       WriteTrace, SaveFails, ReadDone
  <2>12. ASSUME NEW a \in Actors,
                \/ \E r \in Runs : WorkflowReturns(a, r)
                \/ \E leaves \in {"end", "exit"}, r \in Runs : ScriptLeaves(a, leaves, r)
         PROVE  RegistryInv'
    BY <2>5, <2>12 DEF WorkflowReturns, ScriptLeaves
  <2>13. ASSUME NEW a \in Actors, StartScript(a) \/ ListRuns(a) \/ \E r \in Runs : ShowRun(a, r)
         PROVE  RegistryInv'
    BY <2>6, <2>13 DEF StartScript, ListRuns, ShowRun
  <2> QED
    BY <2>1, <2>3, <2>4, <2>7, <2>8, <2>9, <2>10, <2>11, <2>12, <2>13 DEF Next
<1>3. RegistryInv => LookupsHonest
  <2> SUFFICES ASSUME RegistryInv, NEW a \in Actors, step[a] = "lookup"
               PROVE  \/ Registered(a) = Importable
                      \/ \E b \in Actors \ {a} : step[b] = "fill" /\ ProcessOf[b] = ProcessOf[a]
    BY DEF LookupsHonest
  <2> QED
    BY ConsoleAssumption DEF RegistryInv, WholeOrFilling, Registered
<1> QED
  BY <1>1, <1>2, <1>3, ConsoleTypeCorrect, PTL DEF Spec

-----------------------------------------------------------------------------
(* The shelf of runs                                                       *)

Saves(a) == step[a] \in {"open", "write"}

\* What a reader has collected: all it owes its client of what it has read, and
\* nothing that is not whole.
Collects(a) ==
    step[a] = "reading" =>
        /\ frame[a].since \subseteq Whole \cap frame[a].scope
        /\ frame[a].since \subseteq frame[a].there
        /\ frame[a].since \cap frame[a].read \subseteq frame[a].got
        /\ frame[a].got \subseteq Whole \cap frame[a].scope

\* A run is saved once, by the actor that drew its id.
ShelfInv ==
    /\ \A r \in Runs \ used : files[r] = "none"
    /\ \A a \in Actors : Saves(a) => frame[a].run \notin Whole
    /\ \A a, b \in Actors : a # b /\ Saves(a) /\ Saves(b) => frame[a].run # frame[b].run
    /\ \A a \in Actors : Collects(a)

\* One actor goes on to something that saves nothing and reads nothing.
LEMMA ShelfKeptBy ==
    ASSUME TypeOK, ShelfInv, NEW a \in Actors, NEW label, NEW locals,
           step' = [step EXCEPT ![a] = label], frame' = [frame EXCEPT ![a] = locals],
           label \notin {"open", "write", "reading"}, files' = files, used' = used
    PROVE  ShelfInv'
<1>1. /\ step'[a] = label /\ frame'[a] = locals
      /\ \A b \in Actors : b # a => step'[b] = step[b] /\ frame'[b] = frame[b]
  BY MovedFrames
<1>2. Whole' = Whole
  BY DEF Whole
<1>3. \A b \in Actors : Collects(b)'
  BY <1>1, <1>2 DEF ShelfInv, Collects
<1> QED
  BY <1>1, <1>2, <1>3 DEF ShelfInv, Saves

LEMMA ShelfInvStep == TypeOK /\ ShelfInv /\ [Next]_vars => ShelfInv'
<1> SUFFICES ASSUME TypeOK, ShelfInv, [Next]_vars PROVE ShelfInv'
  OBVIOUS
<1>1. ASSUME NEW a \in Actors, NEW label \in {"fill", "lookup", "script"}, NEW locals,
             Begin(a, label, locals)
      PROVE  ShelfInv'
  BY <1>1, ShelfKeptBy DEF Begin, Goto
<1>2. ASSUME NEW a \in Actors, NEW how, NEW runs, Return(a, how, runs), files' = files,
             used' = used
      PROVE  ShelfInv'
  BY <1>2, ShelfKeptBy DEF Return, Goto
<1>3. ASSUME NEW a \in Actors, Fill(a) PROVE ShelfInv'
  <2>1. /\ step[a] = "fill" /\ step'[a] \in {"fill", "lookup"}
        /\ \A b \in Actors : b # a => step'[b] = step[b] /\ frame'[b] = frame[b]
        /\ Whole' = Whole /\ files' = files /\ used' = used
    BY <1>3 DEF Fill, Goto, TypeOK, Whole
  <2>2. \A b \in Actors : Collects(b)'
    BY <2>1 DEF ShelfInv, Collects
  <2> QED
    BY <2>1, <2>2 DEF ShelfInv, Saves
<1>4. ASSUME NEW a \in Actors, Lookup(a) PROVE ShelfInv'
  <2>1. CASE \E how \in {"listed", "found", "unknown"} : Return(a, how, {})
    BY <1>2, <1>4, <2>1 DEF Lookup
  <2>2. CASE Goto(a, "execute") /\ UNCHANGED <<frame, answer>>
    <3>1. /\ step'[a] = "execute"
          /\ \A b \in Actors : b # a => step'[b] = step[b] /\ frame'[b] = frame[b]
          /\ Whole' = Whole /\ files' = files /\ used' = used
      BY <1>4, <2>2 DEF Lookup, Goto, TypeOK, Whole
    <3>2. \A b \in Actors : Collects(b)'
      BY <3>1 DEF ShelfInv, Collects
    <3> QED
      BY <3>1, <3>2 DEF ShelfInv, Saves
  <2> QED
    BY <1>4, <2>1, <2>2 DEF Lookup
<1>5. ASSUME NEW a \in Actors, NEW r \in Runs, NEW batch, Saving(a, r, batch)
      PROVE  ShelfInv'
  <2>1. /\ step'[a] = "open" /\ frame'[a].run = r
        /\ \A b \in Actors : b # a => step'[b] = step[b] /\ frame'[b] = frame[b]
    BY <1>5, MovedFrames DEF Saving, Goto
  <2>2. Whole' = Whole /\ files' = files /\ used' = used \cup {r} /\ r \notin used
    BY <1>5 DEF Saving, Whole
  <2>3. r \notin Whole /\ \A b \in Actors : Saves(b) => frame[b].run # r
    BY <2>2 DEF ShelfInv, Whole, Batches, TypeOK, FrameOK, Saves
  <2>4. \A b \in Actors : Collects(b)'
    BY <2>1, <2>2 DEF ShelfInv, Collects
  <2> QED
    BY <2>1, <2>2, <2>3, <2>4 DEF ShelfInv, Saves
<1>6. ASSUME NEW a \in Actors, OpenTrace(a) PROVE ShelfInv'
  <2>1. /\ step[a] = "open" /\ step'[a] = "write"
        /\ \A b \in Actors : b # a => step'[b] = step[b]
        /\ frame' = frame /\ used' = used
    BY <1>6 DEF OpenTrace, Goto, TypeOK
  <2>2. frame[a].run \in Runs \cap used /\ frame[a].run \notin Whole
    BY <2>1 DEF ShelfInv, Saves, TypeOK, FrameOK, SaveFrame
  <2>3. /\ files'[frame[a].run] = "torn"
        /\ \A r \in Runs : r # frame[a].run => files'[r] = files[r]
    BY <1>6, <2>2 DEF OpenTrace, TypeOK
  <2>4. Whole' = Whole
    BY <2>2, <2>3 DEF Whole, Batches
  <2>5. \A b \in Actors : Collects(b)'
    BY <2>1, <2>4 DEF ShelfInv, Collects
  <2> QED
    BY <2>1, <2>2, <2>3, <2>4, <2>5 DEF ShelfInv, Saves
<1>7. ASSUME NEW a \in Actors, WriteTrace(a) PROVE ShelfInv'
  <2>1. /\ step[a] = "write" /\ step'[a] = "idle" /\ used' = used
        /\ \A b \in Actors : b # a => step'[b] = step[b] /\ frame'[b] = frame[b]
    BY <1>7, MovedFrames DEF WriteTrace, Return, Goto
  <2>2. frame[a].run \in Runs \cap used /\ frame[a].batch \in Batches
    BY <2>1 DEF TypeOK, FrameOK, SaveFrame
  <2>3. /\ files'[frame[a].run] \in Batches
        /\ \A r \in Runs : r # frame[a].run => files'[r] = files[r]
    BY <1>7, <2>2 DEF WriteTrace, TypeOK
  <2>4. Whole' = Whole \cup {frame[a].run}
    BY <2>2, <2>3 DEF Whole
  <2>5. \A b \in Actors : Collects(b)'
    BY <2>1, <2>4 DEF ShelfInv, Collects
  <2>6. \A b \in Actors : Saves(b)' => frame'[b].run \notin Whole'
    BY <2>1, <2>4 DEF ShelfInv, Saves
  <2> QED
    BY <2>1, <2>2, <2>3, <2>5, <2>6 DEF ShelfInv, Saves
<1>8. ASSUME NEW a \in Actors, NEW scope \in SUBSET Runs,
             Begin(a, "reading", Reading(scope))
      PROVE  ShelfInv'
  <2>1. /\ step'[a] = "reading" /\ frame'[a] = Reading(scope)
        /\ \A b \in Actors : b # a => step'[b] = step[b] /\ frame'[b] = frame[b]
        /\ Whole' = Whole /\ files' = files /\ used' = used
    BY <1>8, MovedFrames DEF Begin, Goto, Whole
  <2>2. Collects(a)'
    BY <2>1 DEF Collects, Reading, Whole, Batches
  <2>3. \A b \in Actors : Collects(b)'
    BY <2>1, <2>2 DEF ShelfInv, Collects
  <2> QED
    BY <2>1, <2>3 DEF ShelfInv, Saves
<1>9. ASSUME NEW a \in Actors, NEW r \in Runs, ReadTrace(a, r) PROVE ShelfInv'
  <2>1. /\ frame[a] \in ReadFrame /\ step' = step /\ step[a] = "reading"
        /\ r \in frame[a].scope
        /\ Whole' = Whole /\ files' = files /\ used' = used
    BY <1>9 DEF ReadTrace, TypeOK, FrameOK, Whole
  <2>2. frame' = [frame EXCEPT ![a] = [frame[a] EXCEPT
                     !.read = frame[a].read \cup {r},
                     !.got = IF Readable(r) THEN frame[a].got \cup {r} ELSE frame[a].got]]
    BY <1>9, <2>1 DEF ReadTrace, ReadFrame
  <2>3. /\ frame'[a].since = frame[a].since /\ frame'[a].scope = frame[a].scope
        /\ frame'[a].there = frame[a].there
        /\ frame'[a].read = frame[a].read \cup {r}
        /\ frame'[a].got = IF r \in Whole THEN frame[a].got \cup {r} ELSE frame[a].got
        /\ \A b \in Actors : b # a => frame'[b] = frame[b]
    BY <2>1, <2>2 DEF TypeOK, ReadFrame, Readable, Whole
  <2>4. Collects(a)'
    BY <2>1, <2>3 DEF ShelfInv, Collects
  <2>5. \A b \in Actors : Collects(b)'
    BY <2>1, <2>3, <2>4 DEF ShelfInv, Collects
  <2>6. \A b \in Actors : Saves(b)' => Saves(b) /\ frame'[b] = frame[b]
    BY <2>1, <2>3 DEF Saves
  <2> QED
    BY <2>1, <2>5, <2>6 DEF ShelfInv
<1>10. ASSUME NEW p \in Processes, Exit(p) PROVE ShelfInv'
  <2>1. /\ Whole' = Whole /\ files' = files /\ used' = used
        /\ \A b \in Actors : \/ step'[b] = "idle"
                             \/ step'[b] = step[b] /\ frame'[b] = frame[b]
    BY <1>10 DEF Exit, Whole
  <2>2. \A b \in Actors : Collects(b)'
    BY <2>1 DEF ShelfInv, Collects
  <2> QED
    BY <2>1, <2>2 DEF ShelfInv, Saves
<1>11. CASE UNCHANGED vars
  <2>1. Whole' = Whole /\ step' = step /\ frame' = frame /\ files' = files /\ used' = used
    BY <1>11 DEF vars, Whole
  <2>2. \A b \in Actors : Collects(b)'
    BY <2>1 DEF ShelfInv, Collects
  <2> QED
    BY <2>1, <2>2 DEF ShelfInv, Saves
<1>12. ASSUME NEW a \in Actors,
              Refuse(a) \/ ImportFails(a) \/ WorkflowRaises(a) \/ ScriptUnsaved(a)
                  \/ ScriptRaises(a) \/ SaveFails(a) \/ ReadDone(a)
       PROVE  ShelfInv'
  BY <1>2, <1>12 DEF Refuse, ImportFails, WorkflowRaises, ScriptUnsaved, ScriptRaises,
                     SaveFails, ReadDone
<1>13. ASSUME NEW a \in Actors,
              \/ \E op \in {"list", "inspect", "run"}, name \in Names : Ask(a, op, name)
              \/ StartScript(a)
       PROVE  ShelfInv'
  BY <1>1, <1>13 DEF Ask, StartScript
<1>14. ASSUME NEW a \in Actors,
              \/ \E r \in Runs : WorkflowReturns(a, r)
              \/ \E leaves \in {"end", "exit"}, r \in Runs : ScriptLeaves(a, leaves, r)
       PROVE  ShelfInv'
  BY <1>5, <1>14 DEF WorkflowReturns, ScriptLeaves
<1>15. ASSUME NEW a \in Actors, ListRuns(a) \/ \E r \in Runs : ShowRun(a, r)
       PROVE  ShelfInv'
  BY <1>8, <1>15 DEF ListRuns, ShowRun
<1> QED
  BY <1>3, <1>4, <1>6, <1>7, <1>9, <1>10, <1>11, <1>12, <1>13, <1>14, <1>15 DEF Next

\* A step that readers do not see.
LEMMA Unseen ==
    ASSUME Whole' = Whole, answer' = answer,
           \A b \in Actors :
               \/ step'[b] = step[b] /\ frame'[b] = frame[b]
               \/ step[b] # "reading" /\ step'[b] # "reading"
               \/ /\ step'[b] = step[b]
                  /\ frame'[b].scope = frame[b].scope /\ frame'[b].since = frame[b].since
    PROVE  UNCHANGED <<Whole, Wants, Shown>>
BY DEF Wants, Shown

\* What an answer does to what its actor asks for and was shown.
LEMMA Answered ==
    ASSUME TypeOK, NEW a \in Actors, NEW how, NEW runs, Return(a, how, runs)
    PROVE  /\ Wants' = [Wants EXCEPT ![a] = NoFrame]
           /\ Shown' = [Shown EXCEPT ![a] = runs]
<1>1. /\ step'[a] = "idle"
      /\ \A b \in Actors : b # a => step'[b] = step[b] /\ frame'[b] = frame[b]
  BY MovedFrames DEF Return, Goto
<1>2. /\ answer'[a].runs = runs
      /\ \A b \in Actors : b # a => answer'[b] = answer[b]
  BY DEF Return, TypeOK
<1> QED
  BY <1>1, <1>2 DEF Wants, Shown

\* An answer without runs puts the actor back.
LEMMA DropsOne ==
    ASSUME TypeOK, NEW a \in Actors, NEW how, Return(a, how, {}), files' = files
    PROVE  Shelf!Next
<1>1. Wants' = [Wants EXCEPT ![a] = NoFrame] /\ Shown' = [Shown EXCEPT ![a] = {}]
  BY Answered
<1>2. Wants' = [b \in Actors |-> IF b \in {a} THEN NoFrame ELSE Wants[b]]
  BY <1>1 DEF Wants
<1>3. Shown' = [b \in Actors |-> IF b \in {a} THEN {} ELSE Shown[b]]
  BY <1>1 DEF Shown
<1>4. Shelf!Drop({a})
  BY <1>2, <1>3 DEF Shelf!Drop, Whole
<1> QED
  BY <1>4 DEF Shelf!Next

LEMMA WritePublishes ==
    ASSUME TypeOK, ShelfInv, NEW a \in Actors, WriteTrace(a)
    PROVE  Shelf!Next
<1>1. frame[a].run \in Runs /\ frame[a].batch \in Batches /\ step[a] = "write"
  BY DEF WriteTrace, TypeOK, FrameOK, SaveFrame
<1>2. Whole' = Whole \cup {frame[a].run}
  BY <1>1 DEF WriteTrace, TypeOK, Whole
<1>3. Wants' = Wants /\ Shown' = [Shown EXCEPT ![a] = {}]
  <2>1. Wants[a] = NoFrame
    BY <1>1 DEF Wants
  <2> QED
    BY <2>1, Answered DEF WriteTrace, Wants
<1>4. Shelf!Publish(a, frame[a].run)
  BY <1>2, <1>3 DEF Shelf!Publish
<1> QED
  BY <1>1, <1>4 DEF Shelf!Next

LEMMA ReadingBegins ==
    ASSUME TypeOK, NEW a \in Actors, NEW scope \in SUBSET Runs,
           Begin(a, "reading", Reading(scope))
    PROVE  Shelf!Next
<1>1. /\ step'[a] = "reading" /\ frame'[a] = Reading(scope) /\ step[a] = "idle"
      /\ \A b \in Actors : b # a => step'[b] = step[b] /\ frame'[b] = frame[b]
      /\ Whole' = Whole /\ answer' = answer
  BY MovedFrames DEF Begin, Goto, Whole
<1>2. Wants[a] = NoFrame
  BY <1>1 DEF Wants
<1>3. Wants' = [Wants EXCEPT ![a] = [scope |-> scope, since |-> Whole \cap scope]]
  <2>1. Reading(scope).scope = scope /\ Reading(scope).since = Whole \cap scope
    BY DEF Reading
  <2>2. \A b \in Actors : Wants'[b] = IF b = a
                                      THEN [scope |-> scope, since |-> Whole \cap scope]
                                      ELSE Wants[b]
    BY <1>1, <2>1 DEF Wants
  <2>3. Wants' = [b \in Actors |-> Wants'[b]] /\ Wants = [b \in Actors |-> Wants[b]]
    BY DEF Wants
  <2> QED
    BY <2>2, <2>3
<1>4. Shelf!Begin(a, scope)
  BY <1>1, <1>2, <1>3 DEF Shelf!Begin, Shown
<1> QED
  BY <1>4 DEF Shelf!Next

LEMMA ReadingEnds ==
    ASSUME TypeOK, ShelfInv, NEW a \in Actors, ReadDone(a)
    PROVE  Shelf!Next
<1>1. /\ step[a] = "reading" /\ frame[a] \in ReadFrame
      /\ frame[a].there \subseteq frame[a].read
  BY DEF ReadDone, TypeOK, FrameOK
<1>2. /\ frame[a].since \subseteq frame[a].got
      /\ frame[a].got \subseteq Whole \cap frame[a].scope
  BY <1>1 DEF ShelfInv, Collects
<1>3. Wants[a] = [scope |-> frame[a].scope, since |-> frame[a].since]
  BY <1>1 DEF Wants
<1>4. Wants[a] # NoFrame /\ frame[a].got \in SUBSET Runs
  BY <1>1, <1>3, ConsoleAssumption DEF ReadFrame
<1>5. Whole' = Whole
  BY DEF ReadDone, Whole
<1>6. Wants' = [Wants EXCEPT ![a] = NoFrame] /\ Shown' = [Shown EXCEPT ![a] = frame[a].got]
  BY Answered DEF ReadDone
<1>7. Shelf!End(a, frame[a].got)
  BY <1>2, <1>3, <1>4, <1>5, <1>6 DEF Shelf!End
<1> QED
  BY <1>4, <1>7 DEF Shelf!Next

LEMMA ExitDrops ==
    ASSUME TypeOK, NEW p \in Processes, Exit(p)
    PROVE  Shelf!Next
<1>1. Whole' = Whole
  BY DEF Exit, Whole
<1>2. Wants' = [a \in Actors |-> IF a \in Members(p) THEN NoFrame ELSE Wants[a]]
  BY DEF Exit, Wants
<1>3. Shown' = [a \in Actors |-> IF a \in Members(p) THEN {} ELSE Shown[a]]
  BY DEF Exit, Shown, NoAnswer
<1>4. Shelf!Drop(Members(p))
  BY <1>1, <1>2, <1>3 DEF Shelf!Drop
<1> QED
  BY <1>4 DEF Shelf!Next, Members

LEMMA ConsoleSimulates ==
    TypeOK /\ ShelfInv /\ [Next]_vars => [Shelf!Next]_<<Whole, Wants, Shown>>
<1> SUFFICES ASSUME TypeOK, ShelfInv, [Next]_vars
             PROVE  Shelf!Next \/ UNCHANGED <<Whole, Wants, Shown>>
  OBVIOUS
<1>1. ASSUME NEW a \in Actors, NEW label \in {"fill", "lookup", "script"}, NEW locals,
             Begin(a, label, locals)
      PROVE  UNCHANGED <<Whole, Wants, Shown>>
  <2>1. /\ step[a] = "idle" /\ step'[a] = label
        /\ \A b \in Actors : b # a => step'[b] = step[b] /\ frame'[b] = frame[b]
        /\ Whole' = Whole /\ answer' = answer
    BY <1>1, MovedFrames DEF Begin, Goto, Whole
  <2> QED
    BY <2>1, Unseen
<1>2. ASSUME NEW a \in Actors, NEW r \in Runs, NEW batch, Saving(a, r, batch),
             step[a] # "reading"
      PROVE  UNCHANGED <<Whole, Wants, Shown>>
  <2>1. /\ step'[a] = "open" /\ Whole' = Whole /\ answer' = answer
        /\ \A b \in Actors : b # a => step'[b] = step[b] /\ frame'[b] = frame[b]
    BY <1>2, MovedFrames DEF Saving, Goto, Whole
  <2> QED
    BY <1>2, <2>1, Unseen
<1>3. ASSUME NEW a \in Actors, Fill(a) PROVE UNCHANGED <<Whole, Wants, Shown>>
  <2>1. /\ step[a] = "fill" /\ step'[a] \in {"fill", "lookup"}
        /\ Whole' = Whole /\ answer' = answer
        /\ \A b \in Actors : b # a => step'[b] = step[b] /\ frame'[b] = frame[b]
    BY <1>3 DEF Fill, Goto, TypeOK, Whole
  <2> QED
    BY <2>1, Unseen
<1>4. ASSUME NEW a \in Actors, Lookup(a)
      PROVE  Shelf!Next \/ UNCHANGED <<Whole, Wants, Shown>>
  <2>1. CASE \E how \in {"listed", "found", "unknown"} : Return(a, how, {})
    BY <1>4, <2>1, DropsOne DEF Lookup
  <2>2. CASE Goto(a, "execute") /\ UNCHANGED <<frame, answer>>
    <3>1. /\ step[a] = "lookup" /\ step'[a] = "execute"
          /\ Whole' = Whole /\ answer' = answer
          /\ \A b \in Actors : b # a => step'[b] = step[b] /\ frame'[b] = frame[b]
      BY <1>4, <2>2 DEF Lookup, Goto, TypeOK, Whole
    <3> QED
      BY <3>1, Unseen
  <2> QED
    BY <1>4, <2>1, <2>2 DEF Lookup
<1>5. ASSUME NEW a \in Actors, OpenTrace(a) PROVE UNCHANGED <<Whole, Wants, Shown>>
  <2>1. /\ step[a] = "open" /\ step'[a] = "write" /\ frame' = frame /\ answer' = answer
        /\ \A b \in Actors : b # a => step'[b] = step[b]
    BY <1>5 DEF OpenTrace, Goto, TypeOK
  <2>2. frame[a].run \in Runs \ Whole
    BY <2>1 DEF ShelfInv, Saves, TypeOK, FrameOK, SaveFrame
  <2>3. Whole' = Whole
    BY <1>5, <2>2 DEF OpenTrace, TypeOK, Whole, Batches
  <2> QED
    BY <2>1, <2>3, Unseen
<1>6. ASSUME NEW a \in Actors, NEW r \in Runs, ReadTrace(a, r)
      PROVE  UNCHANGED <<Whole, Wants, Shown>>
  <2>1. /\ frame[a] \in ReadFrame /\ step' = step /\ step[a] = "reading"
        /\ Whole' = Whole /\ answer' = answer
    BY <1>6 DEF ReadTrace, TypeOK, FrameOK, Whole
  <2>2. frame' = [frame EXCEPT ![a] = [frame[a] EXCEPT
                     !.read = frame[a].read \cup {r},
                     !.got = IF Readable(r) THEN frame[a].got \cup {r} ELSE frame[a].got]]
    BY <1>6, <2>1 DEF ReadTrace, ReadFrame
  <2>3. /\ frame'[a].since = frame[a].since /\ frame'[a].scope = frame[a].scope
        /\ \A b \in Actors : b # a => frame'[b] = frame[b]
    BY <2>1, <2>2 DEF TypeOK, ReadFrame
  <2> QED
    BY <2>1, <2>3, Unseen
<1>7. CASE UNCHANGED vars
  BY <1>7, Unseen DEF vars, Whole
<1>8. ASSUME NEW a \in Actors,
             Refuse(a) \/ ImportFails(a) \/ WorkflowRaises(a) \/ ScriptUnsaved(a)
                 \/ ScriptRaises(a) \/ SaveFails(a)
      PROVE  Shelf!Next
  BY <1>8, DropsOne DEF Refuse, ImportFails, WorkflowRaises, ScriptUnsaved, ScriptRaises,
                        SaveFails
<1>9. ASSUME NEW a \in Actors,
             \/ \E op \in {"list", "inspect", "run"}, name \in Names : Ask(a, op, name)
             \/ StartScript(a)
      PROVE  UNCHANGED <<Whole, Wants, Shown>>
  BY <1>1, <1>9 DEF Ask, StartScript
<1>10. ASSUME NEW a \in Actors,
              \/ \E r \in Runs : WorkflowReturns(a, r)
              \/ \E leaves \in {"end", "exit"}, r \in Runs : ScriptLeaves(a, leaves, r)
       PROVE  UNCHANGED <<Whole, Wants, Shown>>
  BY <1>2, <1>10 DEF WorkflowReturns, ScriptLeaves
<1>11. ASSUME NEW a \in Actors, ListRuns(a) \/ \E r \in Runs : ShowRun(a, r)
       PROVE  Shelf!Next
  BY <1>11, ReadingBegins DEF ListRuns, ShowRun
<1> QED
  BY <1>3, <1>4, <1>5, <1>6, <1>7, <1>8, <1>9, <1>10, <1>11, WritePublishes, ReadingEnds,
     ExitDrops DEF Next

\* Readers never see a half-written trace, lose one that was there, or get one
\* that is not whole: the shared directory is a shelf of runs
\* (save_trace_fixture(), list_runs(), load_run()).
THEOREM ConsoleImplementsShelf == Spec => ImplementsRunShelf
<1>1. Init => ShelfInv
  BY DEF Init, ShelfInv, Saves, Collects
<1>2. Init => Shelf!Init
  BY DEF Init, Shelf!Init, Whole, Batches, Wants, Shown, NoAnswer
<1> QED
  BY <1>1, <1>2, ShelfInvStep, ConsoleSimulates, ConsoleTypeCorrect, PTL
     DEF Spec, ImplementsRunShelf, Shelf!Spec, Shelf!rvars
=============================================================================
