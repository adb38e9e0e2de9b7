------------------------------- MODULE Console -------------------------------
(***************************************************************************)
(* The console server and the command line (console/server.py, cli.py):    *)
(* the workflow registry they fill on first use (console/run_registry.py), *)
(* the runs and scripts they execute (runtime/execution.py) and the        *)
(* directory of traces they share (io.py).                                 *)
(*                                                                         *)
(* Actors are the threads that serve the console's requests and the        *)
(* commands; each belongs to a process, which has a registry of its own.   *)
(* A process may be killed at any point, and a command ends after its      *)
(* answer; both lose the registry and leave the files as they are.         *)
(*                                                                         *)
(* X_Variant before X is X with a plausible bug, used by no specification. *)
(***************************************************************************)
EXTENDS Naturals, Sequences, FiniteSets

CONSTANTS
    Actors, Processes,
    ProcessOf,     \* the process of each actor
    Scripts,       \* the actors that are "veille exec" commands
    Builtins,      \* names of the built-in workflows, in order of registration
    Importable,    \* those whose example can be imported
    Names,         \* names requests may ask for
    Runs,          \* run ids (uuid4: each is used once)
    NoFrame,
    MaxRequests    \* bound: requests and commands

Builtin == {Builtins[i] : i \in DOMAIN Builtins}

ASSUME ConsoleAssumption ==
    /\ ProcessOf \in [Actors -> Processes]
    /\ Scripts \subseteq Actors
    /\ Builtins \in Seq(Names)
    /\ Builtins # << >>
    /\ Builtins[1] \in Importable
    /\ Importable \subseteq Builtin
    /\ \A scope, since \in SUBSET Runs : [scope |-> scope, since |-> since] # NoFrame
    /\ MaxRequests \in Nat

VARIABLES
    registry,   \* _WORKFLOWS of each process
    step,       \* where each actor is
    frame,      \* the locals of its request
    files,      \* the trace file of each run: none, torn or a whole batch
    used,       \* run ids given out
    answer,     \* history: the last answer to each actor's client
    requests    \* requests made so far (bounded by MaxRequests)

vars == <<registry, step, frame, files, used, answer, requests>>

\* A batch ends with run.completed, or is left open.
Batches == {"ended", "open"}

\* json.loads and load_trace_fixture succeed.
Readable_Exists(r) == files[r] # "none"
Readable(r) == files[r] \in Batches

Whole == {r \in Runs : files[r] \in Batches}

NoAnswer == [how |-> "none", runs |-> {}]

Init ==
    /\ registry = [p \in Processes |-> {}]
    /\ step = [a \in Actors |-> "idle"]
    /\ frame = [a \in Actors |-> NoFrame]
    /\ files = [r \in Runs |-> "none"]
    /\ used = {}
    /\ answer = [a \in Actors |-> NoAnswer]
    /\ requests = 0

Registered(a) == registry[ProcessOf[a]]

Goto(a, label) == step' = [step EXCEPT ![a] = label]

Return(a, how, runs) ==
    /\ Goto(a, "idle")
    /\ frame' = [frame EXCEPT ![a] = NoFrame]
    /\ answer' = [answer EXCEPT ![a] = [how |-> how, runs |-> runs]]

Begin(a, label, locals) ==
    /\ step[a] = "idle"
    /\ requests < MaxRequests
    /\ requests' = requests + 1
    /\ Goto(a, label)
    /\ frame' = [frame EXCEPT ![a] = locals]
    /\ UNCHANGED <<registry, files, used, answer>>

-----------------------------------------------------------------------------
(* The workflow registry                                                   *)

\* Every use of the registry begins with _register_builtins().
Ask(a, op, name) ==
    /\ a \notin Scripts
    /\ Begin(a, IF Registered(a) = {} THEN "fill" ELSE "lookup",
             [op |-> op, name |-> name, at |-> 1])

\* Real runs and runs that apply a proposal need a confirmation, a script must
\* be a file.
Refuse(a) ==
    /\ step[a] = "idle"
    /\ requests < MaxRequests
    /\ requests' = requests + 1
    /\ Return(a, "refused", {})
    /\ UNCHANGED <<registry, files, used>>

\* The imports that precede the first registration may fail.
ImportFails(a) ==
    /\ step[a] = "fill"
    /\ frame[a].at = 1
    /\ Return(a, "error", {})
    /\ UNCHANGED <<registry, files, used, requests>>

Last_Early(a) == frame[a].at = 1
Last(a) == frame[a].at = Len(Builtins)

\* An example that cannot be imported is left out.
Registers_All(a) == {Builtins[frame[a].at]}
Registers(a) == {Builtins[frame[a].at]} \cap Importable

Fill(a) ==
    /\ step[a] = "fill"
    /\ registry' = [registry EXCEPT ![ProcessOf[a]] = @ \cup Registers(a)]
    /\ IF Last(a)
       THEN Goto(a, "lookup") /\ UNCHANGED frame
       ELSE /\ frame' = [frame EXCEPT ![a].at = @ + 1]
            /\ UNCHANGED step
    /\ UNCHANGED <<files, used, answer, requests>>

Known(a) == frame[a].name \in Registered(a)

\* list_workflows(), get_workflow() and the lookup of run_workflow().
Lookup(a) ==
    /\ step[a] = "lookup"
    /\ \/ frame[a].op = "list" /\ Return(a, "listed", {})
       \/ frame[a].op = "inspect" /\ Return(a, IF Known(a) THEN "found" ELSE "unknown", {})
       \/ frame[a].op = "run" /\ ~Known(a) /\ Return(a, "unknown", {})
       \/ /\ frame[a].op = "run" /\ Known(a)
          /\ Goto(a, "execute")
          /\ UNCHANGED <<frame, answer>>
    /\ UNCHANGED <<registry, files, used, requests>>

-----------------------------------------------------------------------------
(* Runs and their traces                                                   *)

Saving(a, r, batch) ==
    /\ r \notin used
    /\ used' = used \cup {r}
    /\ Goto(a, "open")
    /\ frame' = [frame EXCEPT ![a] = [run |-> r, batch |-> batch]]
    /\ UNCHANGED <<registry, files, answer, requests>>

WorkflowReturns(a, r) ==
    /\ step[a] = "execute"
    /\ Saving(a, r, "ended")

WorkflowRaises(a) ==
    /\ step[a] = "execute"
    /\ Return(a, "error", {})
    /\ UNCHANGED <<registry, files, used, requests>>

\* run_script(): the envelope starts the run, then the script runs ...
StartScript(a) ==
    /\ a \in Scripts
    /\ Begin(a, "script", [op |-> "exec"])

\* ... to its end, or out of it by sys.exit(), which leaves the run open ...
BatchOf(leaves) == IF leaves = "end" THEN "ended" ELSE "open"

ScriptLeaves(a, leaves, r) ==
    /\ step[a] = "script"
    /\ Saving(a, r, BatchOf(leaves))

\* ... without a trace directory, nothing is saved ...
ScriptUnsaved(a) ==
    /\ step[a] = "script"
    /\ Return(a, "ok", {})
    /\ UNCHANGED <<registry, files, used, requests>>

\* ... or it raises: the run ends with an error that no trace file records.
ScriptRaises(a) ==
    /\ step[a] = "script"
    /\ Return(a, "error", {})
    /\ UNCHANGED <<registry, files, used, requests>>

\* save_trace_fixture() truncates or creates the file, then writes it.
OpenTrace(a) ==
    /\ step[a] = "open"
    /\ files' = [files EXCEPT ![frame[a].run] = "torn"]
    /\ Goto(a, "write")
    /\ UNCHANGED <<registry, frame, used, answer, requests>>

WriteTrace(a) ==
    /\ step[a] = "write"
    /\ files' = [files EXCEPT ![frame[a].run] = frame[a].batch]
    /\ Return(a, "ok", {})
    /\ UNCHANGED <<registry, used, requests>>

\* The directory, the disk or the descriptor fails.
SaveFails(a) ==
    /\ step[a] \in {"open", "write"}
    /\ Return(a, "error", {})
    /\ UNCHANGED <<registry, files, used, requests>>

-----------------------------------------------------------------------------
(* Reading the traces                                                      *)

Reading(scope) == [scope |-> scope, since |-> Whole \cap scope,
                   there |-> {r \in scope : files[r] # "none"}, read |-> {}, got |-> {}]

\* list_runs(): the files that are there when it begins, and perhaps later
\* ones, are read one after the other; those that do not parse are skipped.
ListRuns(a) ==
    /\ a \notin Scripts
    /\ Begin(a, "reading", Reading(Runs))

\* load_run(): the file named after the run, or one that holds it.
ShowRun(a, r) ==
    /\ a \notin Scripts
    /\ Begin(a, "reading", Reading({r}))

ReadTrace(a, r) ==
    /\ step[a] = "reading"
    /\ r \in frame[a].scope \ frame[a].read
    /\ files[r] # "none"
    /\ frame' = [frame EXCEPT ![a].read = @ \cup {r},
                              ![a].got = IF Readable(r) THEN @ \cup {r} ELSE @]
    /\ UNCHANGED <<registry, step, files, used, answer, requests>>

ReadDone(a) ==
    /\ step[a] = "reading"
    /\ frame[a].there \subseteq frame[a].read
    /\ Return(a, "read", frame[a].got)
    /\ UNCHANGED <<registry, files, used, requests>>

-----------------------------------------------------------------------------

Members(p) == {a \in Actors : ProcessOf[a] = p}

\* A process is killed, or a command has ended.
Exit(p) ==
    /\ registry' = [registry EXCEPT ![p] = {}]
    /\ step' = [a \in Actors |-> IF a \in Members(p) THEN "idle" ELSE step[a]]
    /\ frame' = [a \in Actors |-> IF a \in Members(p) THEN NoFrame ELSE frame[a]]
    /\ answer' = [a \in Actors |-> IF a \in Members(p) THEN NoAnswer ELSE answer[a]]
    /\ UNCHANGED <<files, used, requests>>

Next ==
    \/ \E a \in Actors :
          \/ \E op \in {"list", "inspect", "run"}, name \in Names : Ask(a, op, name)
          \/ Refuse(a)
          \/ ImportFails(a)
          \/ Fill(a)
          \/ Lookup(a)
          \/ \E r \in Runs : WorkflowReturns(a, r)
          \/ WorkflowRaises(a)
          \/ StartScript(a)
          \/ \E leaves \in {"end", "exit"}, r \in Runs : ScriptLeaves(a, leaves, r)
          \/ ScriptUnsaved(a)
          \/ ScriptRaises(a)
          \/ OpenTrace(a)
          \/ WriteTrace(a)
          \/ SaveFails(a)
          \/ ListRuns(a)
          \/ \E r \in Runs : ShowRun(a, r)
          \/ \E r \in Runs : ReadTrace(a, r)
          \/ ReadDone(a)
    \/ \E p \in Processes : Exit(p)

Spec == Init /\ [][Next]_vars

-----------------------------------------------------------------------------
(* Properties                                                              *)

AskFrame == [op : {"list", "inspect", "run"}, name : Names, at : DOMAIN Builtins]
SaveFrame == [run : Runs, batch : Batches]
ReadFrame == [scope : SUBSET Runs, since : SUBSET Runs, there : SUBSET Runs,
              read : SUBSET Runs, got : SUBSET Runs]

FrameOK(a) ==
    /\ step[a] = "idle" => frame[a] = NoFrame
    /\ step[a] \in {"fill", "lookup", "execute"} => frame[a] \in AskFrame
    /\ step[a] \in {"open", "write"} => frame[a] \in SaveFrame /\ frame[a].run \in used
    /\ step[a] = "reading" => frame[a] \in ReadFrame

\* Types of the registries, the requests' locals and the files.
TypeOK ==
    /\ registry \in [Processes -> SUBSET Importable]
    /\ step \in [Actors -> {"idle", "fill", "lookup", "execute", "script", "open",
                            "write", "reading"}]
    /\ DOMAIN frame = Actors
    /\ \A a \in Actors : FrameOK(a)
    /\ files \in [Runs -> {"none", "torn"} \cup Batches]
    /\ used \subseteq Runs
    /\ answer \in [Actors -> [how : {"none", "listed", "found", "unknown", "refused",
                                     "error", "ok", "read"}, runs : SUBSET Runs]]
    /\ requests \in 0 .. MaxRequests

\* A request finds the registry incomplete only while another request of the
\* same process is registering the built-ins; afterwards it is whole for
\* everybody, whatever raced, failed or was killed (_register_builtins()
\* returns at once when the registry is not empty).
LookupsHonest ==
    \A a \in Actors :
        step[a] = "lookup" =>
            \/ Registered(a) = Importable
            \/ \E b \in Actors \ {a} : step[b] = "fill" /\ ProcessOf[b] = ProcessOf[a]

\* The directory of traces as readers see it: files that are half-written, by a
\* thread in the middle or one that died there, are never part of an answer,
\* and a run is found by everybody from the answer that says it was saved.
Wants == [a \in Actors |-> IF step[a] = "reading"
                           THEN [scope |-> frame[a].scope, since |-> frame[a].since]
                           ELSE NoFrame]

Shown == [a \in Actors |-> answer[a].runs]

Shelf == INSTANCE RunShelf WITH
    Readers <- Actors, NoRead <- NoFrame,
    shelf <- Whole, reading <- Wants, seen <- Shown

ImplementsRunShelf == Shelf!Spec

\* runtime/execution.py: the envelope "gives every entry point the same run
\* lifecycle".  A script that leaves by sys.exit() has no run.completed.
ScriptRunsEnd == \A r \in Whole : files[r] = "ended"
=============================================================================
