--------------------------- MODULE WorkflowProofs ---------------------------
(***************************************************************************)
(* Every run of every application (SupervisedWorkflow), however it ends,   *)
(* closes its nodes and earns its verdict: for any set of applications and *)
(* environments, any competitors, tools, policies and limits.              *)
(*                                                                         *)
(* A program is followed by its course: the stage (the open node, whether  *)
(* a verdict was given, whether the validation passed) before each of its  *)
(* instructions.  First each program of Workflows is shown to lead from no *)
(* node and no verdict to a verdict and no node (Sound), piece by piece.   *)
(* Then the invariant WorkflowInv ties the run to the program: the trace   *)
(* written so far says exactly the stage at the instruction the run has    *)
(* come to (OnCourse), is in order (FairTrace), and an exception is under  *)
(* way only before the verdict.                                            *)
(*                                                                         *)
(* Then HistoryInv, what the environment and the settings of a process and *)
(* the verdicts of its runs have to do with each other, and ViewInv, what  *)
(* in a trace makes the summary and the views of a finished run agree.     *)
(*                                                                         *)
(* Sequences are followed through Workflows without naming what they are   *)
(* made of (TraceFacts!IsSeq); a least counterexample stands for induction.*)
(***************************************************************************)
EXTENDS SupervisedWorkflow, TraceFacts

-----------------------------------------------------------------------------
(* A sequence of sequences made one.                                       *)

\* The recursive function behind FlattenSeq.
Flat(ss, n, f) ==
    f = [i \in 1 .. n |-> IF i = 1 THEN ss[i] ELSE f[i - 1] \o ss[i]]

\* FlattenSeq is the last value of that function,
LEMMA FlattenIs ==
    ASSUME NEW ss, Len(ss) # 0
    PROVE  FlattenSeq(ss) = (CHOOSE f : Flat(ss, Len(ss), f))[Len(ss)]
  BY Zenon DEF FlattenSeq, Flat

\* which exists.
LEMMA FlatExists ==
    ASSUME NEW ss, NEW n \in Nat
    PROVE  \E f : Flat(ss, n, f)
  <1> DEFINE T == {k \in Nat : ~ \E f : Flat(ss, k, f)}
  <1>1. SUFFICES ASSUME T # {}  PROVE FALSE
    OBVIOUS
  <1>2. PICK m \in T : \A k \in T : m <= k
    <2>1. T \in SUBSET Nat
      OBVIOUS
    <2> HIDE DEF T
    <2>2. QED  BY <1>1, <2>1, Least
  <1>3. m \in Nat /\ ~ \E f : Flat(ss, m, f)
    BY <1>2
  <1>4. CASE m = 0
    <2> DEFINE f == [i \in 1 .. 0 |-> i]
    <2>1. f = [i \in 1 .. 0 |-> IF i = 1 THEN ss[i] ELSE f[i - 1] \o ss[i]]
      OBVIOUS
    <2>2. QED  BY <1>3, <1>4, <2>1 DEF Flat
  <1>5. CASE m # 0
    <2>1. m - 1 \in Nat /\ m - 1 \notin T
      BY <1>2, <1>3, <1>5
    <2>2. PICK g : Flat(ss, m - 1, g)
      BY <2>1
    <2> DEFINE f == [i \in 1 .. m |-> IF i < m THEN g[i]
                                      ELSE IF i = 1 THEN ss[i] ELSE g[i - 1] \o ss[i]]
    <2>3. \A i \in 1 .. m - 1 : g[i] = IF i = 1 THEN ss[i] ELSE g[i - 1] \o ss[i]
      BY <2>2 DEF Flat
    <2>4. \A i \in 1 .. m : i - 1 \in 1 .. m => f[i - 1] = g[i - 1]
      BY <1>3
    <2>5. \A i \in 1 .. m : f[i] = IF i = 1 THEN ss[i] ELSE f[i - 1] \o ss[i]
      <3> SUFFICES ASSUME NEW i \in 1 .. m
                   PROVE  f[i] = IF i = 1 THEN ss[i] ELSE f[i - 1] \o ss[i]
        OBVIOUS
      <3>1. i # 1 => f[i - 1] = g[i - 1]
        BY <1>3, <2>4
      <3>2. f[i] = IF i < m THEN g[i] ELSE IF i = 1 THEN ss[i] ELSE g[i - 1] \o ss[i]
        OBVIOUS
      <3>3. i < m => i \in 1 .. m - 1
        BY <1>3
      <3> HIDE DEF f
      <3>4. QED  BY <2>3, <3>1, <3>2, <3>3
    <2>6. f = [i \in 1 .. m |-> f[i]]
      OBVIOUS
    <2> HIDE DEF f
    <2>7. Flat(ss, m, f)
      BY <2>5, <2>6 DEF Flat
    <2>8. QED  BY <1>3, <2>7
  <1>6. QED  BY <1>4, <1>5

\* A set that is closed under concatenation has the whole if it has the parts.
LEMMA FlattenIn ==
    ASSUME NEW G, NEW ss, IsSeq(ss), ss # << >>,
           \A i \in 1 .. Len(ss) : ss[i] \in G, \A a, b \in G : a \o b \in G
    PROVE  FlattenSeq(ss) \in G
  <1> DEFINE n == Len(ss)
             f == CHOOSE g : Flat(ss, n, g)
  <1>1. n \in Nat /\ n # 0
    BY DEF IsSeq
  <1>2. Flat(ss, n, f) /\ FlattenSeq(ss) = f[n]
    BY <1>1, FlatExists, FlattenIs
  <1> HIDE DEF n, f
  <1>3. \A i \in 1 .. n : f[i] = IF i = 1 THEN ss[i] ELSE f[i - 1] \o ss[i]
    BY <1>2 DEF Flat
  <1> DEFINE T == {k \in 1 .. n : f[k] \notin G}
  <1>4. T = {}
    <2>1. SUFFICES ASSUME T # {}  PROVE FALSE
      OBVIOUS
    <2>2. PICK m \in T : \A k \in T : m <= k
      <3>1. T \in SUBSET Nat
        OBVIOUS
      <3> HIDE DEF T
      <3>2. QED  BY <2>1, <3>1, Least
    <2>3. m \in 1 .. n /\ ss[m] \in G
      BY <2>2 DEF n
    <2>4. m = 1 => f[m] \in G
      BY <1>3, <2>3
    <2>5. m # 1 => f[m - 1] \in G
      BY <1>1, <2>2, <2>3
    <2>6. m # 1 => f[m] = f[m - 1] \o ss[m]
      BY <1>3, <2>3
    <2>7. QED  BY <2>2, <2>3, <2>4, <2>5, <2>6
  <1>5. QED  BY <1>1, <1>2, <1>4

\* What it is made of.
LEMMA FlattenSeqs ==
    ASSUME NEW ss, IsSeq(ss), \A i \in 1 .. Len(ss) : IsSeq(ss[i])
    PROVE  /\ IsSeq(FlattenSeq(ss))
           /\ \A k \in 1 .. Len(FlattenSeq(ss)) :
                  \E i \in 1 .. Len(ss) : \E j \in 1 .. Len(ss[i]) :
                      FlattenSeq(ss)[k] = ss[i][j]
  <1> DEFINE D == UNION {{ss[i][j] : j \in 1 .. Len(ss[i])} : i \in 1 .. Len(ss)}
             whole == FlattenSeq(ss)
  <1>1. CASE ss = << >>
    <2>1. whole = ss /\ Len(ss) = 0
      BY <1>1, SeqNone DEF FlattenSeq
    <2>2. QED  BY <1>1, <2>1, SeqNone
  <1>2. CASE ss # << >>
    <2>1. ASSUME NEW i \in 1 .. Len(ss)  PROVE ss[i] \in Seq(D)
      <3>1. PICK A : ss[i] \in Seq(A)
        BY DEF IsSeq
      <3>2. Len(ss[i]) \in Nat /\ ss[i] \in [1 .. Len(ss[i]) -> A]
        BY <3>1
      <3>3. \A j \in 1 .. Len(ss[i]) : ss[i][j] \in D
        OBVIOUS
      <3> HIDE DEF D
      <3>4. ss[i] \in [1 .. Len(ss[i]) -> D]
        BY <3>2, <3>3
      <3>5. QED  BY <3>2, <3>4
    <2>2. \A a, b \in Seq(D) : a \o b \in Seq(D)
      <3> HIDE DEF D
      <3>1. QED  OBVIOUS
    <2>3. whole \in Seq(D)
      <3> HIDE DEF D
      <3>1. QED  BY <1>2, <2>1, <2>2, FlattenIn
    <2> HIDE DEF whole
    <2>4. \A k \in 1 .. Len(whole) : whole[k] \in D
      <3> HIDE DEF D
      <3>1. QED  BY <2>3
    <2>5. IsSeq(whole)
      BY <2>3 DEF IsSeq
    <2>6. QED  BY <2>4, <2>5 DEF whole
  <1>3. QED  BY <1>1, <1>2

-----------------------------------------------------------------------------
(* The course of a program: what is open and what has been said, before    *)
(* each instruction.                                                       *)

\* The instructions that are calls, and the applications that validate.
CallOps == {"tool", "model", "retry"}
Judging == {"cited", "langgraph", "real_world"}

\* The node that is open, that a verdict has been given, that the validation
\* has passed.
Stage(n, judged, passed) == [node |-> n, judged |-> judged, passed |-> passed]

\* Where an instruction is, and where one may be.
PlaceOf(i) == [step |-> i.step, agent |-> i.agent]
Places == [step : Steps, agent : Agents]

\* An instruction has a step if and only if it has an agent; a call has both, and
\* a price.
Proper(i) ==
    /\ i.step = "" <=> i.agent = ""
    /\ i.op \in CallOps => i.step # "" /\ i.req.cost \in Nat

\* Application a may perform instruction i at stage x.
Allowed(a, i, x) ==
    /\ Proper(i)
    /\ i.op = "enter" => x.node = NoNode /\ PlaceOf(i) \in Places
    /\ i.op = "leave" => x.node = PlaceOf(i) /\ x.node \in Places
    /\ i.op \in CallOps =>
           ~x.judged /\ ~x.passed /\ (a # "generic" => x.node = PlaceOf(i) /\ x.node \in Places)
    /\ i.op = "finish" /\ i.arg = "pass" /\ a \in Judging => x.passed

\* The stage after instruction i.
Moved(i, x) ==
    Stage(IF i.op = "enter" THEN PlaceOf(i) ELSE IF i.op = "leave" THEN NoNode ELSE x.node,
          x.judged \/ i.op = "finish",
          x.passed \/ (i.op = "validate" /\ i.arg = "pass"))

\* c is the stage before each instruction of code, and after the last.
Course(a, code, c) ==
    \A k \in 1 .. Len(code) : Allowed(a, code[k], c[k]) /\ c[k + 1] = Moved(code[k], c[k])

\* A piece of a program, from one stage to another.
Leads(a, code, x, y) ==
    /\ IsSeq(code)
    /\ \E c : Course(a, code, c) /\ c[1] = x /\ c[Len(code) + 1] = y

\* Nothing to do.
LEMMA LeadsNone ==
    ASSUME NEW a, NEW x
    PROVE  Leads(a, << >>, x, x)
  <1> DEFINE c == [k \in {1} |-> x]
  <1>1. Len(<< >>) = 0 /\ IsSeq(<< >>)
    BY SeqNone
  <1>2. Course(a, << >>, c)
    BY <1>1 DEF Course
  <1>3. c[1] = x /\ c[Len(<< >>) + 1] = x
    BY <1>1
  <1>4. QED  BY <1>1, <1>2, <1>3 DEF Leads

\* One instruction.
LEMMA LeadsOne ==
    ASSUME NEW a, NEW i, NEW x, Allowed(a, i, x)
    PROVE  Leads(a, << i >>, x, Moved(i, x))
  <1> DEFINE y == Moved(i, x)
             c == [k \in {1, 2} |-> IF k = 1 THEN x ELSE y]
  <1>1. Len(<< i >>) = 1 /\ IsSeq(<< i >>) /\ << i >>[1] = i
    BY SeqOne
  <1>2. c[1] = x /\ c[1 + 1] = y
    <2> HIDE DEF y
    <2>1. QED  OBVIOUS
  <1> HIDE DEF c
  <1>3. Course(a, << i >>, c)
    BY <1>1, <1>2 DEF Course
  <1>4. QED  BY <1>1, <1>2, <1>3 DEF Leads

\* One piece after the other.
LEMMA LeadsOn ==
    ASSUME NEW a, NEW s, NEW t, NEW x, NEW y, NEW z,
           Leads(a, s, x, y), Leads(a, t, y, z)
    PROVE  Leads(a, s \o t, x, z)
  <1>1. PICK c : Course(a, s, c) /\ c[1] = x /\ c[Len(s) + 1] = y
    BY DEF Leads
  <1>2. PICK d : Course(a, t, d) /\ d[1] = y /\ d[Len(t) + 1] = z
    BY DEF Leads
  <1> DEFINE m == Len(s)
             n == Len(t)
             st == s \o t
             e == [k \in 1 .. m + n + 1 |-> IF k <= m THEN c[k] ELSE d[k - m]]
  <1>3. m \in Nat /\ n \in Nat
    BY SeqShape DEF Leads
  <1>4. /\ IsSeq(st) /\ Len(st) = m + n
        /\ \A i \in 1 .. m : st[i] = s[i]
        /\ \A i \in 1 .. n : st[m + i] = t[i]
    BY SeqJoin DEF Leads
  <1>5. \A k \in 1 .. m : e[k] = c[k]
    BY <1>3
  <1>6. \A k \in 1 .. n + 1 : e[m + k] = d[k]
    <2> TAKE k \in 1 .. n + 1
    <2>1. m + k \in 1 .. m + n + 1 /\ ~ (m + k <= m) /\ m + k - m = k
      BY <1>3
    <2>2. QED  BY <2>1
  <1>7. e[m + 1] = y
    BY <1>2, <1>3, <1>6
  <1>8. e[1] = x
    <2>1. CASE m = 0
      BY <1>1, <1>7, <2>1
    <2>2. CASE m # 0
      BY <1>1, <1>3, <1>5, <2>2
    <2>3. QED  BY <2>1, <2>2
  <1>9. e[Len(st) + 1] = z
    <2>1. Len(st) + 1 = m + (n + 1) /\ n + 1 \in 1 .. n + 1
      BY <1>3, <1>4
    <2>2. QED  BY <1>2, <1>6, <2>1
  <1> HIDE DEF m, n, st, e
  <1>10. ASSUME NEW k \in 1 .. Len(st)
         PROVE  Allowed(a, st[k], e[k]) /\ e[k + 1] = Moved(st[k], e[k])
    <2>1. k \in 1 .. m + n /\ m \in Nat /\ n \in Nat
      BY <1>3, <1>4
    <2>2. CASE k <= m
      <3>1. k \in 1 .. m
        BY <2>1, <2>2
      <3>2. Allowed(a, s[k], c[k]) /\ c[k + 1] = Moved(s[k], c[k])
        BY <1>1, <3>1 DEF Course, m
      <3>3. e[k + 1] = c[k + 1]
        <4>1. CASE k + 1 \in 1 .. m
          BY <1>5, <4>1
        <4>2. CASE k = m
          BY <1>1, <1>7, <4>2 DEF m
        <4>3. QED  BY <2>1, <2>2, <4>1, <4>2
      <3>4. QED  BY <1>4, <1>5, <3>1, <3>2, <3>3
    <2>3. CASE ~ (k <= m)
      <3> DEFINE j == k - m
      <3>1. j \in 1 .. n /\ j \in 1 .. n + 1 /\ j + 1 \in 1 .. n + 1 /\ k = m + j /\ k + 1 = m + (j + 1)
        BY <2>1, <2>3
      <3> HIDE DEF j
      <3>2. Allowed(a, t[j], d[j]) /\ d[j + 1] = Moved(t[j], d[j])
        BY <1>2, <3>1 DEF Course, n
      <3>3. e[k] = d[j] /\ e[k + 1] = d[j + 1] /\ st[k] = t[j]
        BY <1>4, <1>6, <3>1
      <3>4. QED  BY <3>2, <3>3
    <2>4. QED  BY <2>2, <2>3
  <1>11. Course(a, st, e)
    BY <1>10 DEF Course
  <1>12. QED  BY <1>4, <1>8, <1>9, <1>11 DEF Leads, st

\* Instructions that leave the stage as it is.
Stays(a, code, x) ==
    /\ IsSeq(code)
    /\ \A k \in 1 .. Len(code) : Allowed(a, code[k], x) /\ Moved(code[k], x) = x

\* A piece that leaves the stage as it is leads from a stage to itself.
LEMMA StaysLeads ==
    ASSUME NEW a, NEW code, NEW x, Stays(a, code, x)
    PROVE  Leads(a, code, x, x)
  <1> DEFINE n == Len(code)
             c == [k \in 1 .. n + 1 |-> x]
  <1>1. n \in Nat
    BY SeqShape DEF Stays
  <1>2. \A k \in 1 .. n + 1 : c[k] = x
    OBVIOUS
  <1>3. Course(a, code, c)
    <2> HIDE DEF c
    <2>1. \A k \in 1 .. n : k \in 1 .. n + 1 /\ k + 1 \in 1 .. n + 1
      BY <1>1
    <2>2. QED  BY <1>2, <2>1 DEF Course, Stays
  <1>4. c[1] = x /\ c[n + 1] = x
    BY <1>1, <1>2
  <1>5. QED  BY <1>3, <1>4 DEF Leads, Stays

\* Two such pieces make one.
LEMMA StaysOn ==
    ASSUME NEW a, NEW s, NEW t, NEW x, Stays(a, s, x), Stays(a, t, x)
    PROVE  Stays(a, s \o t, x)
  <1>1. Len(s) \in Nat /\ Len(t) \in Nat
    BY SeqShape DEF Stays
  <1>2. /\ IsSeq(s \o t) /\ Len(s \o t) = Len(s) + Len(t)
        /\ \A i \in 1 .. Len(s) : (s \o t)[i] = s[i]
        /\ \A i \in 1 .. Len(t) : (s \o t)[Len(s) + i] = t[i]
    BY SeqJoin DEF Stays
  <1> DEFINE u == s \o t
  <1>3. ASSUME NEW k \in 1 .. Len(s) + Len(t)
        PROVE  Allowed(a, u[k], x) /\ Moved(u[k], x) = x
    <2> HIDE DEF u
    <2>1. CASE k \in 1 .. Len(s)
      BY <1>2, <2>1 DEF Stays, u
    <2>2. CASE k \notin 1 .. Len(s)
      <3> DEFINE j == k - Len(s)
      <3>1. j \in 1 .. Len(t) /\ k = Len(s) + j
        BY <1>1, <2>2
      <3> HIDE DEF j
      <3>2. QED  BY <1>2, <3>1 DEF Stays, u
    <2>3. QED  BY <2>1, <2>2
  <1>4. QED  BY <1>2, <1>3 DEF Stays

\* The instructions in a row.
LEMMA StaysRow ==
    ASSUME NEW a, NEW x
    PROVE  /\ Stays(a, << >>, x)
           /\ \A i : Allowed(a, i, x) /\ Moved(i, x) = x => Stays(a, << i >>, x)
           /\ \A i, j : /\ Allowed(a, i, x) /\ Moved(i, x) = x
                        /\ Allowed(a, j, x) /\ Moved(j, x) = x
                        => Stays(a, << i, j >>, x)
  <1>1. Stays(a, << >>, x)
    BY SeqNone DEF Stays
  <1>2. ASSUME NEW i, Allowed(a, i, x), Moved(i, x) = x
        PROVE  Stays(a, << i >>, x)
    <2>1. IsSeq(<< i >>) /\ Len(<< i >>) = 1 /\ << i >>[1] = i
      BY SeqOne
    <2>2. QED  BY <1>2, <2>1 DEF Stays
  <1>3. ASSUME NEW i, NEW j, Allowed(a, i, x), Moved(i, x) = x,
               Allowed(a, j, x), Moved(j, x) = x
        PROVE  Stays(a, << i, j >>, x)
    <2>1. IsSeq(<< i, j >>) /\ Len(<< i, j >>) = 2 /\ << i, j >>[1] = i /\ << i, j >>[2] = j
      BY SeqTwo
    <2>2. \A k \in 1 .. 2 : k = 1 \/ k = 2
      OBVIOUS
    <2>3. QED  BY <1>3, <2>1, <2>2 DEF Stays
  <1>4. QED  BY <1>1, <1>2, <1>3

\* A node whose instructions stay inside it.
LEMMA NodeLeads ==
    ASSUME NEW a, NEW step \in Steps, NEW agent \in Agents, NEW body, NEW j, NEW p,
           NEW q, NEW r,
           Leads(a, body, Stage([step |-> step, agent |-> agent], j, p),
                          Stage([step |-> step, agent |-> agent], q, r)),
           j \in BOOLEAN, p \in BOOLEAN, q \in BOOLEAN, r \in BOOLEAN
    PROVE  Leads(a, Node(step, agent, body), Stage(NoNode, j, p), Stage(NoNode, q, r))
  <1> DEFINE n == [step |-> step, agent |-> agent]
             i == Do("enter", step, agent)
             o == Do("leave", step, agent)
  <1>1. PlaceOf(i) = n /\ PlaceOf(o) = n /\ i.op = "enter" /\ o.op = "leave"
    BY DEF PlaceOf, Do
  <1>11. Proper(i) /\ Proper(o)
    BY DEF Proper, Do, CallOps, Steps, Agents
  <1>2. n \in Places
    BY DEF Places
  <1> HIDE DEF i, o, n
  <1>3. Allowed(a, i, Stage(NoNode, j, p)) /\ Moved(i, Stage(NoNode, j, p)) = Stage(n, j, p)
    BY <1>1, <1>2, <1>11 DEF Allowed, Moved, Stage, CallOps
  <1>4. Allowed(a, o, Stage(n, q, r)) /\ Moved(o, Stage(n, q, r)) = Stage(NoNode, q, r)
    BY <1>1, <1>2, <1>11 DEF Allowed, Moved, Stage, CallOps
  <1>5. Leads(a, << i >>, Stage(NoNode, j, p), Stage(n, j, p))
    BY <1>3, LeadsOne
  <1>6. Leads(a, << o >>, Stage(n, q, r), Stage(NoNode, q, r))
    BY <1>4, LeadsOne
  <1>7. Leads(a, body, Stage(n, j, p), Stage(n, q, r))
    BY DEF n
  <1>8. Leads(a, << i >> \o body, Stage(NoNode, j, p), Stage(n, q, r))
    BY <1>5, <1>7, LeadsOn
  <1>9. Leads(a, (<< i >> \o body) \o << o >>, Stage(NoNode, j, p), Stage(NoNode, q, r))
    BY <1>6, <1>8, LeadsOn
  <1>10. QED  BY <1>9 DEF Node, i, o

-----------------------------------------------------------------------------
(* The programs of the applications.                                       *)

\* Two and three instructions in a row.
LEMMA SameSeq ==
    ASSUME NEW s, NEW t, IsSeq(s), IsSeq(t), Len(s) = Len(t),
           \A k \in 1 .. Len(s) : s[k] = t[k]
    PROVE  s = t
  <1>1. PICK A, B : s \in Seq(A) /\ t \in Seq(B)
    BY DEF IsSeq
  <1>2. s = [k \in 1 .. Len(s) |-> s[k]]
    BY <1>1
  <1>3. t = [k \in 1 .. Len(t) |-> t[k]]
    BY <1>1
  <1>4. QED  BY <1>2, <1>3

\* A sequence of one, joined to itself.
LEMMA JoinOne ==
    ASSUME NEW s, NEW t, IsSeq(s), IsSeq(t)
    PROVE  Len(t) = 1 =>
           /\ IsSeq(s \o t) /\ Len(s \o t) = Len(s) + 1
           /\ \A k \in 1 .. Len(s) : (s \o t)[k] = s[k]
           /\ (s \o t)[Len(s) + 1] = t[1]
  <1>1. /\ IsSeq(s \o t)
        /\ Len(s \o t) = Len(s) + Len(t)
        /\ \A k \in 1 .. Len(s) : (s \o t)[k] = s[k]
        /\ \A k \in 1 .. Len(t) : (s \o t)[Len(s) + k] = t[k]
    BY SeqJoin
  <1>2. Len(t) = 1 => 1 \in 1 .. Len(t)
    OBVIOUS
  <1>3. QED  BY <1>1, <1>2

\* A row of two or three is joined from rows of one.
LEMMA Rows ==
    ASSUME NEW i, NEW j, NEW k
    PROVE  << i, j >> = << i >> \o << j >> /\ << i, j, k >> = << i, j >> \o << k >>
  <1>1. << i, j >> = << i >> \o << j >>
    <2> DEFINE s == << i, j >>
               u == << i >>
               v == << j >>
    <2>1. IsSeq(u) /\ IsSeq(v) /\ Len(u) = 1 /\ Len(v) = 1 /\ u[1] = i /\ v[1] = j
      BY SeqOne
    <2>2. IsSeq(s) /\ Len(s) = 2 /\ s[1] = i /\ s[2] = j
      BY SeqTwo
    <2> HIDE DEF s, u, v
    <2>3. IsSeq(u \o v) /\ Len(u \o v) = 2 /\ (u \o v)[1] = i /\ (u \o v)[2] = j
      BY <2>1, JoinOne
    <2>4. \A m \in 1 .. 2 : m = 1 \/ m = 2
      OBVIOUS
    <2>5. s = u \o v
      BY <2>2, <2>3, <2>4, SameSeq
    <2>6. QED  BY <2>5 DEF s, u, v
  <1>2. << i, j, k >> = << i, j >> \o << k >>
    <2> DEFINE s == << i, j, k >>
               u == << i, j >>
               v == << k >>
    <2>1. IsSeq(u) /\ IsSeq(v) /\ Len(u) = 2 /\ Len(v) = 1 /\ u[1] = i /\ u[2] = j /\ v[1] = k
      BY SeqOne, SeqTwo
    <2>2. IsSeq(s) /\ Len(s) = 3 /\ s[1] = i /\ s[2] = j /\ s[3] = k
      BY SeqThree
    <2> HIDE DEF s, u, v
    <2>3. IsSeq(u \o v) /\ Len(u \o v) = 3 /\ (u \o v)[1] = i /\ (u \o v)[2] = j /\ (u \o v)[3] = k
      <3>1. /\ IsSeq(u \o v) /\ Len(u \o v) = Len(u) + 1
            /\ \A m \in 1 .. Len(u) : (u \o v)[m] = u[m]
            /\ (u \o v)[Len(u) + 1] = v[1]
        BY <2>1, JoinOne
      <3>2. 1 \in 1 .. Len(u) /\ 2 \in 1 .. Len(u) /\ Len(u) + 1 = 3
        BY <2>1
      <3> DEFINE w == u \o v
      <3> HIDE DEF w
      <3>3. QED  BY <2>1, <3>1, <3>2 DEF w
    <2>4. \A m \in 1 .. 3 : m = 1 \/ m = 2 \/ m = 3
      OBVIOUS
    <2>5. s = u \o v
      BY <2>2, <2>3, <2>4, SameSeq
    <2>6. QED  BY <2>5 DEF s, u, v
  <1>3. QED  BY <1>1, <1>2

\* Two instructions that leave a stage as it is.
LEMMA LeadsTwo ==
    ASSUME NEW a, NEW i, NEW j, NEW x, NEW y, NEW z,
           Leads(a, << i >>, x, y), Leads(a, << j >>, y, z)
    PROVE  Leads(a, << i, j >>, x, z)
  <1>1. << i, j >> = << i >> \o << j >>
    BY Rows
  <1>2. QED  BY <1>1, LeadsOn

\* Three pieces that leave a stage as it is.
LEMMA LeadsThree ==
    ASSUME NEW a, NEW i, NEW j, NEW k, NEW x, NEW y, NEW z, NEW w,
           Leads(a, << i >>, x, y), Leads(a, << j >>, y, z), Leads(a, << k >>, z, w)
    PROVE  Leads(a, << i, j, k >>, x, w)
  <1>1. << i, j, k >> = << i, j >> \o << k >>
    BY Rows
  <1>2. Leads(a, << i, j >>, x, z)
    BY LeadsTwo
  <1>3. QED  BY <1>1, <1>2, LeadsOn

\* What may be done inside the node of a step, before the validation.
Inside(i, n) ==
    /\ Proper(i)
    /\ \/ i.op \in {"context", "route", "recall"}
       \/ i.op \in CallOps /\ PlaceOf(i) = n

\* What happens inside a node stays at its stage.
LEMMA InsideStays ==
    ASSUME NEW a, NEW i, NEW n \in Places, Inside(i, n)
    PROVE  Allowed(a, i, Stage(n, FALSE, FALSE)) /\ Moved(i, Stage(n, FALSE, FALSE)) = Stage(n, FALSE, FALSE)
  BY DEF Inside, Allowed, Moved, Stage, CallOps

\* The operations of the constructors.
LEMMA Constructors ==
    /\ \A s, g, r : Tool(s, g, r).op = "tool" /\ PlaceOf(Tool(s, g, r)) = [step |-> s, agent |-> g]
    /\ \A s, g, r : Risky(s, g, r).op = "tool" /\ PlaceOf(Risky(s, g, r)) = [step |-> s, agent |-> g]
    /\ \A s, g, c : Attach(s, g, c).op = "context"
    /\ \A o, s, g : Do(o, s, g).op = o /\ PlaceOf(Do(o, s, g)) = [step |-> s, agent |-> g]
    /\ \A m : Validate(m).op = "validate" /\ Validate(m).arg = IF m THEN "pass" ELSE "fail"
    /\ \A t : Finish(t).op = "finish" /\ Finish(t).arg = t
  BY DEF Tool, Risky, Attach, Do, Validate, Finish, PlaceOf

\* They are proper where their step and their agent are named,
LEMMA ToolProper ==
    ASSUME NEW s, NEW g, NEW r, s # "", g # "", r.cost \in Nat
    PROVE  Proper(Tool(s, g, r)) /\ Proper(Risky(s, g, r))
  <1>1. /\ Tool(s, g, r).step = s /\ Tool(s, g, r).agent = g /\ Tool(s, g, r).req = r
        /\ Risky(s, g, r).step = s /\ Risky(s, g, r).agent = g /\ Risky(s, g, r).req = r
    BY DEF Tool, Risky, Do
  <1>2. QED  BY <1>1 DEF Proper

LEMMA ProperMade ==
    /\ \A s, g, c : s # "" /\ g # "" => Proper(Attach(s, g, c))
    /\ \A o, s, g : o \notin CallOps /\ (s = "" <=> g = "") => Proper(Do(o, s, g))
    /\ \A m : Proper(Validate(m))
    /\ \A t : Proper(Finish(t))
  <1>2. \A s, g, c : s # "" /\ g # "" => Proper(Attach(s, g, c))
    BY DEF Attach, Do, Proper, CallOps
  <1>3. \A o, s, g : o \notin CallOps /\ (s = "" <=> g = "") => Proper(Do(o, s, g))
    BY DEF Do, Proper
  <1>4. (\A m : Proper(Validate(m))) /\ (\A t : Proper(Finish(t)))
    BY DEF Validate, Finish, Do, Proper, CallOps
  <1>5. QED  BY <1>2, <1>3, <1>4

\* as the nodes of the graphs are,
LEMMA NodesNamed == (\A s \in Steps : s # "") /\ (\A g \in Agents : g # "")
  BY DEF Steps, Agents

\* and what they call has a price.
LEMMA Priced ==
    /\ \A model, prompt : \A chars \in Nat : Asking(model, prompt, chars).cost \in Nat
    /\ \A c : Fetch(c).cost \in Nat
    /\ Search.cost \in Nat
  <1>1. \A tool, input, hash, scope, amount : Calling(tool, input, hash, scope, amount).cost = amount
    BY DEF Calling
  <1>2. \A model : \A chars \in Nat : Price(model, chars) \in Nat
    <2> TAKE model
    <2> TAKE chars \in Nat
    <2> DEFINE b == IF chars \div 4 < 50 THEN 50 ELSE chars \div 4
               c == IF chars \div 8 < 80 THEN 80 ELSE chars \div 8
               r == IF model = "mock-synthesis" THEN 2 ELSE 1
    <2>1. chars \div 4 \in Nat /\ chars \div 8 \in Nat
      OBVIOUS
    <2>2. b \in Nat /\ c \in Nat /\ r \in {1, 2}
      BY <2>1
    <2>3. Price(model, chars) = r * b + 2 * r * c
      BY DEF Price
    <2> HIDE DEF b, c, r
    <2>4. r * b + 2 * r * c \in Nat
      BY <2>2
    <2>5. QED  BY <2>3, <2>4
  <1>3. \A model, prompt, chars : Asking(model, prompt, chars).cost = Price(model, chars)
    BY DEF Asking, Calling
  <1>4. QED  BY <1>1, <1>2, <1>3 DEF Scoped, Fetch, Search

\* Start, a verdict and what surrounds it.
LEMMA LeadsStart ==
    ASSUME NEW a
    PROVE  Leads(a, << Do("start", "", "") >>, Stage(NoNode, FALSE, FALSE), Stage(NoNode, FALSE, FALSE))
  <1> DEFINE i == Do("start", "", "")
             x == Stage(NoNode, FALSE, FALSE)
  <1>1. i.op = "start" /\ Proper(i)
    BY DEF Do, Proper, CallOps
  <1> HIDE DEF i
  <1>2. Allowed(a, i, x) /\ Moved(i, x) = x
    BY <1>1 DEF Allowed, Moved, Stage, CallOps
  <1>3. QED  BY <1>2, LeadsOne DEF i

\* A validation passes or does not.
LEMMA LeadsValidate ==
    ASSUME NEW a, NEW m \in BOOLEAN, NEW n, NEW j \in BOOLEAN, NEW p \in BOOLEAN
    PROVE  Leads(a, << Validate(m) >>, Stage(n, j, p), Stage(n, j, p \/ m))
  <1> DEFINE i == Validate(m)
             x == Stage(n, j, p)
  <1>1. i.op = "validate" /\ Proper(i) /\ i.arg = IF m THEN "pass" ELSE "fail"
    BY Constructors, ProperMade
  <1> HIDE DEF i
  <1>2. Allowed(a, i, x) /\ Moved(i, x) = Stage(n, j, p \/ m)
    BY <1>1 DEF Allowed, Moved, Stage, CallOps
  <1>3. QED  BY <1>2, LeadsOne DEF i

\* A verdict: "pass" only where nothing is validated or the validation passed.
LEMMA LeadsFinish ==
    ASSUME NEW a, NEW t, NEW n, NEW j \in BOOLEAN, NEW p \in BOOLEAN,
           t = "pass" /\ a \in Judging => p
    PROVE  Leads(a, << Finish(t) >>, Stage(n, j, p), Stage(n, TRUE, p))
  <1> DEFINE i == Finish(t)
             x == Stage(n, j, p)
  <1>1. i.op = "finish" /\ Proper(i) /\ i.arg = t
    BY Constructors, ProperMade
  <1> HIDE DEF i
  <1>2. Allowed(a, i, x) /\ Moved(i, x) = Stage(n, TRUE, p)
    BY <1>1 DEF Allowed, Moved, Stage, CallOps
  <1>3. QED  BY <1>2, LeadsOne DEF i

\* The evaluation after the verdict changes nothing.
LEMMA LeadsEvaluate ==
    ASSUME NEW a, NEW n, NEW j \in BOOLEAN, NEW p \in BOOLEAN
    PROVE  Leads(a, << Do("evaluate", "", "") >>, Stage(n, j, p), Stage(n, j, p))
  <1> DEFINE i == Do("evaluate", "", "")
             x == Stage(n, j, p)
  <1>1. i.op = "evaluate" /\ Proper(i)
    BY DEF Do, Proper, CallOps
  <1> HIDE DEF i
  <1>2. Allowed(a, i, x) /\ Moved(i, x) = x
    BY <1>1 DEF Allowed, Moved, Stage, CallOps
  <1>3. QED  BY <1>2, LeadsOne DEF i

\* A node in which nothing is said.
LEMMA QuietNode ==
    ASSUME NEW a, NEW step \in Steps, NEW agent \in Agents, NEW body,
           Stays(a, body, Stage([step |-> step, agent |-> agent], FALSE, FALSE))
    PROVE  Leads(a, Node(step, agent, body), Stage(NoNode, FALSE, FALSE), Stage(NoNode, FALSE, FALSE))
  <1> DEFINE n == [step |-> step, agent |-> agent]
  <1>1. Leads(a, body, Stage(n, FALSE, FALSE), Stage(n, FALSE, FALSE))
    BY StaysLeads
  <1>2. QED  BY <1>1, NodeLeads

\* Every program of an application leads from its start to a verdict with all
\* nodes closed, and so does its handler if it has one, which only gives the
\* verdict "error".
Sound(a, program) ==
    /\ \E p \in BOOLEAN : Leads(a, program.main, Stage(NoNode, FALSE, FALSE), Stage(NoNode, TRUE, p))
    /\ program.catches # {} =>
           \A p \in BOOLEAN :
               Leads(a, program.handler, Stage(NoNode, FALSE, p), Stage(NoNode, TRUE, p))
    /\ \A k \in 1 .. Len(program.handler) :
           /\ program.handler[k].op \in {"finish", "evaluate"}
           /\ program.handler[k].op = "finish" => program.handler[k].arg = "error"

\* Nothing, and one verdict, as a handler.
LEMMA Handlers ==
    ASSUME NEW a
    PROVE  /\ \A p \in BOOLEAN : /\ Leads(a, << Finish("error") >>, Stage(NoNode, FALSE, p), Stage(NoNode, TRUE, p))
                                 /\ Leads(a, << Finish("error"), Do("evaluate", "", "") >>,
                                          Stage(NoNode, FALSE, p), Stage(NoNode, TRUE, p))
           /\ \A h \in {<< >>, << Finish("error") >>, << Finish("error"), Do("evaluate", "", "") >>} :
                  \A k \in 1 .. Len(h) : /\ h[k].op \in {"finish", "evaluate"}
                                         /\ h[k].op = "finish" => h[k].arg = "error"
  <1>1. ASSUME NEW p \in BOOLEAN
        PROVE  /\ Leads(a, << Finish("error") >>, Stage(NoNode, FALSE, p), Stage(NoNode, TRUE, p))
               /\ Leads(a, << Finish("error"), Do("evaluate", "", "") >>,
                        Stage(NoNode, FALSE, p), Stage(NoNode, TRUE, p))
    <2>1. Leads(a, << Finish("error") >>, Stage(NoNode, FALSE, p), Stage(NoNode, TRUE, p))
      BY LeadsFinish
    <2>2. Leads(a, << Do("evaluate", "", "") >>, Stage(NoNode, TRUE, p), Stage(NoNode, TRUE, p))
      BY LeadsEvaluate
    <2>3. QED  BY <2>1, <2>2, LeadsTwo
  <1> DEFINE i == Finish("error")
             e == Do("evaluate", "", "")
  <1>2. i.op = "finish" /\ i.arg = "error" /\ e.op = "evaluate"
    BY DEF Finish, Do
  <1> HIDE DEF i, e
  <1>3. \A k \in 1 .. 2 : k = 1 \/ k = 2
    OBVIOUS
  <1>4. /\ \A k \in 1 .. Len(<< i >>) : << i >>[k] = i
        /\ \A k \in 1 .. Len(<< i, e >>) : << i, e >>[k] \in {i, e}
        /\ Len(<< >>) = 0
    BY <1>3, SeqNone
  <1>5. \A h \in {<< >>, << i >>, << i, e >>} :
            \A k \in 1 .. Len(h) : /\ h[k].op \in {"finish", "evaluate"}
                                   /\ h[k].op = "finish" => h[k].arg = "error"
    BY <1>2, <1>4
  <1>6. QED  BY <1>1, <1>5 DEF i, e

\* Inside a node, before the verdict.
Within(step, agent) == Stage([step |-> step, agent |-> agent], FALSE, FALSE)

\* One or two instructions that belong in the node.
LEMMA InsideRow ==
    ASSUME NEW a, NEW step \in Steps, NEW agent \in Agents
    PROVE  LET n == [step |-> step, agent |-> agent]
           IN  /\ Stays(a, << >>, Within(step, agent))
               /\ \A i : Inside(i, n) => Stays(a, << i >>, Within(step, agent))
               /\ \A i, j : Inside(i, n) /\ Inside(j, n) => Stays(a, << i, j >>, Within(step, agent))
  <1> DEFINE n == [step |-> step, agent |-> agent]
             x == Within(step, agent)
  <1>1. x = Stage(n, FALSE, FALSE) /\ n \in Places
    BY DEF Within, Places
  <1> HIDE DEF n, x
  <1>2. \A i : Inside(i, n) => Allowed(a, i, x) /\ Moved(i, x) = x
    BY <1>1, InsideStays
  <1>3. /\ Stays(a, << >>, x)
        /\ \A i : Inside(i, n) => Stays(a, << i >>, x)
        /\ \A i, j : Inside(i, n) /\ Inside(j, n) => Stays(a, << i, j >>, x)
    BY <1>2, StaysRow
  <1>4. QED  BY <1>3 DEF n, x

\* Context, route and memory are attached inside the node.
LEMMA PrepareStays ==
    ASSUME NEW a, NEW step \in Steps, NEW agent \in Agents, NEW planned,
           planned # "", NEW static, NEW f
    PROVE  Stays(a, Prepare(step, planned, agent, static, f), Within(step, agent))
  <1> DEFINE n == [step |-> step, agent |-> agent]
             i == Attach(planned, agent, Planned[agent])
             r == Do("route", planned, agent)
             c == Attach(step, agent, IF f.plan THEN Planned[agent] ELSE static)
  <1>1. i.op = "context" /\ c.op = "context" /\ r.op = "route"
    BY DEF Attach, Do
  <1>5. Proper(i) /\ Proper(c) /\ Proper(r)
    BY NodesNamed, ProperMade DEF CallOps
  <1> HIDE DEF i, r, c
  <1>2. Inside(i, n) /\ Inside(r, n) /\ Inside(c, n)
    BY <1>1, <1>5 DEF Inside
  <1> HIDE DEF n
  <1>3. Stays(a, << i, r >>, Within(step, agent)) /\ Stays(a, << c >>, Within(step, agent))
    BY <1>2, InsideRow DEF n
  <1>4. QED  BY <1>3 DEF Prepare, i, r, c

\* The model is asked inside the node.
LEMMA AskStays ==
    ASSUME NEW a, NEW step \in Steps, NEW agent \in Agents,
           NEW capability, NEW fixed, NEW routed, NEW prompt, NEW chars \in Nat, NEW f
    PROVE  Stays(a, Ask(step, agent, capability, fixed, routed, prompt, chars, f),
                 Within(step, agent))
  <1> DEFINE n == [step |-> step, agent |-> agent]
             steered == f.session \/ f.plan
             m == [Do("model", step, agent) EXCEPT
                      !.req = Asking(IF steered THEN routed ELSE fixed, prompt, chars),
                      !.arg = IF steered THEN capability ELSE "none"]
  <1>1. /\ m.op = "model" /\ m.step = step /\ m.agent = agent
        /\ m.req = Asking(IF steered THEN routed ELSE fixed, prompt, chars)
    BY DEF Do
  <1>6. m.req.cost \in Nat
    BY <1>1, Priced
  <1>2. Ask(step, agent, capability, fixed, routed, prompt, chars, f) = << m >>
    BY DEF Ask
  <1> HIDE DEF m
  <1>3. Inside(m, n)
    BY <1>1, <1>6, NodesNamed DEF Inside, CallOps, PlaceOf, Proper
  <1> HIDE DEF n
  <1>4. Stays(a, << m >>, Within(step, agent))
    BY <1>3, InsideRow DEF n
  <1>5. QED  BY <1>2, <1>4

\* The retries and fetches of the analysis.
LEMMA GatherStays ==
    ASSUME NEW a, NEW s, NEW c
    PROVE  Stays(a, Gather(s, c), Within("analysis", "analyst"))
  <1> DEFINE n == [step |-> "analysis", agent |-> "analyst"]
             fetch == Tool("analysis", "analyst", Fetch(c))
             retry == [fetch EXCEPT !.op = "retry"]
             fail  == [fetch EXCEPT !.req.failed = TRUE]
             x == Within("analysis", "analyst")
  <1>1. /\ fetch.op = "tool" /\ fetch.step = "analysis" /\ fetch.agent = "analyst"
        /\ retry.op = "retry" /\ retry.step = "analysis" /\ retry.agent = "analyst"
        /\ fail.op = "tool" /\ fail.step = "analysis" /\ fail.agent = "analyst"
    BY DEF Tool, Do
  <1>8. /\ fetch.req = Fetch(c) /\ retry.req = Fetch(c)
        /\ fail.req = [Fetch(c) EXCEPT !.failed = TRUE]
    BY DEF Tool, Do
  <1>9. [Fetch(c) EXCEPT !.failed = TRUE].cost = Fetch(c).cost
    BY DEF Fetch, Calling
  <1>2. Gather(s, c) = IF s = "expensive" THEN << retry, fail, retry, fetch >> ELSE << fetch >>
    BY DEF Gather
  <1> HIDE DEF fetch, retry, fail
  <1>3. Inside(fetch, n) /\ Inside(retry, n) /\ Inside(fail, n)
    BY <1>1, <1>8, <1>9, Priced DEF Inside, CallOps, PlaceOf, Proper
  <1>4. \A i : Inside(i, n) => Allowed(a, i, x) /\ Moved(i, x) = x
    <2>1. n \in Places
      BY DEF Places, Steps, Agents
    <2> HIDE DEF n
    <2>2. \A i : Inside(i, n) => Allowed(a, i, Stage(n, FALSE, FALSE)) /\ Moved(i, Stage(n, FALSE, FALSE)) = Stage(n, FALSE, FALSE)
      BY <2>1, InsideStays
    <2>3. QED  BY <2>2 DEF Within, n
  <1> HIDE DEF n, x
  <1>5. Stays(a, << fetch >>, x)
    BY <1>3, <1>4, StaysRow
  <1>6. Stays(a, << retry, fail, retry, fetch >>, x)
    <2> DEFINE r == << retry, fail, retry, fetch >>
               A == {fetch, retry, fail}
    <2>1. r \in Seq(A)
      OBVIOUS
    <2>2. \A i \in A : Inside(i, n)
      BY <1>3
    <2> HIDE DEF r, A
    <2>3. \A k \in 1 .. Len(r) : r[k] \in A
      BY <2>1
    <2>4. IsSeq(r)
      BY <2>1 DEF IsSeq
    <2>5. \A k \in 1 .. Len(r) : Allowed(a, r[k], x) /\ Moved(r[k], x) = x
      BY <1>4, <2>2, <2>3
    <2>6. QED  BY <2>4, <2>5 DEF Stays, r
  <1>7. QED  BY <1>2, <1>5, <1>6 DEF x

\* Gathering the facts of every competitor, however many there are.
LEMMA EachStays ==
    ASSUME NEW a, NEW s
    PROVE  Stays(a, Each(s), Within("analysis", "analyst"))
  <1> DEFINE g == [i \in DOMAIN Competitors |-> Gather(s, Competitors[i])]
             x == Within("analysis", "analyst")
  <1>1. Competitors \in Seq(STRING)
    BY CompetitorsAssumption
  <1>2. Len(Competitors) \in Nat /\ DOMAIN Competitors = 1 .. Len(Competitors)
    BY <1>1
  <1>3. \A i \in 1 .. Len(Competitors) : g[i] = Gather(s, Competitors[i]) /\ Stays(a, g[i], x)
    BY <1>2, GatherStays
  <1>4. IsSeq(g) /\ Len(g) = Len(Competitors)
    <2> DEFINE f == [i \in 1 .. Len(Competitors) |-> Gather(s, Competitors[i])]
    <2>1. IsSeq([i \in 1 .. Len(Competitors) |-> f[i]]) /\ Len([i \in 1 .. Len(Competitors) |-> f[i]]) = Len(Competitors)
      BY <1>2, SeqBuild
    <2>2. g = [i \in 1 .. Len(Competitors) |-> f[i]]
      BY <1>2
    <2>3. QED  BY <2>1, <2>2
  <1> HIDE DEF g, x
  <1>5. \A i \in 1 .. Len(g) : IsSeq(g[i]) /\ \A j \in 1 .. Len(g[i]) : Allowed(a, g[i][j], x) /\ Moved(g[i][j], x) = x
    BY <1>3, <1>4 DEF Stays
  <1> DEFINE w == FlattenSeq(g)
  <1>6. /\ IsSeq(w)
        /\ \A k \in 1 .. Len(w) : \E i \in 1 .. Len(g) : \E j \in 1 .. Len(g[i]) : w[k] = g[i][j]
    BY <1>4, <1>5, FlattenSeqs
  <1> HIDE DEF w
  <1>7. ASSUME NEW k \in 1 .. Len(w)
        PROVE  Allowed(a, w[k], x) /\ Moved(w[k], x) = x
    <2>1. PICK i \in 1 .. Len(g) : \E j \in 1 .. Len(g[i]) : w[k] = g[i][j]
      BY <1>6
    <2>2. PICK j \in 1 .. Len(g[i]) : w[k] = g[i][j]
      BY <2>1
    <2>3. QED  BY <1>5, <2>2
  <1>8. Stays(a, w, x)
    BY <1>6, <1>7 DEF Stays
  <1>9. QED  BY <1>8 DEF Each, w, g, x

-----------------------------------------------------------------------------
(* The research graph.                                                     *)

\* The research node opens, does its work and closes.
LEMMA ResearchLeads ==
    ASSUME NEW a, NEW s, NEW f
    PROVE  Leads(a, Research(s, f), Stage(NoNode, FALSE, FALSE), Stage(NoNode, FALSE, FALSE))
  <1> DEFINE n == [step |-> "research", agent |-> "researcher"]
             x == Within("research", "researcher")
             search == Tool("research", "researcher", Search)
             recall == Do("recall", "research", "researcher")
             static == Slices(<< <<"question">>, <<"source", "policy">>, <<"open", "questions">> >>, 2, 1)
             b1 == Prepare("research", "research", "researcher", static, f)
             again == [search EXCEPT !.req.marked = TRUE]
             b2 == IF s = "expensive" THEN << search, again >> ELSE << search >>
             b3 == Ask("research", "researcher", "research", "mock-research",
                       "mock-research", <<"plan", "evidence">>, 69, f)
             b4 == IF f.memory THEN << recall >> ELSE << >>
  <1>0. "research" \in Steps /\ "researcher" \in Agents
    BY DEF Steps, Agents
  <1>1. Research(s, f) = Node("research", "researcher", b1 \o b2 \o b3 \o b4)
    BY DEF Research
  <1>2. Stays(a, b1, x) /\ Stays(a, b3, x)
    <2> HIDE DEF x, static
    <2>1. QED  BY <1>0, PrepareStays, AskStays DEF x
  <1>3. search.op = "tool" /\ PlaceOf(search) = n /\ recall.op = "recall"
    BY Constructors
  <1>10. Proper(search) /\ Proper(recall)
    BY Priced, ToolProper, ProperMade DEF CallOps
  <1>14. again.op = "tool" /\ PlaceOf(again) = n /\ Proper(again)
    <2>1. /\ again.op = search.op /\ again.step = search.step /\ again.agent = search.agent
          /\ again.req.cost = search.req.cost /\ again.req.tool = search.req.tool
      BY DEF Tool, Search, Scoped, Calling, Do
    <2> HIDE DEF again, search
    <2>2. QED  BY <1>3, <1>10, <2>1 DEF PlaceOf, Proper
  <1> HIDE DEF search, recall, again
  <1>4. Inside(search, n) /\ Inside(recall, n) /\ Inside(again, n)
    BY <1>3, <1>10, <1>14 DEF Inside, CallOps
  <1>5. Stays(a, << search, again >>, x) /\ Stays(a, << search >>, x) /\ Stays(a, << recall >>, x)
        /\ Stays(a, << >>, x)
    <2> HIDE DEF n
    <2>1. QED  BY <1>0, <1>4, InsideRow DEF n
  <1>6. Stays(a, b2, x) /\ Stays(a, b4, x)
    BY <1>5
  <1> HIDE DEF b1, b2, b3, b4
  <1>7. Stays(a, b1 \o b2, x)
    BY <1>2, <1>6, StaysOn
  <1>8. Stays(a, b1 \o b2 \o b3, x)
    BY <1>2, <1>7, StaysOn
  <1>9. Stays(a, b1 \o b2 \o b3 \o b4, x)
    BY <1>6, <1>8, StaysOn
  <1> DEFINE body == b1 \o b2 \o b3 \o b4
  <1>11. Stays(a, body, Stage([step |-> "research", agent |-> "researcher"], FALSE, FALSE))
    BY <1>9 DEF Within
  <1> HIDE DEF body
  <1>12. Leads(a, Node("research", "researcher", body), Stage(NoNode, FALSE, FALSE), Stage(NoNode, FALSE, FALSE))
    BY <1>0, <1>11, QuietNode
  <1>13. QED  BY <1>1, <1>12 DEF body

\* The analysis node.
LEMMA AnalysisLeads ==
    ASSUME NEW a, NEW s, NEW f
    PROVE  Leads(a, Analysis(s, f), Stage(NoNode, FALSE, FALSE), Stage(NoNode, FALSE, FALSE))
  <1> DEFINE x == Within("analysis", "analyst")
             static == Slices(<< <<"verified", "evidence">>, <<"rubric">>, <<"constraints">> >>, 2, 1)
             b1 == Prepare("analysis", "analysis", "analyst", static, f)
             b2 == Each(s)
             b3 == Ask("analysis", "analyst", "analysis", "mock-research",
                       "mock-analysis", <<"verify", "evidence">>, 44, f)
  <1>0. "analysis" \in Steps /\ "analyst" \in Agents
    BY DEF Steps, Agents
  <1>1. Analysis(s, f) = Node("analysis", "analyst", b1 \o b2 \o b3)
    BY DEF Analysis
  <1>2. Stays(a, b1, x) /\ Stays(a, b2, x) /\ Stays(a, b3, x)
    <2> HIDE DEF x, static
    <2>1. QED  BY <1>0, PrepareStays, AskStays, EachStays DEF x
  <1> HIDE DEF b1, b2, b3
  <1>3. Stays(a, b1 \o b2, x)
    BY <1>2, StaysOn
  <1>4. Stays(a, b1 \o b2 \o b3, x)
    BY <1>2, <1>3, StaysOn
  <1> DEFINE body == b1 \o b2 \o b3
  <1>6. Stays(a, body, Stage([step |-> "analysis", agent |-> "analyst"], FALSE, FALSE))
    BY <1>4 DEF Within
  <1> HIDE DEF body
  <1>7. Leads(a, Node("analysis", "analyst", body), Stage(NoNode, FALSE, FALSE), Stage(NoNode, FALSE, FALSE))
    BY <1>0, <1>6, QuietNode
  <1>8. QED  BY <1>1, <1>7 DEF body

\* The writing node, the validation and the verdict.
LEMMA WritingLeads ==
    ASSUME NEW a, NEW s, NEW f
    PROVE  Leads(a, Writing(s, f), Stage(NoNode, FALSE, FALSE), Stage(NoNode, FALSE, FALSE))
  <1> DEFINE n == [step |-> "writing", agent |-> "writer"]
             x == Within("writing", "writer")
             static == Slices(<< <<"verified", "facts">>, <<"audience">>, <<"format">> >>, 2, 1)
             input == <<"evidence_count", Brief(s).count>>
             tool == Tool("writing", "writer", Calling("synthesize_brief", input, input, "default", 3000))
             b1 == Prepare("writing", "synthesis", "writer", static, f)
             b2 == << tool >>
             b3 == Ask("writing", "writer", "synthesis", "mock-synthesis",
                       "mock-synthesis", <<"draft", "brief">>, 29, f)
  <1>0. "writing" \in Steps /\ "writer" \in Agents
    BY DEF Steps, Agents
  <1>1. Writing(s, f) = Node("writing", "writer", b1 \o b2 \o b3)
    BY DEF Writing
  <1>2. Stays(a, b1, x) /\ Stays(a, b3, x)
    <2> HIDE DEF x, static
    <2>1. QED  BY <1>0, PrepareStays, AskStays DEF x
  <1>3. tool.op = "tool" /\ PlaceOf(tool) = n
    BY Constructors
  <1>8. Proper(tool)
    <2> DEFINE q == Calling("synthesize_brief", input, input, "default", 3000)
    <2>1. q.cost = 3000
      BY DEF Calling
    <2> HIDE DEF q, input
    <2>5. q.cost \in Nat /\ "writing" # "" /\ "writer" # ""
      BY <2>1
    <2>2. Proper(Tool("writing", "writer", q))
      BY <2>5, ToolProper
    <2>3. QED  BY <2>2 DEF q
  <1> HIDE DEF tool
  <1>4. Inside(tool, n)
    BY <1>3, <1>8 DEF Inside, CallOps
  <1>5. Stays(a, b2, x)
    <2> HIDE DEF n
    <2>1. QED  BY <1>0, <1>4, InsideRow DEF n
  <1> HIDE DEF b1, b2, b3
  <1>6. Stays(a, b1 \o b2, x)
    BY <1>2, <1>5, StaysOn
  <1>7. Stays(a, b1 \o b2 \o b3, x)
    BY <1>2, <1>6, StaysOn
  <1> DEFINE body == b1 \o b2 \o b3
  <1>9. Stays(a, body, Stage([step |-> "writing", agent |-> "writer"], FALSE, FALSE))
    BY <1>7 DEF Within
  <1> HIDE DEF body
  <1>10. Leads(a, Node("writing", "writer", body), Stage(NoNode, FALSE, FALSE), Stage(NoNode, FALSE, FALSE))
    BY <1>0, <1>9, QuietNode
  <1>11. QED  BY <1>1, <1>10 DEF body

\* run_scenario() of the cited-research example.
LEMMA CitedSound ==
    ASSUME NEW s, NEW f
    PROVE  Sound("cited", Cited(s, f))
  <1> DEFINE met == ContractMet(Brief(s))
             begin == << Do("start", "", "") >>
             r == Research(s, f)
             y == Analysis(s, f)
             w == Writing(s, f)
             v == Validate(met)
             d == Finish(IF met THEN "pass" ELSE "fail")
             e == Do("evaluate", "", "")
             x == Stage(NoNode, FALSE, FALSE)
  <1>1. /\ Cited(s, f).main = begin \o r \o y \o w \o << v, d, e >>
        /\ Cited(s, f).handler = << Finish("error"), Do("evaluate", "", "") >>
    BY DEF Cited
  <1>2. met \in BOOLEAN
    BY DEF ContractMet
  <1> HIDE DEF met
  <1>3. Leads("cited", begin, x, x) /\ Leads("cited", r, x, x) /\ Leads("cited", y, x, x)
        /\ Leads("cited", w, x, x)
    <2> HIDE DEF r, y, w, begin
    <2>1. QED  BY LeadsStart, ResearchLeads, AnalysisLeads, WritingLeads DEF r, y, w, begin
  <1>4. Leads("cited", << v >>, x, Stage(NoNode, FALSE, met))
    <2>1. FALSE \/ met <=> met
      OBVIOUS
    <2>2. Leads("cited", << v >>, x, Stage(NoNode, FALSE, FALSE \/ met))
      BY <1>2, LeadsValidate
    <2>3. (FALSE \/ met) = met
      BY <1>2
    <2>4. QED  BY <2>2, <2>3
  <1>5. Leads("cited", << d >>, Stage(NoNode, FALSE, met), Stage(NoNode, TRUE, met))
    <2>1. (IF met THEN "pass" ELSE "fail") = "pass" => met
      OBVIOUS
    <2>2. QED  BY <1>2, <2>1, LeadsFinish
  <1>6. Leads("cited", << e >>, Stage(NoNode, TRUE, met), Stage(NoNode, TRUE, met))
    BY <1>2, LeadsEvaluate
  <1> HIDE DEF begin, r, y, w, v, d, e, x
  <1>7. Leads("cited", << v, d, e >>, x, Stage(NoNode, TRUE, met))
    BY <1>4, <1>5, <1>6, LeadsThree
  <1>8. Leads("cited", begin \o r, x, x)
    BY <1>3, LeadsOn
  <1>9. Leads("cited", begin \o r \o y, x, x)
    BY <1>3, <1>8, LeadsOn
  <1>10. Leads("cited", begin \o r \o y \o w, x, x)
    BY <1>3, <1>9, LeadsOn
  <1>11. Leads("cited", begin \o r \o y \o w \o << v, d, e >>, x, Stage(NoNode, TRUE, met))
    BY <1>7, <1>10, LeadsOn
  <1>12. Leads("cited", Cited(s, f).main, Stage(NoNode, FALSE, FALSE), Stage(NoNode, TRUE, met))
    BY <1>1, <1>11 DEF x
  <1>13. QED  BY <1>1, <1>2, <1>12, Handlers DEF Sound

-----------------------------------------------------------------------------
(* The other applications.                                                 *)

\* InstrumentedGraph.invoke on the example graph.
LEMMA LanggraphSound == Sound("langgraph", Langgraph)
  <1> DEFINE a == "langgraph"
             n == [step |-> "research", agent |-> "researcher"]
             k == [step |-> "synthesize", agent |-> "writer"]
             i1 == Attach("research", "researcher",
                          Slices(<< <<"question">>, <<"sourcing", "rules">> >>, 1, 1))
             i2 == Tool("research", "researcher", Scoped("search_competitors", Query, "user-A", 2000))
             i3 == [Do("model", "synthesize", "writer") EXCEPT !.arg = "synthesis",
                       !.req = Asking("mock-synthesis", <<"brief", "on">>, 249)]
             begin == << Do("start", "", "") >>
             r == Node("research", "researcher", << i1, i2 >>)
             w == Node("synthesize", "writer", << i3 >>)
             o == Finish("ok")
             v == Validate(TRUE)
             d == Finish("pass")
             x == Stage(NoNode, FALSE, FALSE)
  <1>1. /\ Langgraph.main = begin \o r \o w \o << o, v, d >>
        /\ Langgraph.handler = << Finish("error") >>
    BY DEF Langgraph
  <1>5. /\ "research" \in Steps /\ "researcher" \in Agents
        /\ "synthesize" \in Steps /\ "writer" \in Agents
    BY DEF Steps, Agents
  <1>2. Inside(i1, n) /\ Inside(i2, n)
    <2>1. i1.op = "context" /\ i2.op = "tool" /\ PlaceOf(i2) = n
      BY Constructors
    <2>2. Proper(i1) /\ Proper(i2)
      <3> DEFINE q == Scoped("search_competitors", Query, "user-A", 2000)
      <3>1. q.cost = 2000
        BY DEF Scoped, Calling
      <3> HIDE DEF q
      <3>5. q.cost \in Nat /\ "research" # "" /\ "researcher" # ""
        BY <3>1
      <3>2. Proper(Tool("research", "researcher", q))
        BY <3>5, ToolProper
      <3>3. Proper(i1)
        BY DEF Attach, Do, Proper, CallOps
      <3>4. QED  BY <3>2, <3>3 DEF q
    <2> HIDE DEF i1, i2, n
    <2>3. QED  BY <2>1, <2>2 DEF Inside, CallOps
  <1>3. Inside(i3, k)
    <2>1. i3.op = "model" /\ i3.step = "synthesize" /\ i3.agent = "writer"
      BY DEF Do
    <2>2. i3.req = Asking("mock-synthesis", <<"brief", "on">>, 249)
      BY DEF Do
    <2>3. i3.req.cost \in Nat
      BY <2>2, Priced
    <2> HIDE DEF i3
    <2>4. QED  BY <2>1, <2>3 DEF Inside, CallOps, PlaceOf, Proper
  <1> HIDE DEF i1, i2, i3
  <1>4. Stays(a, << i1, i2 >>, Stage(n, FALSE, FALSE)) /\ Stays(a, << i3 >>, Stage(k, FALSE, FALSE))
    <2> HIDE DEF n, k, a
    <2>1. QED  BY <1>2, <1>3, <1>5, InsideRow DEF n, k, Within
  <1>6. Leads(a, begin, x, x) /\ Leads(a, r, x, x) /\ Leads(a, w, x, x)
    <2> DEFINE s1 == << i1, i2 >>
               s2 == << i3 >>
    <2> HIDE DEF begin, s1, s2
    <2>1. Leads(a, begin, x, x)
      BY LeadsStart DEF begin
    <2>2. Leads(a, Node("research", "researcher", s1), x, x)
      BY <1>4, <1>5, QuietNode DEF s1
    <2>3. Leads(a, Node("synthesize", "writer", s2), x, x)
      BY <1>4, <1>5, QuietNode DEF s2
    <2>4. QED  BY <2>1, <2>2, <2>3 DEF s1, s2
  <1> DEFINE y == Stage(NoNode, TRUE, FALSE)
             z == Stage(NoNode, TRUE, TRUE)
  <1>7. Leads(a, << o >>, x, y)
    BY LeadsFinish
  <1>8. Leads(a, << v >>, y, z)
    <2>1. Leads(a, << v >>, y, Stage(NoNode, TRUE, FALSE \/ TRUE))
      BY LeadsValidate
    <2>2. (FALSE \/ TRUE) = TRUE
      OBVIOUS
    <2>3. QED  BY <2>1, <2>2
  <1>9. Leads(a, << d >>, z, z)
    BY LeadsFinish
  <1> HIDE DEF begin, r, w, o, v, d, x, y, z
  <1>10. Leads(a, << o, v, d >>, x, z)
    BY <1>7, <1>8, <1>9, LeadsThree
  <1>11. Leads(a, begin \o r, x, x)
    BY <1>6, LeadsOn
  <1>12. Leads(a, begin \o r \o w, x, x)
    BY <1>6, <1>11, LeadsOn
  <1>13. Leads(a, begin \o r \o w \o << o, v, d >>, x, z)
    BY <1>10, <1>12, LeadsOn
  <1>14. Leads(a, Langgraph.main, Stage(NoNode, FALSE, FALSE), Stage(NoNode, TRUE, TRUE))
    BY <1>1, <1>13 DEF x, z
  <1>15. QED  BY <1>1, <1>14, Handlers DEF Sound

\* The OpenAI agent example.
LEMMA OpenAISound ==
    ASSUME NEW s
    PROVE  Sound("openai", OpenAI(s))
  <1> DEFINE a == "openai"
             n == [step |-> "research", agent |-> "researcher"]
             k == [step |-> "synthesize", agent |-> "writer"]
             i1 == Attach("research", "researcher", Slices(<< <<"top_llm_providers">> >>, 0, 0))
             i2 == Tool("research", "researcher",
                        Scoped("list_competitors", <<"market", "AI", "models">>, "public", 500))
             i3 == [Do("model", "synthesize", "writer") EXCEPT !.may = TRUE,
                       !.req = Asking("gpt-4o", <<"list", "the", "top">>, 300)]
             begin == << Do("start", "", "") >>
             r == Node("research", "researcher", << i1, i2 >>)
             w == Node("synthesize", "writer", << i3 >>)
             met == s = "success"
             v == Validate(met)
             d == Finish("pass")
             x == Stage(NoNode, FALSE, FALSE)
  <1>1. /\ OpenAI(s).main = begin \o r \o w \o << v, d >>
        /\ OpenAI(s).handler = << Finish("error") >>
    BY DEF OpenAI
  <1>5. /\ "research" \in Steps /\ "researcher" \in Agents
        /\ "synthesize" \in Steps /\ "writer" \in Agents
    BY DEF Steps, Agents
  <1>2. Inside(i1, n) /\ Inside(i2, n)
    <2>1. i1.op = "context" /\ i2.op = "tool" /\ PlaceOf(i2) = n
      BY Constructors
    <2>2. Proper(i1) /\ Proper(i2)
      <3> DEFINE q == Scoped("list_competitors", <<"market", "AI", "models">>, "public", 500)
      <3>1. q.cost = 500
        BY DEF Scoped, Calling
      <3> HIDE DEF q
      <3>5. q.cost \in Nat /\ "research" # "" /\ "researcher" # ""
        BY <3>1
      <3>2. Proper(Tool("research", "researcher", q))
        BY <3>5, ToolProper
      <3>3. Proper(i1)
        BY DEF Attach, Do, Proper, CallOps
      <3>4. QED  BY <3>2, <3>3 DEF q
    <2> HIDE DEF i1, i2, n
    <2>3. QED  BY <2>1, <2>2 DEF Inside, CallOps
  <1>3. Inside(i3, k)
    <2>1. i3.op = "model" /\ i3.step = "synthesize" /\ i3.agent = "writer"
      BY DEF Do
    <2>2. i3.req = Asking("gpt-4o", <<"list", "the", "top">>, 300)
      BY DEF Do
    <2>3. i3.req.cost \in Nat
      BY <2>2, Priced
    <2> HIDE DEF i3
    <2>4. QED  BY <2>1, <2>3 DEF Inside, CallOps, PlaceOf, Proper
  <1> HIDE DEF i1, i2, i3
  <1>4. Stays(a, << i1, i2 >>, Stage(n, FALSE, FALSE)) /\ Stays(a, << i3 >>, Stage(k, FALSE, FALSE))
    <2> HIDE DEF n, k, a
    <2>1. QED  BY <1>2, <1>3, <1>5, InsideRow DEF n, k, Within
  <1>6. Leads(a, begin, x, x) /\ Leads(a, r, x, x) /\ Leads(a, w, x, x)
    <2> DEFINE s1 == << i1, i2 >>
               s2 == << i3 >>
    <2> HIDE DEF begin, s1, s2
    <2>1. Leads(a, begin, x, x)
      BY LeadsStart DEF begin
    <2>2. Leads(a, Node("research", "researcher", s1), x, x)
      BY <1>4, <1>5, QuietNode DEF s1
    <2>3. Leads(a, Node("synthesize", "writer", s2), x, x)
      BY <1>4, <1>5, QuietNode DEF s2
    <2>4. QED  BY <2>1, <2>2, <2>3 DEF s1, s2
  <1> DEFINE y == Stage(NoNode, FALSE, met)
             z == Stage(NoNode, TRUE, met)
  <1>7. met \in BOOLEAN
    OBVIOUS
  <1> HIDE DEF met
  <1>8. Leads(a, << v >>, x, y)
    <2>1. Leads(a, << v >>, x, Stage(NoNode, FALSE, FALSE \/ met))
      BY <1>7, LeadsValidate
    <2>2. (FALSE \/ met) = met
      BY <1>7
    <2>3. QED  BY <2>1, <2>2
  <1>9. Leads(a, << d >>, y, z)
    <2>1. a \notin Judging
      BY DEF Judging
    <2>2. QED  BY <1>7, <2>1, LeadsFinish
  <1> HIDE DEF begin, r, w, v, d, x, y, z
  <1>10. Leads(a, << v, d >>, x, z)
    BY <1>8, <1>9, LeadsTwo
  <1>11. Leads(a, begin \o r, x, x)
    BY <1>6, LeadsOn
  <1>12. Leads(a, begin \o r \o w, x, x)
    BY <1>6, <1>11, LeadsOn
  <1>13. Leads(a, begin \o r \o w \o << v, d >>, x, z)
    BY <1>10, <1>12, LeadsOn
  <1>14. Leads(a, OpenAI(s).main, Stage(NoNode, FALSE, FALSE), Stage(NoNode, TRUE, met))
    BY <1>1, <1>13 DEF x, z
  <1>15. QED  BY <1>1, <1>7, <1>14, Handlers DEF Sound

\* The real-world example.
LEMMA RealWorldSound ==
    ASSUME NEW s, NEW f
    PROVE  Sound("real_world", RealWorld(s, f))
  <1> DEFINE a == "real_world"
             n == [step |-> "research", agent |-> "researcher"]
             call(tool, input, scope) ==
                 Risky("research", "researcher", Scoped(tool, input, scope, 2000))
             i1 == Attach("research", "researcher", Slices(<< <<"search", "competitors", "for">> >>, 0, 0))
             search == call("search_competitors", <<"query", "observability">>, "user-A")
             again == call("search_competitors", <<"query", "observability", "2026">>, "user-A")
             one == call("fetch_source", <<"id", "s1">>, "user-A")
             two == call("fetch_source", <<"id", "s1">>, "user-B")
             recall == Do("recall", "research", "researcher")
             begin == << Do("start", "", "") >>
             b1 == IF f.plan THEN << i1 >> ELSE << >>
             b2 == << search, search, again, one, two >>
             b3 == IF f.memory THEN << recall >> ELSE << >>
             met == s = "success"
             v == Validate(met)
             d == Finish(IF met THEN "pass" ELSE "fail")
             x == Stage(n, FALSE, FALSE)
  <1>1. /\ RealWorld(s, f).main = begin \o Node("research", "researcher", b1 \o b2 \o b3 \o << v, d >>)
        /\ RealWorld(s, f).handler = << >> /\ RealWorld(s, f).catches = {}
    <2>1. RealWorld(s, f).main = begin \o Node("research", "researcher", b1 \o b2 \o b3 \o << v, d >>)
      BY DEF RealWorld
    <2>2. RealWorld(s, f).handler = << >>
      BY DEF RealWorld
    <2>3. RealWorld(s, f).catches = {}
      BY DEF RealWorld
    <2>4. QED  BY <2>1, <2>2, <2>3
  <1>0. "research" \in Steps /\ "researcher" \in Agents /\ n \in Places
    BY DEF Steps, Agents, Places
  <1>2. Inside(i1, n) /\ Inside(recall, n)
    <2>1. i1.op = "context" /\ recall.op = "recall"
      BY Constructors
    <2>2. Proper(i1) /\ Proper(recall)
      BY ProperMade DEF CallOps
    <2> HIDE DEF i1, recall, n
    <2>3. QED  BY <2>1, <2>2 DEF Inside
  <1>3. Inside(search, n) /\ Inside(again, n) /\ Inside(one, n) /\ Inside(two, n)
    <2>1. /\ search.op = "tool" /\ PlaceOf(search) = n /\ again.op = "tool" /\ PlaceOf(again) = n
          /\ one.op = "tool" /\ PlaceOf(one) = n /\ two.op = "tool" /\ PlaceOf(two) = n
      BY Constructors
    <2>2. Proper(search) /\ Proper(again) /\ Proper(one) /\ Proper(two)
      <3>1. ASSUME NEW tool, NEW input, NEW scope
            PROVE  Proper(Risky("research", "researcher", Scoped(tool, input, scope, 2000)))
        <4> DEFINE q == Scoped(tool, input, scope, 2000)
        <4>1. q.cost = 2000
          BY DEF Scoped, Calling
        <4> HIDE DEF q
        <4>5. q.cost \in Nat /\ "research" # "" /\ "researcher" # ""
          BY <4>1
        <4>2. Proper(Risky("research", "researcher", q))
          BY <4>5, ToolProper
        <4>3. QED  BY <4>2 DEF q
      <3>2. QED  BY <3>1
    <2> HIDE DEF search, again, one, two, n
    <2>3. QED  BY <2>1, <2>2 DEF Inside, CallOps
  <1> HIDE DEF i1, search, again, one, two, recall
  <1>4. Stays(a, b1, x) /\ Stays(a, b3, x)
    <2>1. Stays(a, << i1 >>, x) /\ Stays(a, << recall >>, x) /\ Stays(a, << >>, x)
      <3> HIDE DEF n, a
      <3>1. QED  BY <1>0, <1>2, InsideRow DEF n, Within
    <2>2. QED  BY <2>1
  <1>5. Stays(a, b2, x)
    <2> DEFINE A == {search, again, one, two}
    <2>1. b2 \in Seq(A)
      OBVIOUS
    <2>2. \A i \in A : Inside(i, n)
      BY <1>3
    <2> HIDE DEF b2, A, n, a
    <2>3. \A k \in 1 .. Len(b2) : b2[k] \in A
      BY <2>1
    <2>4. IsSeq(b2)
      BY <2>1 DEF IsSeq
    <2>5. \A k \in 1 .. Len(b2) : Allowed(a, b2[k], x) /\ Moved(b2[k], x) = x
      BY <1>0, <2>2, <2>3, InsideStays
    <2>6. QED  BY <2>4, <2>5 DEF Stays
  <1>6. Leads(a, b1, x, x) /\ Leads(a, b2, x, x) /\ Leads(a, b3, x, x)
    <2> HIDE DEF b1, b2, b3, x
    <2>1. QED  BY <1>4, <1>5, StaysLeads
  <1>7. met \in BOOLEAN
    OBVIOUS
  <1> HIDE DEF met, n
  <1> DEFINE y == Stage(n, FALSE, met)
             z == Stage(n, TRUE, met)
  <1>8. Leads(a, << v >>, x, y)
    <2>1. Leads(a, << v >>, x, Stage(n, FALSE, FALSE \/ met))
      BY <1>7, LeadsValidate
    <2>2. (FALSE \/ met) = met
      BY <1>7
    <2>3. QED  BY <2>1, <2>2
  <1>9. Leads(a, << d >>, y, z)
    <2>1. (IF met THEN "pass" ELSE "fail") = "pass" => met
      OBVIOUS
    <2>2. QED  BY <1>7, <2>1, LeadsFinish
  <1> HIDE DEF b1, b2, b3, v, d, x, y, z
  <1>10. Leads(a, << v, d >>, x, z)
    BY <1>8, <1>9, LeadsTwo
  <1>11. Leads(a, b1 \o b2, x, x)
    BY <1>6, LeadsOn
  <1>12. Leads(a, b1 \o b2 \o b3, x, x)
    BY <1>6, <1>11, LeadsOn
  <1> DEFINE body == b1 \o b2 \o b3 \o << v, d >>
  <1>13. Leads(a, body, x, z)
    BY <1>10, <1>12, LeadsOn
  <1> HIDE DEF body
  <1>14. Leads(a, Node("research", "researcher", body), Stage(NoNode, FALSE, FALSE), Stage(NoNode, TRUE, met))
    <2>1. "research" \in Steps /\ "researcher" \in Agents
      BY <1>0
    <2>2. Leads(a, body, Stage([step |-> "research", agent |-> "researcher"], FALSE, FALSE),
                         Stage([step |-> "research", agent |-> "researcher"], TRUE, met))
      BY <1>13 DEF x, z, n
    <2>3. TRUE \in BOOLEAN /\ FALSE \in BOOLEAN
      OBVIOUS
    <2>4. QED  BY <1>7, <2>1, <2>2, <2>3, NodeLeads
  <1>15. Leads(a, begin, Stage(NoNode, FALSE, FALSE), Stage(NoNode, FALSE, FALSE))
    BY LeadsStart
  <1> HIDE DEF begin
  <1>16. Leads(a, begin \o Node("research", "researcher", body),
               Stage(NoNode, FALSE, FALSE), Stage(NoNode, TRUE, met))
    BY <1>14, <1>15, LeadsOn
  <1>17. Leads(a, RealWorld(s, f).main, Stage(NoNode, FALSE, FALSE), Stage(NoNode, TRUE, met))
    BY <1>1, <1>16 DEF body
  <1> DEFINE program == RealWorld(s, f)
  <1>18. Len(program.handler) = 0 /\ program.catches = {}
    BY <1>1, SeqNone
  <1>19. Leads(a, program.main, Stage(NoNode, FALSE, FALSE), Stage(NoNode, TRUE, met))
    BY <1>17
  <1> HIDE DEF program
  <1>20. \A k \in 1 .. Len(program.handler) : FALSE
    BY <1>18
  <1>21. Sound(a, program)
    BY <1>7, <1>18, <1>19, <1>20 DEF Sound
  <1>22. QED  BY <1>21 DEF program

\* InstrumentedAgent.run of the generic adapter.
LEMMA GenericSound ==
    ASSUME NEW s
    PROVE  Sound("generic", Generic(s))
  <1> DEFINE a == "generic"
             call == Risky("work", "agent", Scoped("lookup", <<"key", "value">>, "default", 2000))
             begin == << Do("start", "", "") >>
             body == IF s = "success" THEN << call >> ELSE << call, call, call >>
             d == Finish("pass")
             x == Stage(NoNode, FALSE, FALSE)
             z == Stage(NoNode, TRUE, FALSE)
  <1>1. /\ Generic(s).main = begin \o body \o << d >>
        /\ Generic(s).handler = << Finish("error") >>
    BY DEF Generic
  <1>2. call.op = "tool" /\ Proper(call)
    <2> DEFINE q == Scoped("lookup", <<"key", "value">>, "default", 2000)
    <2>1. q.cost = 2000
      BY DEF Scoped, Calling
    <2> HIDE DEF q
    <2>5. q.cost \in Nat /\ "work" # "" /\ "agent" # ""
      BY <2>1
    <2>2. Proper(Risky("work", "agent", q))
      BY <2>5, ToolProper
    <2>3. Risky("work", "agent", q).op = "tool"
      BY Constructors
    <2>4. QED  BY <2>2, <2>3 DEF q
  <1> HIDE DEF call
  <1>3. Allowed(a, call, x) /\ Moved(call, x) = x
    BY <1>2 DEF Allowed, Moved, Stage, CallOps
  <1> HIDE DEF x
  <1>4. Leads(a, << call >>, x, x)
    <2>1. Leads(a, << call >>, x, Moved(call, x))
      BY <1>3, LeadsOne
    <2>2. QED  BY <1>3, <2>1
  <1>5. Leads(a, << call, call, call >>, x, x)
    BY <1>4, LeadsThree
  <1>6. Leads(a, body, x, x)
    BY <1>4, <1>5
  <1>7. Leads(a, << d >>, x, z)
    <2>1. a \notin Judging
      BY DEF Judging
    <2>2. QED  BY <2>1, LeadsFinish DEF x
  <1>8. Leads(a, begin, x, x)
    BY LeadsStart DEF x
  <1> HIDE DEF begin, body, d, z
  <1>9. Leads(a, begin \o body, x, x)
    BY <1>6, <1>8, LeadsOn
  <1>10. Leads(a, begin \o body \o << d >>, x, z)
    BY <1>7, <1>9, LeadsOn
  <1>11. Leads(a, Generic(s).main, Stage(NoNode, FALSE, FALSE), Stage(NoNode, TRUE, FALSE))
    BY <1>1, <1>10 DEF x, z
  <1>12. QED  BY <1>1, <1>11, Handlers DEF Sound

\* Of every application, scenario and flag.
LEMMA ProgramSound ==
    ASSUME NEW a, a \in Apps, NEW s, NEW f
    PROVE  Sound(a, Program(a, s, f))
  <1>1. a \in {"cited", "langgraph", "openai", "real_world", "generic"}
    BY WorkflowAssumption
  <1>2. /\ a = "cited" => Program(a, s, f) = Cited(s, f)
        /\ a = "langgraph" => Program(a, s, f) = Langgraph
        /\ a = "openai" => Program(a, s, f) = OpenAI(s)
        /\ a = "real_world" => Program(a, s, f) = RealWorld(s, f)
        /\ a = "generic" => Program(a, s, f) = Generic(s)
    BY DEF Program
  <1>3. QED  BY <1>1, <1>2, CitedSound, LanggraphSound, OpenAISound, RealWorldSound, GenericSound

-----------------------------------------------------------------------------
(* Traces: the parts NodesClosed and VerdictsEarned are made of.           *)

\* Where nodes are entered and left, and what the last of those marks before
\* position i says.
Marks(t) == {i \in DOMAIN t : t[i].type \in {"agent.started", "agent.finished"}}
Upto(t, i) == {j \in Marks(t) : j < i}
LastMark(t, i) == Max(Upto(t, i))
Opened(t, i) == Upto(t, i) # {} /\ t[LastMark(t, i)].type = "agent.started"
By(t, m, n) == t[m].step = n.step /\ t[m].agent = n.agent

\* Each node is left once and no two overlap,
Bracketed(t) ==
    \A i \in Marks(t) : IF t[i].type = "agent.started" THEN ~Opened(t, i)
                        ELSE Opened(t, i) /\ By(t, LastMark(t, i), t[i])

\* each call is made in its node,
InPlace(t) ==
    \A i \in DOMAIN t : t[i].type \in CallEvents => Opened(t, i) /\ By(t, LastMark(t, i), t[i])

\* and this one is open now.
NodeIs(t, n) ==
    LET i == Len(t) + 1
    IN  IF n = NoNode THEN ~Opened(t, i) ELSE Opened(t, i) /\ By(t, LastMark(t, i), n)

\* A verdict, and a validation that passed.
Says(t, i) == t[i].type = "run.completed"
Passes(t, i) == t[i].type = "validation.completed" /\ t[i].status = "pass"
Judged(t) == \E i \in DOMAIN t : Says(t, i)
Passed(t) == \E i \in DOMAIN t : Passes(t, i)

\* Verdicts come after the calls and, where there is a validation, after it.
Verdicts(t, a) ==
    \A i \in DOMAIN t :
        Says(t, i) =>
            /\ \A j \in i .. Len(t) : t[j].type \notin CallEvents
            /\ t[i].status = "pass" /\ a \in Judging => \E k \in 1 .. i : Passes(t, k)

\* No verdict but "error".
AllErrors(t) == \A i \in DOMAIN t : Says(t, i) => t[i].status = "error"

\* u is t with something after it.
Grown(t, u) ==
    /\ IsSeq(t) /\ IsSeq(u) /\ Len(t) <= Len(u)
    /\ \A k \in 1 .. Len(t) : u[k] = t[k]

\* The positions of what was added.
New(t, u) == Len(t) + 1 .. Len(u)

\* Max of a set of positions is its greatest member.
LEMMA MaxIn ==
    ASSUME NEW n \in Nat, NEW T \in SUBSET (1 .. n), T # {}
    PROVE  Max(T) \in T /\ \A k \in T : k <= Max(T)
  <1> DEFINE U == {n - k : k \in T}
  <1>1. U \in SUBSET Nat /\ U # {}
    <2>1. \A k \in T : k \in 1 .. n /\ n - k \in Nat
      OBVIOUS
    <2>2. PICK k \in T : TRUE
      OBVIOUS
    <2>3. n - k \in U
      OBVIOUS
    <2>4. \A m \in U : m \in Nat
      BY <2>1
    <2> HIDE DEF U
    <2>5. QED  BY <2>3, <2>4
  <1>2. PICK m \in U : \A k \in U : m <= k
    <2> HIDE DEF U
    <2>1. QED  BY <1>1, Least
  <1>3. PICK x \in T : m = n - x
    BY <1>2
  <1>4. \A k \in T : k <= x
    <2> TAKE k \in T
    <2>1. n - k \in U /\ k \in 1 .. n /\ x \in 1 .. n
      OBVIOUS
    <2>2. n - x <= n - k
      BY <1>2, <1>3, <2>1
    <2>3. QED  BY <2>1, <2>2
  <1>5. \A k \in T : x >= k
    <2> TAKE k \in T
    <2>1. k \in 1 .. n /\ x \in 1 .. n /\ k <= x
      BY <1>4
    <2>2. QED  BY <2>1
  <1>6. Max(T) \in T /\ \A k \in T : Max(T) >= k
    <2> DEFINE y == CHOOSE z \in T : \A k \in T : z >= k
    <2>1. y \in T /\ \A k \in T : y >= k
      BY <1>5, Zenon
    <2>2. QED  BY <2>1 DEF Max
  <1> DEFINE y == Max(T)
  <1> HIDE DEF y
  <1>7. \A k \in T : k <= y
    <2> TAKE k \in T
    <2>1. y \in 1 .. n /\ k \in 1 .. n /\ y >= k
      BY <1>6 DEF y
    <2>2. QED  BY <2>1
  <1>8. QED  BY <1>6, <1>7 DEF y

\* The last mark, found.
LEMMA LastIs ==
    ASSUME NEW t, IsSeq(t), NEW i, NEW m \in Upto(t, i), \A j \in Upto(t, i) : j <= m
    PROVE  LastMark(t, i) = m
  <1> DEFINE T == Upto(t, i)
  <1>1. Len(t) \in Nat /\ T \in SUBSET (1 .. Len(t)) /\ T # {}
    BY SeqShape DEF Upto, Marks
  <1> HIDE DEF T
  <1>2. Max(T) \in T /\ \A k \in T : k <= Max(T)
    BY <1>1, MaxIn
  <1> DEFINE y == Max(T)
  <1> HIDE DEF y
  <1>3. m \in T /\ y \in T /\ m <= y /\ y <= m
    BY <1>2 DEF T, y
  <1>4. m \in 1 .. Len(t) /\ y \in 1 .. Len(t)
    BY <1>1, <1>3
  <1>5. m = y
    BY <1>3, <1>4
  <1>6. QED  BY <1>5 DEF LastMark, T, y

\* The last mark, where there is one.
LEMMA LastIn ==
    ASSUME NEW t, IsSeq(t), NEW i, Upto(t, i) # {}
    PROVE  LastMark(t, i) \in Upto(t, i) /\ LastMark(t, i) \in 1 .. Len(t)
  <1> DEFINE T == Upto(t, i)
  <1>1. Len(t) \in Nat /\ T \in SUBSET (1 .. Len(t)) /\ T # {}
    BY SeqShape DEF Upto, Marks
  <1> HIDE DEF T
  <1>2. Max(T) \in T
    BY <1>1, MaxIn
  <1>3. QED  BY <1>1, <1>2 DEF LastMark, T

\* What has been written stays as it is.
LEMMA GrownPast ==
    ASSUME NEW t, NEW u, Grown(t, u), NEW i \in 1 .. Len(t) + 1
    PROVE  /\ Upto(u, i) = Upto(t, i) /\ LastMark(u, i) = LastMark(t, i)
           /\ Opened(u, i) <=> Opened(t, i)
           /\ \A n : Opened(t, i) => (By(u, LastMark(u, i), n) <=> By(t, LastMark(t, i), n))
  <1>1. /\ Len(t) \in Nat /\ Len(u) \in Nat /\ Len(t) <= Len(u)
        /\ DOMAIN t = 1 .. Len(t) /\ DOMAIN u = 1 .. Len(u)
        /\ \A k \in 1 .. Len(t) : u[k] = t[k]
    BY SeqShape DEF Grown
  <1>2. Upto(u, i) = Upto(t, i)
    <2>1. ASSUME NEW j
          PROVE  j \in Upto(u, i) <=> j \in Upto(t, i)
      <3>1. j \in 1 .. Len(u) /\ j < i <=> j \in 1 .. Len(t) /\ j < i
        BY <1>1
      <3>2. QED  BY <1>1, <3>1 DEF Upto, Marks
    <2>2. QED  BY <2>1
  <1>3. LastMark(u, i) = LastMark(t, i)
    BY <1>2 DEF LastMark
  <1>4. Upto(t, i) # {} => u[LastMark(t, i)] = t[LastMark(t, i)]
    BY <1>1, LastIn DEF Grown
  <1>5. QED  BY <1>2, <1>3, <1>4 DEF Opened, By

\* Nothing marked since.
LEMMA Unmarked ==
    ASSUME NEW t, NEW u, Grown(t, u), \A k \in New(t, u) : k \notin Marks(u),
           NEW i \in Len(t) + 1 .. Len(u) + 1
    PROVE  /\ Opened(u, i) <=> Opened(t, Len(t) + 1)
           /\ \A n : Opened(u, i) =>
                  (By(u, LastMark(u, i), n) <=> By(t, LastMark(t, Len(t) + 1), n))
  <1>1. /\ Len(t) \in Nat /\ Len(u) \in Nat /\ Len(t) <= Len(u)
        /\ DOMAIN u = 1 .. Len(u)
    BY SeqShape DEF Grown
  <1> DEFINE l == Len(t) + 1
  <1>2. l \in 1 .. l
    BY <1>1
  <1>3. Upto(u, i) = Upto(u, l)
    <2>1. ASSUME NEW j
          PROVE  j \in Upto(u, i) <=> j \in Upto(u, l)
      <3>1. CASE j \in Marks(u)
        <4>1. j \in 1 .. Len(u) /\ j \notin New(t, u)
          BY <1>1, <3>1 DEF Marks
        <4>2. j \in 1 .. Len(t)
          BY <1>1, <4>1 DEF New
        <4>3. j < i /\ j < l
          BY <1>1, <4>2
        <4>4. QED  BY <3>1, <4>3 DEF Upto
      <3>2. CASE j \notin Marks(u)
        BY <3>2 DEF Upto
      <3>3. QED  BY <3>1, <3>2
    <2>2. QED  BY <2>1
  <1>4. /\ Upto(u, l) = Upto(t, l) /\ LastMark(u, l) = LastMark(t, l)
        /\ Opened(u, l) <=> Opened(t, l)
        /\ \A n : Opened(t, l) => (By(u, LastMark(u, l), n) <=> By(t, LastMark(t, l), n))
    BY <1>2, GrownPast
  <1>5. LastMark(u, i) = LastMark(u, l)
    BY <1>3 DEF LastMark
  <1>6. Opened(u, i) <=> Opened(u, l)
    BY <1>3, <1>5 DEF Opened
  <1>7. QED  BY <1>4, <1>5, <1>6

\* The nodes of the part that was there.
LEMMA NodesPast ==
    ASSUME NEW t, NEW u, Grown(t, u)
    PROVE  /\ Bracketed(t) => \A i \in Marks(u) : i \in 1 .. Len(t) =>
                  IF u[i].type = "agent.started" THEN ~Opened(u, i)
                  ELSE Opened(u, i) /\ By(u, LastMark(u, i), u[i])
           /\ InPlace(t) => \A i \in 1 .. Len(t) :
                  u[i].type \in CallEvents => Opened(u, i) /\ By(u, LastMark(u, i), u[i])
  <1>1. /\ Len(t) \in Nat /\ Len(u) \in Nat /\ Len(t) <= Len(u)
        /\ DOMAIN t = 1 .. Len(t) /\ DOMAIN u = 1 .. Len(u)
        /\ \A k \in 1 .. Len(t) : u[k] = t[k]
    BY SeqShape DEF Grown
  <1>2. \A i \in 1 .. Len(t) : i \in 1 .. Len(t) + 1
    BY <1>1
  <1>3. \A i \in 1 .. Len(t) :
            /\ Opened(u, i) <=> Opened(t, i)
            /\ Opened(t, i) => (By(u, LastMark(u, i), t[i]) <=> By(t, LastMark(t, i), t[i]))
    BY <1>2, GrownPast
  <1>4. \A i \in 1 .. Len(t) : i \in Marks(u) <=> i \in Marks(t)
    BY <1>1 DEF Marks
  <1>5. QED  BY <1>1, <1>3, <1>4 DEF Bracketed, InPlace

\* Something is added inside the node, or outside all of them,
LEMMA NodesQuiet ==
    ASSUME NEW t, NEW u, NEW n, Grown(t, u), \A k \in New(t, u) : k \notin Marks(u),
           Bracketed(t), NodeIs(t, n)
    PROVE  /\ Bracketed(u) /\ NodeIs(u, n)
           /\ InPlace(t) /\ (\A k \in New(t, u) :
                                 u[k].type \in CallEvents => n # NoNode /\ By(u, k, n))
                  => InPlace(u)
  <1>1. /\ Len(t) \in Nat /\ Len(u) \in Nat /\ Len(t) <= Len(u)
        /\ DOMAIN t = 1 .. Len(t) /\ DOMAIN u = 1 .. Len(u)
        /\ \A k \in 1 .. Len(t) : u[k] = t[k]
    BY SeqShape DEF Grown
  <1>2. \A i \in 1 .. Len(u) : i \in 1 .. Len(t) \/ i \in New(t, u)
    BY <1>1 DEF New
  <1>3. \A i \in New(t, u) : i \in Len(t) + 1 .. Len(u) + 1
    BY <1>1 DEF New
  <1>4. Len(u) + 1 \in Len(t) + 1 .. Len(u) + 1
    BY <1>1
  <1>5. Bracketed(u)
    <2>1. \A i \in Marks(u) : i \in 1 .. Len(t)
      BY <1>1, <1>2 DEF Marks
    <2>2. QED  BY <2>1, NodesPast DEF Bracketed
  <1>6. NodeIs(u, n)
    BY <1>4, Unmarked DEF NodeIs
  <1>7. ASSUME InPlace(t), \A k \in New(t, u) : u[k].type \in CallEvents => n # NoNode /\ By(u, k, n)
        PROVE  InPlace(u)
    <2>1. ASSUME NEW i \in New(t, u), u[i].type \in CallEvents
          PROVE  Opened(u, i) /\ By(u, LastMark(u, i), u[i])
      <3>1. n # NoNode /\ By(u, i, n)
        BY <1>7, <2>1
      <3>2. Opened(t, Len(t) + 1) /\ By(t, LastMark(t, Len(t) + 1), n)
        BY <3>1 DEF NodeIs
      <3>3. Opened(u, i) /\ By(u, LastMark(u, i), n)
        BY <1>3, <3>2, Unmarked
      <3>4. QED  BY <3>1, <3>3 DEF By
    <2>2. QED  BY <1>1, <1>2, <1>7, <2>1, NodesPast DEF InPlace
  <1>8. QED  BY <1>5, <1>6, <1>7

\* a node is entered,
LEMMA NodesOpen ==
    ASSUME NEW t, NEW u, NEW n, Grown(t, u), Len(u) = Len(t) + 1,
           u[Len(u)].type = "agent.started", By(u, Len(u), n), n # NoNode,
           Bracketed(t), NodeIs(t, NoNode)
    PROVE  Bracketed(u) /\ NodeIs(u, n) /\ (InPlace(t) => InPlace(u))
  <1> DEFINE l == Len(u)
  <1>1. /\ Len(t) \in Nat /\ l \in Nat /\ l = Len(t) + 1
        /\ DOMAIN t = 1 .. Len(t) /\ DOMAIN u = 1 .. l
    BY SeqShape DEF Grown
  <1>2. \A i \in 1 .. l : i \in 1 .. Len(t) \/ i = l
    BY <1>1
  <1>3. l \in 1 .. Len(t) + 1 /\ l \in 1 .. l
    BY <1>1
  <1>4. ~Opened(t, l)
    BY <1>1 DEF NodeIs
  <1>5. ~Opened(u, l)
    BY <1>3, <1>4, GrownPast
  <1> HIDE DEF l
  <1>6. u[l].type = "agent.started" /\ u[l].type \notin CallEvents /\ By(u, l, n)
    BY DEF l, CallEvents
  <1>7. Bracketed(u)
    <2>1. \A i \in Marks(u) : i \in 1 .. Len(t) \/ i = l
      BY <1>1, <1>2 DEF Marks
    <2>2. QED  BY <1>5, <1>6, <2>1, NodesPast DEF Bracketed
  <1>8. InPlace(t) => InPlace(u)
    BY <1>1, <1>2, <1>6, NodesPast DEF InPlace
  <1>9. l \in Upto(u, l + 1) /\ \A j \in Upto(u, l + 1) : j <= l
    BY <1>1, <1>3, <1>6 DEF Upto, Marks
  <1>10. LastMark(u, l + 1) = l
    BY <1>9, LastIs DEF Grown
  <1>11. Opened(u, l + 1) /\ By(u, LastMark(u, l + 1), n)
    BY <1>6, <1>9, <1>10 DEF Opened
  <1>12. QED  BY <1>7, <1>8, <1>11 DEF NodeIs, l

\* the node is left.
LEMMA NodesClose ==
    ASSUME NEW t, NEW u, NEW n, Grown(t, u), Len(u) = Len(t) + 1,
           u[Len(u)].type = "agent.finished", By(u, Len(u), n), n # NoNode,
           Bracketed(t), NodeIs(t, n)
    PROVE  Bracketed(u) /\ NodeIs(u, NoNode) /\ (InPlace(t) => InPlace(u))
  <1> DEFINE l == Len(u)
  <1>1. /\ Len(t) \in Nat /\ l \in Nat /\ l = Len(t) + 1
        /\ DOMAIN t = 1 .. Len(t) /\ DOMAIN u = 1 .. l
    BY SeqShape DEF Grown
  <1>2. \A i \in 1 .. l : i \in 1 .. Len(t) \/ i = l
    BY <1>1
  <1>3. l \in 1 .. Len(t) + 1 /\ l \in 1 .. l
    BY <1>1
  <1>4. Opened(t, l) /\ By(t, LastMark(t, l), n)
    BY <1>1 DEF NodeIs
  <1>5. Opened(u, l) /\ By(u, LastMark(u, l), n)
    BY <1>3, <1>4, GrownPast
  <1> HIDE DEF l
  <1>6. u[l].type = "agent.finished" /\ u[l].type \notin CallEvents /\ By(u, l, n)
    BY DEF l, CallEvents
  <1>7. Bracketed(u)
    <2>1. \A i \in Marks(u) : i \in 1 .. Len(t) \/ i = l
      BY <1>1, <1>2 DEF Marks
    <2>2. By(u, LastMark(u, l), u[l])
      BY <1>5, <1>6 DEF By
    <2>3. QED  BY <1>5, <1>6, <2>1, <2>2, NodesPast DEF Bracketed
  <1>8. InPlace(t) => InPlace(u)
    BY <1>1, <1>2, <1>6, NodesPast DEF InPlace
  <1>9. l \in Upto(u, l + 1) /\ \A j \in Upto(u, l + 1) : j <= l
    BY <1>1, <1>3, <1>6 DEF Upto, Marks
  <1>10. LastMark(u, l + 1) = l
    BY <1>9, LastIs DEF Grown
  <1>11. ~Opened(u, l + 1)
    BY <1>6, <1>10 DEF Opened
  <1>12. QED  BY <1>7, <1>8, <1>11 DEF NodeIs, l

\* What is said in the part that was there and after it.
LEMMA SaidIn ==
    ASSUME NEW t, NEW u, Grown(t, u)
    PROVE  /\ Judged(u) <=> Judged(t) \/ \E k \in New(t, u) : Says(u, k)
           /\ Passed(u) <=> Passed(t) \/ \E k \in New(t, u) : Passes(u, k)
           /\ AllErrors(t) /\ (\A k \in New(t, u) : Says(u, k) => u[k].status = "error")
                  => AllErrors(u)
  <1>1. /\ Len(t) \in Nat /\ Len(u) \in Nat /\ Len(t) <= Len(u)
        /\ DOMAIN t = 1 .. Len(t) /\ DOMAIN u = 1 .. Len(u)
        /\ \A k \in 1 .. Len(t) : u[k] = t[k]
    BY SeqShape DEF Grown
  <1>2. \A i : i \in 1 .. Len(u) <=> i \in 1 .. Len(t) \/ i \in New(t, u)
    BY <1>1 DEF New
  <1>3. \A k \in 1 .. Len(t) : (Says(u, k) <=> Says(t, k)) /\ (Passes(u, k) <=> Passes(t, k))
    BY <1>1 DEF Says, Passes
  <1>4. Judged(u) <=> Judged(t) \/ \E k \in New(t, u) : Says(u, k)
    BY <1>1, <1>2, <1>3 DEF Judged
  <1>5. Passed(u) <=> Passed(t) \/ \E k \in New(t, u) : Passes(u, k)
    BY <1>1, <1>2, <1>3 DEF Passed
  <1>6. AllErrors(t) /\ (\A k \in New(t, u) : Says(u, k) => u[k].status = "error") => AllErrors(u)
    BY <1>1, <1>2, <1>3 DEF AllErrors
  <1>7. QED  BY <1>4, <1>5, <1>6

\* Calls before the verdict, and a verdict that is earned.
LEMMA VerdictsOn ==
    ASSUME NEW t, NEW u, NEW a, Grown(t, u), Verdicts(t, a),
           \A k \in New(t, u) : u[k].type \in CallEvents => ~Judged(u),
           \A k \in New(t, u) : Says(u, k) /\ u[k].status = "pass" /\ a \in Judging => Passed(t)
    PROVE  Verdicts(u, a)
  <1>1. /\ Len(t) \in Nat /\ Len(u) \in Nat /\ Len(t) <= Len(u)
        /\ DOMAIN t = 1 .. Len(t) /\ DOMAIN u = 1 .. Len(u)
        /\ \A k \in 1 .. Len(t) : u[k] = t[k]
    BY SeqShape DEF Grown
  <1>2. \A i \in 1 .. Len(u) : i \in 1 .. Len(t) \/ i \in New(t, u)
    BY <1>1 DEF New
  <1>3. \A k \in 1 .. Len(t) : (Says(u, k) <=> Says(t, k)) /\ (Passes(u, k) <=> Passes(t, k))
    BY <1>1 DEF Says, Passes
  <1> SUFFICES ASSUME NEW i \in 1 .. Len(u), Says(u, i)
               PROVE  /\ \A j \in i .. Len(u) : u[j].type \notin CallEvents
                      /\ u[i].status = "pass" /\ a \in Judging => \E k \in 1 .. i : Passes(u, k)
    BY <1>1 DEF Verdicts
  <1>4. Judged(u)
    BY <1>1 DEF Judged
  <1>5. ASSUME NEW j \in i .. Len(u)
        PROVE  u[j].type \notin CallEvents
    <2>1. j \in 1 .. Len(u)
      BY <1>1
    <2>2. CASE j \in New(t, u)
      BY <1>4, <2>2
    <2>3. CASE j \in 1 .. Len(t)
      <3>1. i \in 1 .. Len(t) /\ j \in i .. Len(t)
        BY <1>1, <2>3
      <3>2. Says(t, i)
        BY <1>3, <3>1
      <3>3. t[j].type \notin CallEvents
        BY <1>1, <3>1, <3>2 DEF Verdicts
      <3>4. QED  BY <1>1, <2>3, <3>3
    <2>4. QED  BY <1>2, <2>1, <2>2, <2>3
  <1>6. ASSUME u[i].status = "pass", a \in Judging
        PROVE  \E k \in 1 .. i : Passes(u, k)
    <2>1. CASE i \in New(t, u)
      <3>1. Passed(t)
        BY <1>6, <2>1
      <3>2. PICK k \in 1 .. Len(t) : Passes(t, k)
        BY <1>1, <3>1 DEF Passed
      <3>3. k \in 1 .. i
        BY <1>1, <2>1 DEF New
      <3>4. QED  BY <1>3, <3>2, <3>3
    <2>2. CASE i \in 1 .. Len(t)
      <3>1. Says(t, i) /\ t[i].status = "pass"
        BY <1>1, <1>3, <1>6, <2>2
      <3>2. PICK k \in 1 .. i : Passes(t, k)
        BY <1>1, <1>6, <2>2, <3>1 DEF Verdicts
      <3>3. k \in 1 .. Len(t)
        BY <1>1, <2>2
      <3>4. QED  BY <1>3, <3>2, <3>3
    <2>3. QED  BY <1>2, <2>1, <2>2
  <1>7. QED  BY <1>5, <1>6

-----------------------------------------------------------------------------
(* Events with their notes.                                                *)

\* The parts the supervisor gives an event, and those noted beside it.
IsEvent(e) ==
    DOMAIN e = {"type", "tool", "hash", "status", "dup", "cost", "slow", "policy", "action"}

IsNote(n) == DOMAIN n = {"step", "agent", "match", "saved", "label", "context", "counts"}

\* Events es with their notes ns.
TraceOf(es, ns) == [i \in DOMAIN es |-> Noted(es[i], ns[i])]

\* Each event has its note.
IsLog(es, ns) ==
    /\ IsSeq(es) /\ IsSeq(ns) /\ Len(ns) = Len(es)
    /\ \A i \in 1 .. Len(es) : IsEvent(es[i]) /\ IsNote(ns[i])

\* What a noted event keeps of the event and of the note.
LEMMA NotedIs ==
    ASSUME NEW e, NEW n, IsEvent(e), IsNote(n)
    PROVE  /\ Noted(e, n).type = e.type /\ Noted(e, n).status = e.status
           /\ Noted(e, n).step = n.step /\ Noted(e, n).agent = n.agent
  BY DEF Noted, IsEvent, IsNote

\* What the trace of events with their notes is.
LEMMA TraceIs ==
    ASSUME NEW es, NEW ns, IsLog(es, ns)
    PROVE  /\ IsSeq(TraceOf(es, ns)) /\ Len(TraceOf(es, ns)) = Len(es)
           /\ \A i \in 1 .. Len(es) :
                  /\ TraceOf(es, ns)[i] = Noted(es[i], ns[i])
                  /\ TraceOf(es, ns)[i].type = es[i].type
                  /\ TraceOf(es, ns)[i].status = es[i].status
                  /\ TraceOf(es, ns)[i].step = ns[i].step
                  /\ TraceOf(es, ns)[i].agent = ns[i].agent
  <1> DEFINE t == TraceOf(es, ns)
  <1>1. Len(es) \in Nat /\ DOMAIN es = 1 .. Len(es)
    BY SeqShape DEF IsLog
  <1>2. IsSeq(t) /\ Len(t) = Len(es)
    <2> DEFINE f == [i \in 1 .. Len(es) |-> Noted(es[i], ns[i])]
    <2>1. t = [i \in 1 .. Len(es) |-> f[i]]
      BY <1>1 DEF TraceOf
    <2> HIDE DEF f, t
    <2>2. QED  BY <1>1, <2>1, SeqBuild
  <1>3. \A i \in 1 .. Len(es) : t[i] = Noted(es[i], ns[i])
    BY <1>1 DEF TraceOf
  <1> HIDE DEF t
  <1>4. \A i \in 1 .. Len(es) : IsEvent(es[i]) /\ IsNote(ns[i])
    BY DEF IsLog
  <1>5. \A i \in 1 .. Len(es) :
                  /\ t[i].type = es[i].type /\ t[i].status = es[i].status
                  /\ t[i].step = ns[i].step /\ t[i].agent = ns[i].agent
    BY <1>3, <1>4, NotedIs
  <1>6. QED  BY <1>2, <1>3, <1>5 DEF t

\* More events, with a note each.
LEMMA LogGrows ==
    ASSUME NEW es, NEW ns, NEW fs, NEW ms, IsLog(es, ns), IsLog(fs, ms)
    PROVE  /\ IsLog(es \o fs, ns \o ms)
           /\ Grown(TraceOf(es, ns), TraceOf(es \o fs, ns \o ms))
           /\ Len(TraceOf(es, ns)) = Len(es)
           /\ Len(TraceOf(es \o fs, ns \o ms)) = Len(es) + Len(fs)
           /\ \A i \in New(TraceOf(es, ns), TraceOf(es \o fs, ns \o ms)) :
                  \E k \in 1 .. Len(fs) :
                      /\ TraceOf(es \o fs, ns \o ms)[i].type = fs[k].type
                      /\ TraceOf(es \o fs, ns \o ms)[i].status = fs[k].status
                      /\ TraceOf(es \o fs, ns \o ms)[i].step = ms[k].step
                      /\ TraceOf(es \o fs, ns \o ms)[i].agent = ms[k].agent
           /\ \A k \in 1 .. Len(fs) :
                  /\ Len(es) + k \in New(TraceOf(es, ns), TraceOf(es \o fs, ns \o ms))
                  /\ TraceOf(es \o fs, ns \o ms)[Len(es) + k].type = fs[k].type
                  /\ TraceOf(es \o fs, ns \o ms)[Len(es) + k].status = fs[k].status
                  /\ TraceOf(es \o fs, ns \o ms)[Len(es) + k].step = ms[k].step
                  /\ TraceOf(es \o fs, ns \o ms)[Len(es) + k].agent = ms[k].agent
  <1> DEFINE gs == es \o fs
             hs == ns \o ms
             t == TraceOf(es, ns)
             u == TraceOf(gs, hs)
             m == Len(es)
             n == Len(fs)
  <1>1. /\ IsSeq(es) /\ IsSeq(ns) /\ Len(ns) = m /\ IsSeq(fs) /\ IsSeq(ms) /\ Len(ms) = n
        /\ \A i \in 1 .. m : IsEvent(es[i]) /\ IsNote(ns[i])
        /\ \A i \in 1 .. n : IsEvent(fs[i]) /\ IsNote(ms[i])
    BY DEF IsLog
  <1>2. m \in Nat /\ n \in Nat
    BY <1>1, SeqShape
  <1>3. /\ IsSeq(gs) /\ Len(gs) = m + n
        /\ \A i \in 1 .. m : gs[i] = es[i]
        /\ \A i \in 1 .. n : gs[m + i] = fs[i]
    <2>1. IsSeq(es) /\ IsSeq(fs)
      BY <1>1
    <2>2. QED  BY <2>1, SeqJoin
  <1>4. /\ IsSeq(hs) /\ Len(hs) = m + n
        /\ \A i \in 1 .. m : hs[i] = ns[i]
        /\ \A i \in 1 .. n : hs[m + i] = ms[i]
    <2>1. IsSeq(ns) /\ IsSeq(ms)
      BY <1>1
    <2>2. /\ IsSeq(hs) /\ Len(hs) = Len(ns) + Len(ms)
          /\ \A i \in 1 .. Len(ns) : hs[i] = ns[i]
          /\ \A i \in 1 .. Len(ms) : hs[Len(ns) + i] = ms[i]
      BY <2>1, SeqJoin
    <2> HIDE DEF hs, m, n
    <2>3. QED  BY <1>1, <2>2
  <1> HIDE DEF gs, hs, t, u, m, n
  <1>5. \A i \in 1 .. m + n : i \in 1 .. m \/ \E k \in 1 .. n : i = m + k
    <2> TAKE i \in 1 .. m + n
    <2>1. CASE i <= m
      BY <1>2, <2>1
    <2>2. CASE ~ (i <= m)
      <3>1. i - m \in 1 .. n /\ i = m + (i - m)
        BY <1>2, <2>2
      <3>2. QED  BY <3>1
    <2>3. QED  BY <2>1, <2>2
  <1>6. IsLog(gs, hs)
    <2>1. ASSUME NEW i \in 1 .. m + n
          PROVE  IsEvent(gs[i]) /\ IsNote(hs[i])
      <3>1. CASE i \in 1 .. m
        BY <1>1, <1>3, <1>4, <3>1
      <3>2. CASE \E k \in 1 .. n : i = m + k
        BY <1>1, <1>3, <1>4, <3>2
      <3>3. QED  BY <1>5, <3>1, <3>2
    <2>2. QED  BY <1>3, <1>4, <2>1 DEF IsLog
  <1>7. /\ IsSeq(t) /\ Len(t) = m
        /\ \A i \in 1 .. m : t[i] = Noted(es[i], ns[i])
    BY TraceIs DEF t, m
  <1>8. /\ IsSeq(u) /\ Len(u) = m + n
        /\ \A i \in 1 .. m + n :
               /\ u[i] = Noted(gs[i], hs[i])
               /\ u[i].type = gs[i].type /\ u[i].status = gs[i].status
               /\ u[i].step = hs[i].step /\ u[i].agent = hs[i].agent
    BY <1>3, <1>6, TraceIs DEF u
  <1>9. Grown(t, u)
    <2>1. \A i \in 1 .. m : i \in 1 .. m + n
      BY <1>2
    <2>2. \A i \in 1 .. m : u[i] = t[i]
      BY <1>3, <1>4, <1>7, <1>8, <2>1
    <2>3. m <= m + n
      BY <1>2
    <2>4. QED  BY <1>7, <1>8, <2>2, <2>3 DEF Grown
  <1>10. ASSUME NEW k \in 1 .. n
         PROVE  /\ m + k \in New(t, u)
                /\ u[m + k].type = fs[k].type /\ u[m + k].status = fs[k].status
                /\ u[m + k].step = ms[k].step /\ u[m + k].agent = ms[k].agent
    <2>1. m + k \in 1 .. m + n /\ m + k \in New(t, u)
      BY <1>2, <1>7, <1>8 DEF New
    <2>2. gs[m + k] = fs[k] /\ hs[m + k] = ms[k]
      BY <1>3, <1>4
    <2>3. QED  BY <1>8, <2>1, <2>2
  <1>11. ASSUME NEW i \in New(t, u)
         PROVE  \E k \in 1 .. n : /\ u[i].type = fs[k].type /\ u[i].status = fs[k].status
                                  /\ u[i].step = ms[k].step /\ u[i].agent = ms[k].agent
    <2>1. i \in 1 .. m + n /\ i \notin 1 .. m
      BY <1>2, <1>7, <1>8 DEF New
    <2>2. PICK k \in 1 .. n : i = m + k
      BY <1>5, <2>1
    <2>3. QED  BY <1>10, <2>2
  <1>12. QED  BY <1>6, <1>7, <1>8, <1>9, <1>10, <1>11 DEF gs, hs, t, u, m, n

-----------------------------------------------------------------------------
(* The invariant.                                                          *)

\* Where the caller may be, and where it is not inside a call.
Labels == {"idle", "blocked", "lookup", "serve", "execute", "record", "guard",
           "model_serve", "model_execute", "retry_inc", "retry_guard",
           "stopped", "paused"}

Resting == {"idle", "stopped"}

\* The stage that the trace shows.
Now == Stage(node, Judged(Trace), Passed(Trace))

\* The program goes on from here to a verdict.
OnCourse ==
    /\ IsSeq(Code) /\ at \in 1 .. Len(Code) + 1
    /\ \E c : /\ Course(job.app, Code, c)
              /\ c[at] = Now
              /\ c[Len(Code) + 1].judged /\ c[Len(Code) + 1].node = NoNode

\* What a run may look like while it is going on, and however it ends.
FairTrace(t, a) ==
    Bracketed(t) /\ (a # "generic" => InPlace(t)) /\ Verdicts(t, a)

\* A run in progress.
Running ==
    /\ Sound(job.app, ProgramFor(job))
    /\ FairTrace(Trace, job.app) /\ NodeIs(Trace, node)
    /\ Len(past) < MaxRuns
    /\ exc = "none" => OnCourse
    /\ exc # "none" => part = "main" /\ ~Judged(Trace) /\ ~Passed(Trace)
    /\ part = "handler" => ProgramFor(job).catches # {} /\ AllErrors(Trace) /\ ~Passed(Trace)
    /\ pc["app"] \notin Resting =>
           exc = "none" /\ at <= Len(Code) /\ Code[at].op \in CallOps

\* A finished run.
Fair(r) ==
    /\ FairTrace(r.trace, r.app) /\ NodeIs(r.trace, NoNode) /\ IsSeq(r.trace)
    /\ r.part = "handler" \/ r.how = "raised" => AllErrors(r.trace)
    /\ r.how = "returned" => Judged(r.trace)
    /\ Passed(r.trace) => r.part = "main" /\ r.how = "returned"

\* The inductive invariant.
WorkflowInv ==
    /\ TypeOK
    /\ IsLog(events, notes)
    /\ pc \in [{"app"} -> Labels]
    /\ IsSeq(past)
    /\ past # << >> => Fair(Latest)
    /\ job # NoJob => Running

\* The invariant is what the two properties need.
LEMMA FairCloses ==
    ASSUME past # << >> => Fair(Latest)
    PROVE  NodesClosed /\ VerdictsEarned
  <1> SUFFICES ASSUME Ended
               PROVE  NodesClosed /\ VerdictsEarned
    BY DEF NodesClosed, VerdictsEarned
  <1> DEFINE r == Latest
             t == r.trace
  <1>1. Fair(r)
    BY DEF Ended
  <1> HIDE DEF r
  <1>2. IsSeq(t) /\ Len(t) \in Nat /\ DOMAIN t = 1 .. Len(t)
    BY <1>1, SeqShape DEF Fair
  <1>3. NodesClosed
    <2>1. ~Opened(t, Len(t) + 1)
      BY <1>1 DEF Fair, NodeIs
    <2>2. \A i \in Marks(t) : IF t[i].type = "agent.started" THEN ~Opened(t, i)
                              ELSE Opened(t, i) /\ By(t, LastMark(t, i), t[i])
      BY <1>1 DEF Fair, FairTrace, Bracketed
    <2>3. r.app # "generic" =>
             \A i \in DOMAIN t : t[i].type \in CallEvents => Opened(t, i) /\ By(t, LastMark(t, i), t[i])
      BY <1>1 DEF Fair, FairTrace, InPlace
    <2>4. QED  BY <2>1, <2>2, <2>3 DEF NodesClosed, Opened, By, LastMark, Upto, Marks, r
  <1>4. VerdictsEarned
    <2>1. \A i : i \in Of(t, "run.completed") <=> i \in DOMAIN t /\ Says(t, i)
      BY DEF Of, Says
    <2>2. r.part = "handler" \/ r.how = "raised" =>
              \A i \in Of(t, "run.completed") : t[i].status = "error"
      BY <1>1, <2>1 DEF Fair, AllErrors
    <2>3. r.how = "returned" => Of(t, "run.completed") # {}
      BY <1>1, <2>1 DEF Fair, Judged
    <2>4. \A i \in Of(t, "run.completed") : \A j \in i .. Len(t) : t[j].type \notin CallEvents
      BY <1>1, <2>1 DEF Fair, FairTrace, Verdicts
    <2>5. ASSUME NEW i \in Of(t, "run.completed"), t[i].status = "pass",
                 r.app \in {"cited", "langgraph", "real_world"}
          PROVE  ValidationPassed(SubSeq(t, 1, i))
      <3>1. i \in 1 .. Len(t) /\ Says(t, i)
        BY <1>2, <2>1
      <3>2. PICK k \in 1 .. i : Passes(t, k)
        BY <1>1, <1>2, <2>5, <3>1 DEF Fair, FairTrace, Verdicts, Judging
      <3> DEFINE s == SubSeq(t, 1, i)
      <3>3. k \in DOMAIN s /\ s[k] = t[k]
        <4>1. PICK A : t \in Seq(A)
          BY <1>2 DEF IsSeq
        <4>2. QED  BY <3>1, <4>1
      <3> HIDE DEF s
      <3>4. s[k].type = "validation.completed" /\ s[k].status = "pass"
        BY <3>2, <3>3 DEF Passes
      <3>5. ValidationPassed(s)
        BY <3>3, <3>4 DEF ValidationPassed, Of
      <3>6. QED  BY <3>5 DEF s
    <2>6. QED  BY <2>2, <2>3, <2>4, <2>5 DEF VerdictsEarned, r
  <1>5. QED  BY <1>3, <1>4

-----------------------------------------------------------------------------
(* The calls that only emit.                                               *)

\* The trace of the run in progress.
LEMMA TraceNow == Trace = TraceOf(events, notes)
  BY DEF Trace, TraceOf

\* What Emit does to the trace.
LEMMA SaidAdds ==
    ASSUME IsLog(events, notes), NEW said, IsSeq(said), Emit(said),
           \A k \in 1 .. Len(said) : IsEvent(said[k].event) /\ IsNote(said[k].note)
    PROVE  /\ IsLog(events, notes)' /\ Grown(Trace, Trace')
           /\ Len(Trace') = Len(Trace) + Len(said)
           /\ \A i \in New(Trace, Trace') : \E k \in 1 .. Len(said) :
                  /\ Trace'[i].type = said[k].event.type
                  /\ Trace'[i].status = said[k].event.status
                  /\ Trace'[i].step = said[k].note.step
                  /\ Trace'[i].agent = said[k].note.agent
           /\ \A k \in 1 .. Len(said) :
                  /\ Len(Trace) + k \in New(Trace, Trace')
                  /\ Trace'[Len(Trace) + k].type = said[k].event.type
                  /\ Trace'[Len(Trace) + k].status = said[k].event.status
                  /\ Trace'[Len(Trace) + k].step = said[k].note.step
                  /\ Trace'[Len(Trace) + k].agent = said[k].note.agent
  <1> DEFINE n == Len(said)
             fs == [k \in DOMAIN said |-> said[k].event]
             ms == [k \in DOMAIN said |-> said[k].note]
  <1>1. n \in Nat /\ DOMAIN said = 1 .. n
    BY SeqShape
  <1>2. /\ IsSeq(fs) /\ Len(fs) = n /\ IsSeq(ms) /\ Len(ms) = n
        /\ \A k \in 1 .. n : fs[k] = said[k].event /\ ms[k] = said[k].note
    <2> DEFINE f == [k \in 1 .. n |-> said[k].event]
               g == [k \in 1 .. n |-> said[k].note]
    <2>1. fs = [k \in 1 .. n |-> f[k]] /\ ms = [k \in 1 .. n |-> g[k]]
      BY <1>1
    <2>2. \A k \in 1 .. n : f[k] = said[k].event /\ g[k] = said[k].note
      OBVIOUS
    <2> HIDE DEF f, g, fs, ms, n
    <2>3. QED  BY <1>1, <2>1, <2>2, SeqBuild
  <1>3. events' = events \o fs /\ notes' = notes \o ms
    BY DEF Emit
  <1> HIDE DEF fs, ms
  <1>4. IsLog(fs, ms)
    BY <1>2 DEF IsLog
  <1> DEFINE t == TraceOf(events, notes)
             u == TraceOf(events \o fs, notes \o ms)
  <1>5. Trace = t /\ Trace' = u
    <2>1. Trace = TraceOf(events, notes)
      BY TraceNow
    <2>2. Trace' = TraceOf(events', notes')
      BY DEF Trace, TraceOf
    <2>3. QED  BY <1>3, <2>1, <2>2
  <1>6. IsLog(events \o fs, notes \o ms)
    BY <1>4, LogGrows
  <1>7. /\ Grown(t, u) /\ Len(t) = Len(events) /\ Len(u) = Len(events) + Len(fs)
        /\ \A i \in New(t, u) : \E k \in 1 .. Len(fs) :
               /\ u[i].type = fs[k].type /\ u[i].status = fs[k].status
               /\ u[i].step = ms[k].step /\ u[i].agent = ms[k].agent
        /\ \A k \in 1 .. Len(fs) :
               /\ Len(events) + k \in New(t, u)
               /\ u[Len(events) + k].type = fs[k].type /\ u[Len(events) + k].status = fs[k].status
               /\ u[Len(events) + k].step = ms[k].step /\ u[Len(events) + k].agent = ms[k].agent
    BY <1>4, LogGrows
  <1>8. IsLog(events, notes)'
    BY <1>3, <1>6
  <1> HIDE DEF t, u, n
  <1>9. \A i \in New(t, u) : \E k \in 1 .. n :
            /\ u[i].type = said[k].event.type /\ u[i].status = said[k].event.status
            /\ u[i].step = said[k].note.step /\ u[i].agent = said[k].note.agent
    <2> TAKE i \in New(t, u)
    <2>1. PICK k \in 1 .. Len(fs) :
            /\ u[i].type = fs[k].type /\ u[i].status = fs[k].status
            /\ u[i].step = ms[k].step /\ u[i].agent = ms[k].agent
      BY <1>7, Zenon
    <2>2. k \in 1 .. n
      BY <1>2
    <2>3. fs[k] = said[k].event /\ ms[k] = said[k].note
      BY <1>2, <2>2
    <2>4. QED  BY <2>1, <2>2, <2>3
  <1>10. \A k \in 1 .. n :
            /\ Len(t) + k \in New(t, u)
            /\ u[Len(t) + k].type = said[k].event.type
            /\ u[Len(t) + k].status = said[k].event.status
            /\ u[Len(t) + k].step = said[k].note.step
            /\ u[Len(t) + k].agent = said[k].note.agent
    <2> TAKE k \in 1 .. n
    <2>1. /\ Len(t) + k \in New(t, u)
          /\ u[Len(t) + k].type = fs[k].type /\ u[Len(t) + k].status = fs[k].status
          /\ u[Len(t) + k].step = ms[k].step /\ u[Len(t) + k].agent = ms[k].agent
      BY <1>2, <1>7
    <2>2. fs[k] = said[k].event /\ ms[k] = said[k].note
      BY <1>2
    <2>3. QED  BY <2>1, <2>2
  <1>11. Len(u) = Len(t) + n
    BY <1>2, <1>7
  <1>12. QED  BY <1>5, <1>7, <1>8, <1>9, <1>10, <1>11 DEF n

\* One event, or two.
LEMMA SaidIs ==
    ASSUME NEW type, NEW status, NEW note
    PROVE  \E e : /\ Said(type, status, note) = << e >>
                  /\ e.event.type = type /\ e.event.status = status
                  /\ IsEvent(e.event) /\ e.note = note
  <1> DEFINE e == [event |-> Report!Plain(type, NoTool, status), note |-> note]
  <1>1. Said(type, status, note) = << e >>
    BY DEF Said
  <1>2. e.event = Report!Plain(type, NoTool, status) /\ e.note = note
    OBVIOUS
  <1>3. e.event.type = type /\ e.event.status = status /\ IsEvent(e.event)
    BY DEF Report!Plain, IsEvent
  <1> HIDE DEF e
  <1>4. QED  BY <1>1, <1>2, <1>3

\* One entry and perhaps another.
LEMMA NextSaid ==
    ASSUME NEW v, NEW w, NEW x, IsSeq(v), IsSeq(w), Len(v) = 1, Len(w) \in {0, 1}, x = v \o w
    PROVE  /\ IsSeq(x) /\ 1 \in 1 .. Len(x) /\ x[1] = v[1]
           /\ \A k \in 1 .. Len(x) : x[k] = v[1] \/ (Len(w) = 1 /\ x[k] = w[1])
  <1> DEFINE y == v \o w
  <1>1. /\ IsSeq(y) /\ Len(y) = Len(v) + Len(w)
        /\ \A k \in 1 .. Len(v) : y[k] = v[k]
        /\ \A k \in 1 .. Len(w) : y[Len(v) + k] = w[k]
    <2>1. IsSeq(y) /\ Len(y) = Len(v) + Len(w)
      BY SeqJoin
    <2>2. \A k \in 1 .. Len(v) : y[k] = v[k]
      BY SeqJoin
    <2>3. \A k \in 1 .. Len(w) : y[Len(v) + k] = w[k]
      BY SeqJoin
    <2>4. QED  BY <2>1, <2>2, <2>3
  <1>2. x = y
    OBVIOUS
  <1> HIDE DEF y
  <1>3. x[1] = v[1] /\ 1 \in 1 .. Len(x)
    BY <1>1, <1>2
  <1>4. \A k \in 1 .. Len(x) : k = 1 \/ (k = 2 /\ Len(w) = 1)
    BY <1>1, <1>2
  <1>5. Len(w) = 1 => x[2] = w[1]
    BY <1>1, <1>2
  <1>6. QED  BY <1>1, <1>2, <1>3, <1>4, <1>5

\* The notes the instructions make.
LEMMA HereIs ==
    /\ IsNote(Blank) /\ Here.step = Code[at].step /\ Here.agent = Code[at].agent
    /\ \A c : IsNote([Here EXCEPT !.context = c])
    /\ \A c : IsNote([Here EXCEPT !.counts = c])
    /\ \A c : IsNote([Blank EXCEPT !.counts = c])
    /\ \A c : IsNote([Blank EXCEPT !.label = c])
    /\ IsNote(Here)
  BY DEF Here, Blank, IsNote

-----------------------------------------------------------------------------
(* One instruction of the program.                                         *)

\* Where it is performed.
LEMMA Performed ==
    ASSUME WorkflowInv, NEW op, Performs(op)
    PROVE  /\ job # NoJob /\ job' = job /\ part' = part /\ exc = "none" /\ exc' = exc
           /\ pc' = pc /\ env' = env /\ home' = home /\ past' = past
           /\ Running /\ Code' = Code
           /\ at \in 1 .. Len(Code) /\ at' = at + 1 /\ Code[at].op = op
           /\ Allowed(job.app, Code[at], Now)
  <1>1. /\ job # NoJob /\ exc = "none" /\ at <= Len(Code) /\ Code[at].op = op /\ at' = at + 1
        /\ job' = job /\ part' = part /\ exc' = exc /\ pc' = pc /\ env' = env /\ home' = home
        /\ past' = past
    BY DEF Performs, Outside
  <1>2. Running
    BY <1>1 DEF WorkflowInv
  <1>3. Code' = Code
    BY <1>1 DEF Code, ProgramFor
  <1>4. OnCourse
    BY <1>1, <1>2 DEF Running
  <1>5. Len(Code) \in Nat /\ at \in 1 .. Len(Code) + 1
    BY <1>4, SeqShape DEF OnCourse
  <1>6. at \in 1 .. Len(Code)
    BY <1>1, <1>5
  <1>7. Allowed(job.app, Code[at], Now)
    BY <1>4, <1>6 DEF OnCourse, Course
  <1>8. QED  BY <1>1, <1>2, <1>3, <1>6, <1>7

\* The course goes on.
LEMMA Advance ==
    ASSUME OnCourse, at \in 1 .. Len(Code), at' = at + 1, Code' = Code, job' = job,
           Now' = Moved(Code[at], Now)
    PROVE  OnCourse'
  <1>1. PICK c : /\ Course(job.app, Code, c) /\ c[at] = Now
                 /\ c[Len(Code) + 1].judged /\ c[Len(Code) + 1].node = NoNode
    BY DEF OnCourse
  <1>2. c[at + 1] = Moved(Code[at], Now)
    BY <1>1 DEF Course
  <1>3. IsSeq(Code) /\ Len(Code) \in Nat
    BY SeqShape DEF OnCourse
  <1>4. at + 1 \in 1 .. Len(Code) + 1
    BY <1>3
  <1>5. /\ Course(job', Code', c) <=> Course(job', Code, c)
        /\ c[at'] = Now'
    BY <1>2
  <1>6. /\ IsSeq(Code') /\ at' \in 1 .. Len(Code') + 1
        /\ Course(job'.app, Code', c) /\ c[at'] = Now'
        /\ c[Len(Code') + 1].judged /\ c[Len(Code') + 1].node = NoNode
    BY <1>1, <1>3, <1>4, <1>5
  <1>7. QED  BY <1>6 DEF OnCourse

\* What an application that was interrupted may still do.
LEMMA InHandler ==
    ASSUME Running, part = "handler", at \in 1 .. Len(Code)
    PROVE  /\ Code[at].op \in {"finish", "evaluate"}
           /\ Code[at].op = "finish" => Code[at].arg = "error"
  <1>1. Code = ProgramFor(job).handler
    BY DEF Code
  <1>2. QED  BY <1>1 DEF Running, Sound

\* What has to be shown of an instruction.
LEMMA PerformedKeeps ==
    ASSUME WorkflowInv, NEW op, Performs(op), phase' \in {"new", "running", "finished"},
           IsLog(events, notes)', FairTrace(Trace', job.app), NodeIs(Trace', node'),
           Now' = Moved(Code[at], Now),
           part = "handler" => AllErrors(Trace') /\ node' = NoNode
    PROVE  WorkflowInv'
  <1>1. /\ job # NoJob /\ job' = job /\ part' = part /\ exc = "none" /\ exc' = exc
        /\ pc' = pc /\ env' = env /\ home' = home /\ past' = past
        /\ Running /\ Code' = Code
        /\ at \in 1 .. Len(Code) /\ at' = at + 1
    BY Performed
  <1>2. OnCourse'
    BY <1>1, Advance DEF Running
  <1>3. Len(notes') = Len(events')
    BY DEF IsLog
  <1>4. at' \in Nat \ {0}
    BY <1>1
  <1>5. TypeOK'
    BY <1>1, <1>3, <1>4 DEF WorkflowInv, TypeOK
  <1>6. pc["app"] \in Resting
    BY DEF Performs, Outside, Resting
  <1>7. ProgramFor(job)' = ProgramFor(job)
    BY <1>1 DEF ProgramFor
  <1>11. part = "handler" => ~Passed(Trace')
    <2>1. Now'.passed = Passed(Trace') /\ Now.passed = Passed(Trace)
      BY DEF Now, Stage
    <2>2. Moved(Code[at], Now).passed <=> Now.passed \/ (Code[at].op = "validate" /\ Code[at].arg = "pass")
      BY DEF Moved, Stage
    <2>3. part = "handler" => Code[at].op # "validate" /\ ~Passed(Trace)
      BY <1>1, InHandler DEF Running
    <2>4. Passed(Trace') \in BOOLEAN /\ Passed(Trace) \in BOOLEAN
      BY DEF Passed
    <2>5. QED  BY <2>1, <2>2, <2>3, <2>4
  <1>8. Running'
    BY <1>1, <1>2, <1>6, <1>7, <1>11 DEF Running
  <1>9. (past # << >> => Fair(Latest))'
    BY <1>1 DEF WorkflowInv, Latest
  <1>10. QED  BY <1>1, <1>5, <1>8, <1>9 DEF WorkflowInv

\* The types of events that no property speaks of.
Quiet == {"run.started", "preflight.approved", "context.attached", "route.applied",
          "memory.retrieved", "policy.triggered", "intervention.applied"}

\* An instruction that neither opens nor closes a node and says nothing.
LEMMA QuietKeeps ==
    ASSUME WorkflowInv, NEW op, Performs(op), phase' \in {"new", "running", "finished"},
           op \in {"start", "context", "route", "recall", "evaluate"}, node' = node,
           NEW said, IsSeq(said), Emit(said),
           \A k \in 1 .. Len(said) : /\ IsEvent(said[k].event) /\ IsNote(said[k].note)
                                     /\ said[k].event.type \in Quiet
    PROVE  WorkflowInv'
  <1> DEFINE t == Trace
             u == Trace'
             a == job.app
  <1>1. Running /\ at \in 1 .. Len(Code) /\ Code[at].op = op
    BY Performed
  <1>2. /\ IsLog(events, notes)' /\ Grown(t, u)
        /\ \A i \in New(t, u) : \E k \in 1 .. Len(said) : u[i].type = said[k].event.type
    <2>1. IsLog(events, notes)
      BY DEF WorkflowInv
    <2>2. QED  BY <2>1, SaidAdds
  <1>3. \A i \in New(t, u) : u[i].type \in Quiet
    BY <1>2
  <1>4. FairTrace(t, a) /\ NodeIs(t, node) /\ (part = "handler" => AllErrors(t))
    BY <1>1 DEF Running
  <1> HIDE DEF t, u, a
  <1>5. \A i \in New(t, u) : /\ i \notin Marks(u) /\ u[i].type \notin CallEvents
                             /\ ~Says(u, i) /\ ~Passes(u, i)
    BY <1>3 DEF Quiet, Marks, CallEvents, Says, Passes
  <1>6. /\ Bracketed(u) /\ NodeIs(u, node)
        /\ a # "generic" => InPlace(u)
    <2>1. Bracketed(t) /\ (a # "generic" => InPlace(t))
      BY <1>4 DEF FairTrace
    <2>2. QED  BY <1>2, <1>4, <1>5, <2>1, NodesQuiet
  <1>7. (Judged(u) <=> Judged(t)) /\ (Passed(u) <=> Passed(t)) /\ (AllErrors(t) => AllErrors(u))
    BY <1>2, <1>5, SaidIn
  <1>8. Verdicts(u, a)
    BY <1>2, <1>4, <1>5, VerdictsOn DEF FairTrace
  <1>9. FairTrace(u, a)
    BY <1>6, <1>8 DEF FairTrace
  <1>10. Now' = Moved(Code[at], Now)
    <2>1. Judged(u) = Judged(t) /\ Passed(u) = Passed(t)
      BY <1>7 DEF Judged, Passed
    <2>2. Now' = Stage(node', Judged(u), Passed(u)) /\ Now = Stage(node, Judged(t), Passed(t))
      BY DEF Now, t, u
    <2>3. Now' = Now
      BY <2>1, <2>2
    <2>4. Judged(t) \in BOOLEAN /\ Passed(t) \in BOOLEAN
      BY DEF Judged, Passed
    <2>5. Moved(Code[at], Now) = Now
      BY <1>1, <2>2, <2>4 DEF Moved, Stage
    <2>6. QED  BY <2>3, <2>5
  <1>11. part = "handler" => AllErrors(u) /\ node' = NoNode
    BY <1>4, <1>7 DEF WorkflowInv, TypeOK
  <1>12. QED
    <2>1. FairTrace(Trace', job.app) /\ NodeIs(Trace', node') /\ (part = "handler" => AllErrors(Trace') /\ node' = NoNode)
      BY <1>6, <1>9, <1>11 DEF u, a
    <2>2. QED  BY <1>2, <1>10, <2>1, PerformedKeeps

-----------------------------------------------------------------------------
(* The instructions that only emit.                                        *)

\* One event in a row.
LEMMA OneSaid ==
    ASSUME NEW type, NEW status, NEW note, IsNote(note)
    PROVE  LET said == Said(type, status, note)
           IN  /\ IsSeq(said) /\ Len(said) = 1
               /\ \A k \in 1 .. Len(said) :
                      /\ IsEvent(said[k].event) /\ IsNote(said[k].note)
                      /\ said[k].event.type = type /\ said[k].event.status = status
                      /\ said[k].note = note
  <1> DEFINE said == Said(type, status, note)
  <1>1. PICK e : /\ said = << e >> /\ e.event.type = type /\ e.event.status = status
                 /\ IsEvent(e.event) /\ e.note = note
    BY SaidIs
  <1> HIDE DEF said
  <1>2. IsSeq(<< e >>) /\ Len(<< e >>) = 1 /\ << e >>[1] = e
    BY SeqOne
  <1>3. \A k \in 1 .. 1 : k = 1
    OBVIOUS
  <1>4. IsSeq(said) /\ Len(said) = 1 /\ \A k \in 1 .. 1 : said[k] = e
    BY <1>1, <1>2, <1>3
  <1>5. QED  BY <1>1, <1>4 DEF said

\* said is one or two entries: the first of a type and a status, the second of others.
SaysTwo(said, type, status, type2, status2) ==
    /\ IsSeq(said) /\ 1 \in 1 .. Len(said)
    /\ said[1].event.type = type /\ said[1].event.status = status
    /\ \A k \in 1 .. Len(said) : IsEvent(said[k].event) /\ IsNote(said[k].note)
    /\ \A k \in 1 .. Len(said) :
           \/ said[k].event.type = type /\ said[k].event.status = status
           \/ said[k].event.type = type2 /\ said[k].event.status = status2

\* The entry Said() makes.
LEMMA FirstSaid ==
    ASSUME NEW type, NEW status, NEW note, IsNote(note),
           NEW v, v = Said(type, status, note)
    PROVE  /\ IsSeq(v) /\ Len(v) = 1 /\ IsEvent(v[1].event) /\ IsNote(v[1].note)
           /\ v[1].event.type = type /\ v[1].event.status = status
  <1>1. PICK e : /\ v = << e >> /\ e.event.type = type /\ e.event.status = status
                 /\ IsEvent(e.event) /\ e.note = note
    BY SaidIs
  <1>2. IsSeq(v) /\ Len(v) = 1 /\ v[1] = e
    BY <1>1, SeqOne
  <1>3. QED  BY <1>1, <1>2

\* An event, and perhaps a second one.
LEMMA NextsSaid ==
    ASSUME NEW type, NEW status, NEW note, NEW type2, NEW status2, NEW note2,
           IsNote(note), IsNote(note2)
    PROVE  /\ SaysTwo(Said(type, status, note) \o << >>, type, status, type2, status2)
           /\ SaysTwo(Said(type, status, note) \o Said(type2, status2, note2),
                      type, status, type2, status2)
  <1>1. ASSUME NEW next, next = << >> \/ next = Said(type2, status2, note2)
        PROVE  SaysTwo(Said(type, status, note) \o next, type, status, type2, status2)
    <2> DEFINE v == Said(type, status, note)
               x == v \o next
    <2>1. /\ IsSeq(v) /\ Len(v) = 1 /\ IsEvent(v[1].event) /\ IsNote(v[1].note)
          /\ v[1].event.type = type /\ v[1].event.status = status
      BY FirstSaid
    <2>2. /\ IsSeq(next) /\ Len(next) \in {0, 1}
          /\ Len(next) = 1 => /\ IsEvent(next[1].event) /\ IsNote(next[1].note)
                              /\ next[1].event.type = type2 /\ next[1].event.status = status2
      <3>1. CASE next = << >>
        BY <3>1, SeqNone
      <3>2. CASE next = Said(type2, status2, note2)
        <4>1. /\ IsSeq(next) /\ Len(next) = 1 /\ IsEvent(next[1].event) /\ IsNote(next[1].note)
              /\ next[1].event.type = type2 /\ next[1].event.status = status2
          BY <3>2, FirstSaid
        <4>2. QED  BY <4>1
      <3>3. QED  BY <1>1, <3>1, <3>2
    <2> HIDE DEF v
    <2>3. /\ IsSeq(x) /\ 1 \in 1 .. Len(x) /\ x[1] = v[1]
          /\ \A k \in 1 .. Len(x) : x[k] = v[1] \/ (Len(next) = 1 /\ x[k] = next[1])
      BY <2>1, <2>2, NextSaid
    <2> HIDE DEF x
    <2>4. SaysTwo(x, type, status, type2, status2)
      BY <2>1, <2>2, <2>3 DEF SaysTwo
    <2>5. QED  BY <2>4 DEF x, v
  <1>2. QED  BY <1>1

\* start_run(), with the approval of a session.
LEMMA StartKeeps ==
    ASSUME WorkflowInv, Start
    PROVE  WorkflowInv'
  <1> DEFINE note == [Blank EXCEPT !.label =
                          IF job.set.plan \/ job.session THEN TierOf(job.app) ELSE "none"]
             next == IF job.session THEN Said("preflight.approved", "none", Blank) ELSE << >>
             said == Said("run.started", "none", note) \o next
  <1>1. Performs("start") /\ Emit(said) /\ phase' = "running" /\ node' = node
    BY DEF Start
  <1>2. IsNote(note) /\ IsNote(Blank)
    BY HereIs
  <1>3. next = << >> \/ next = Said("preflight.approved", "none", Blank)
    OBVIOUS
  <1> HIDE DEF note, next
  <1>4. SaysTwo(said, "run.started", "none", "preflight.approved", "none")
    BY <1>2, <1>3, NextsSaid
  <1> HIDE DEF said
  <1>5. \A k \in 1 .. Len(said) : /\ IsEvent(said[k].event) /\ IsNote(said[k].note)
                                  /\ said[k].event.type \in Quiet
    BY <1>4 DEF Quiet, SaysTwo
  <1>6. IsSeq(said)
    BY <1>4 DEF SaysTwo
  <1>7. QED  BY <1>1, <1>5, <1>6, QuietKeeps

\* attach_context().
LEMMA AttachContextKeeps ==
    ASSUME WorkflowInv, AttachContext
    PROVE  WorkflowInv'
  <1> DEFINE note == [Here EXCEPT !.context = Code[at].arg]
             said == Said("context.attached", "none", note)
  <1>1. Performs("context") /\ Emit(said) /\ phase' = phase /\ node' = node
    BY DEF AttachContext
  <1>2. IsNote(note)
    BY HereIs
  <1> HIDE DEF note
  <1>3. /\ IsSeq(said)
        /\ \A k \in 1 .. Len(said) :
               /\ IsEvent(said[k].event) /\ IsNote(said[k].note)
               /\ said[k].event.type = "context.attached"
    BY <1>2, OneSaid
  <1> HIDE DEF said
  <1>4. \A k \in 1 .. Len(said) : /\ IsEvent(said[k].event) /\ IsNote(said[k].note)
                                  /\ said[k].event.type \in Quiet
    BY <1>3 DEF Quiet
  <1>5. phase' \in {"new", "running", "finished"}
    BY <1>1 DEF WorkflowInv, TypeOK
  <1>6. QED  BY <1>1, <1>3, <1>4, <1>5, QuietKeeps

\* The route applied to a node.
LEMMA ApplyRouteKeeps ==
    ASSUME WorkflowInv, ApplyRoute
    PROVE  WorkflowInv'
  <1> DEFINE said == Said("route.applied", "none", Here)
  <1>1. Performs("route") /\ Emit(said) /\ phase' = phase /\ node' = node
    BY DEF ApplyRoute
  <1>2. IsNote(Here)
    BY HereIs
  <1>3. /\ IsSeq(said)
        /\ \A k \in 1 .. Len(said) :
               /\ IsEvent(said[k].event) /\ IsNote(said[k].note)
               /\ said[k].event.type = "route.applied"
    BY <1>2, OneSaid
  <1> HIDE DEF said
  <1>4. \A k \in 1 .. Len(said) : /\ IsEvent(said[k].event) /\ IsNote(said[k].note)
                                  /\ said[k].event.type \in Quiet
    BY <1>3 DEF Quiet
  <1>5. phase' \in {"new", "running", "finished"}
    BY <1>1 DEF WorkflowInv, TypeOK
  <1>6. QED  BY <1>1, <1>3, <1>4, <1>5, QuietKeeps

\* remember() and retrieve_memory().
LEMMA RecallKeeps ==
    ASSUME WorkflowInv, Recall
    PROVE  WorkflowInv'
  <1> DEFINE note == [Here EXCEPT !.counts = <<IF job.set.keeps THEN 1 ELSE 0, 0>>]
             said == Said("memory.retrieved", "none", note)
  <1>1. Performs("recall") /\ Emit(said) /\ phase' = phase /\ node' = node
    BY DEF Recall
  <1>2. IsNote(note)
    BY HereIs
  <1> HIDE DEF note
  <1>3. /\ IsSeq(said)
        /\ \A k \in 1 .. Len(said) :
               /\ IsEvent(said[k].event) /\ IsNote(said[k].note)
               /\ said[k].event.type = "memory.retrieved"
    BY <1>2, OneSaid
  <1> HIDE DEF said
  <1>4. \A k \in 1 .. Len(said) : /\ IsEvent(said[k].event) /\ IsNote(said[k].note)
                                  /\ said[k].event.type \in Quiet
    BY <1>3 DEF Quiet
  <1>5. phase' \in {"new", "running", "finished"}
    BY <1>1 DEF WorkflowInv, TypeOK
  <1>6. QED  BY <1>1, <1>3, <1>4, <1>5, QuietKeeps

\* One event more: what EnterKeeps, LeaveKeeps and UnwindKeeps start from.
LEMMA OneMore ==
    ASSUME IsLog(events, notes), NEW type, NEW status, NEW note, IsNote(note),
           Emit(Said(type, status, note))
    PROVE  /\ IsLog(events, notes)' /\ Grown(Trace, Trace')
           /\ Len(Trace') = Len(Trace) + 1
           /\ Trace'[Len(Trace')].type = type /\ Trace'[Len(Trace')].status = status
           /\ Trace'[Len(Trace')].step = note.step /\ Trace'[Len(Trace')].agent = note.agent
           /\ \A i \in New(Trace, Trace') :
                  Trace'[i].type = type /\ Trace'[i].status = status
           /\ Len(Trace') \in New(Trace, Trace')
  <1> DEFINE said == Said(type, status, note)
             t == Trace
             u == Trace'
  <1>1. /\ IsSeq(said) /\ Len(said) = 1
        /\ \A k \in 1 .. Len(said) :
                      /\ IsEvent(said[k].event) /\ IsNote(said[k].note)
                      /\ said[k].event.type = type /\ said[k].event.status = status
                      /\ said[k].note = note
    BY OneSaid
  <1> HIDE DEF said, t, u
  <1>2. Emit(said)
    BY DEF said
  <1>3. 1 \in 1 .. Len(said)
    BY <1>1
  <1>4. /\ IsSeq(said)
        /\ \A k \in 1 .. Len(said) : IsEvent(said[k].event) /\ IsNote(said[k].note)
    BY <1>1
  <1>5. /\ IsLog(events, notes)' /\ Grown(t, u)
        /\ Len(u) = Len(t) + Len(said)
        /\ \A i \in New(t, u) : \E k \in 1 .. Len(said) :
               /\ u[i].type = said[k].event.type
               /\ u[i].status = said[k].event.status
               /\ u[i].step = said[k].note.step
               /\ u[i].agent = said[k].note.agent
        /\ \A k \in 1 .. Len(said) :
               /\ Len(t) + k \in New(t, u)
               /\ u[Len(t) + k].type = said[k].event.type
               /\ u[Len(t) + k].status = said[k].event.status
               /\ u[Len(t) + k].step = said[k].note.step
               /\ u[Len(t) + k].agent = said[k].note.agent
    BY <1>2, <1>4, SaidAdds DEF t, u
  <1> DEFINE P(k) == /\ Len(t) + k \in New(t, u)
                     /\ u[Len(t) + k].type = said[k].event.type
                     /\ u[Len(t) + k].status = said[k].event.status
                     /\ u[Len(t) + k].step = said[k].note.step
                     /\ u[Len(t) + k].agent = said[k].note.agent
  <1>6. \A k \in 1 .. Len(said) : P(k)
    BY <1>5 DEF P
  <1> HIDE DEF P
  <1>7. \A i \in New(t, u) : u[i].type = type /\ u[i].status = status
    BY <1>1, <1>5
  <1>8. Len(u) = Len(t) + 1
    BY <1>1, <1>5
  <1>9. P(1)
    BY <1>3, <1>6
  <1>10. /\ Len(u) \in New(t, u)
         /\ u[Len(u)].type = type /\ u[Len(u)].status = status
         /\ u[Len(u)].step = note.step /\ u[Len(u)].agent = note.agent
    BY <1>1, <1>3, <1>8, <1>9 DEF P
  <1>11. QED  BY <1>5, <1>7, <1>8, <1>10 DEF t, u

\* A node is entered or left: nothing is said.
LEMMA MarkSays ==
    ASSUME NEW t, NEW u, NEW a, Grown(t, u), Verdicts(t, a),
           \A i \in New(t, u) : u[i].type \in {"agent.started", "agent.finished"}
    PROVE  /\ Verdicts(u, a) /\ Judged(u) = Judged(t) /\ Passed(u) = Passed(t)
           /\ AllErrors(t) => AllErrors(u)
  <1>1. \A i \in New(t, u) : u[i].type \notin CallEvents /\ ~Says(u, i) /\ ~Passes(u, i)
    BY DEF CallEvents, Says, Passes
  <1>2. (Judged(u) <=> Judged(t)) /\ (Passed(u) <=> Passed(t)) /\ (AllErrors(t) => AllErrors(u))
    BY <1>1, SaidIn
  <1>3. Verdicts(u, a)
    BY <1>1, VerdictsOn
  <1>4. Judged(u) = Judged(t) /\ Passed(u) = Passed(t)
    BY <1>2 DEF Judged, Passed
  <1>5. QED  BY <1>2, <1>3, <1>4

\* node() is entered.
LEMMA EnterKeeps ==
    ASSUME WorkflowInv, Enter
    PROVE  WorkflowInv'
  <1> DEFINE t == Trace
             u == Trace'
             a == job.app
             n == PlaceOf(Code[at])
  <1>1. Performs("enter") /\ Emit(Said("agent.started", "none", Here)) /\ phase' = phase
    BY DEF Enter
  <1>2. /\ Running /\ at \in 1 .. Len(Code) /\ Code[at].op = "enter"
        /\ Allowed(job.app, Code[at], Now)
    BY <1>1, Performed
  <1>3. node' = n /\ IsNote(Here) /\ Here.step = n.step /\ Here.agent = n.agent
    BY HereIs DEF Enter, PlaceOf
  <1>4. node = NoNode /\ n \in Places /\ n # NoNode
    <2>1. Now.node = NoNode /\ n \in Places
      BY <1>2 DEF Allowed
    <2>2. Now.node = node
      BY DEF Now, Stage
    <2>3. QED  BY <2>1, <2>2, WorkflowAssumption DEF Places
  <1>5. /\ IsLog(events, notes)' /\ Grown(t, u) /\ Len(u) = Len(t) + 1
        /\ u[Len(u)].type = "agent.started"
        /\ u[Len(u)].step = Here.step /\ u[Len(u)].agent = Here.agent
        /\ \A i \in New(t, u) : u[i].type = "agent.started"
    BY <1>1, <1>3, OneMore DEF WorkflowInv
  <1>6. FairTrace(t, a) /\ NodeIs(t, NoNode)
    BY <1>2, <1>4 DEF Running
  <1>7. part # "handler"
    BY <1>2, InHandler
  <1> HIDE DEF t, u, a, n
  <1>8. By(u, Len(u), n)
    BY <1>3, <1>5 DEF By
  <1>9. Bracketed(u) /\ NodeIs(u, n) /\ (a # "generic" => InPlace(u))
    <2>1. Bracketed(t) /\ (a # "generic" => InPlace(t))
      BY <1>6 DEF FairTrace
    <2>2. QED  BY <1>4, <1>5, <1>6, <1>8, <2>1, NodesOpen
  <1>10. Verdicts(u, a) /\ Judged(u) = Judged(t) /\ Passed(u) = Passed(t)
    <2>1. \A i \in New(t, u) : u[i].type \in {"agent.started", "agent.finished"}
      BY <1>5
    <2>2. QED  BY <1>5, <1>6, <2>1, MarkSays DEF FairTrace
  <1>11. Now' = Moved(Code[at], Now)
    <2>1. Now' = Stage(n, Judged(u), Passed(u)) /\ Now = Stage(node, Judged(t), Passed(t))
      BY <1>3 DEF Now, t, u
    <2>2. Judged(t) \in BOOLEAN /\ Passed(t) \in BOOLEAN
      BY DEF Judged, Passed
    <2>3. Moved(Code[at], Now) = Stage(n, Judged(t), Passed(t))
      BY <1>2, <2>1, <2>2 DEF Moved, Stage, n
    <2>4. QED  BY <1>10, <2>1, <2>3
  <1>12. FairTrace(Trace', job.app) /\ NodeIs(Trace', node')
    BY <1>3, <1>9, <1>10 DEF FairTrace, u, a
  <1>13. phase' \in {"new", "running", "finished"}
    BY <1>1 DEF WorkflowInv, TypeOK
  <1>14. QED  BY <1>1, <1>5, <1>7, <1>11, <1>12, <1>13, PerformedKeeps

\* node() is left.
LEMMA LeaveKeeps ==
    ASSUME WorkflowInv, Leave
    PROVE  WorkflowInv'
  <1> DEFINE t == Trace
             u == Trace'
             a == job.app
             n == PlaceOf(Code[at])
  <1>1. /\ Performs("leave") /\ Emit(Said("agent.finished", "ok", Here))
        /\ phase' = phase /\ node' = NoNode
    BY DEF Leave
  <1>2. /\ Running /\ at \in 1 .. Len(Code) /\ Code[at].op = "leave"
        /\ Allowed(job.app, Code[at], Now)
    BY <1>1, Performed
  <1>3. IsNote(Here) /\ Here.step = n.step /\ Here.agent = n.agent
    BY HereIs DEF PlaceOf
  <1>4. node = n /\ n # NoNode
    <2>1. Now.node = n /\ n \in Places
      BY <1>2 DEF Allowed
    <2>2. Now.node = node
      BY DEF Now, Stage
    <2>3. QED  BY <2>1, <2>2, WorkflowAssumption DEF Places
  <1>5. /\ IsLog(events, notes)' /\ Grown(t, u) /\ Len(u) = Len(t) + 1
        /\ u[Len(u)].type = "agent.finished"
        /\ u[Len(u)].step = Here.step /\ u[Len(u)].agent = Here.agent
        /\ \A i \in New(t, u) : u[i].type = "agent.finished"
    BY <1>1, <1>3, OneMore DEF WorkflowInv
  <1>6. FairTrace(t, a) /\ NodeIs(t, n)
    BY <1>2, <1>4 DEF Running
  <1>7. part # "handler"
    BY <1>2, InHandler
  <1> HIDE DEF t, u, a, n
  <1>8. By(u, Len(u), n)
    BY <1>3, <1>5 DEF By
  <1>9. Bracketed(u) /\ NodeIs(u, NoNode) /\ (a # "generic" => InPlace(u))
    <2>1. Bracketed(t) /\ (a # "generic" => InPlace(t))
      BY <1>6 DEF FairTrace
    <2>2. QED  BY <1>4, <1>5, <1>6, <1>8, <2>1, NodesClose
  <1>10. Verdicts(u, a) /\ Judged(u) = Judged(t) /\ Passed(u) = Passed(t)
    <2>1. \A i \in New(t, u) : u[i].type \in {"agent.started", "agent.finished"}
      BY <1>5
    <2>2. QED  BY <1>5, <1>6, <2>1, MarkSays DEF FairTrace
  <1>11. Now' = Moved(Code[at], Now)
    <2>1. Now' = Stage(NoNode, Judged(u), Passed(u)) /\ Now = Stage(node, Judged(t), Passed(t))
      BY <1>1 DEF Now, t, u
    <2>2. Judged(t) \in BOOLEAN /\ Passed(t) \in BOOLEAN
      BY DEF Judged, Passed
    <2>3. Moved(Code[at], Now) = Stage(NoNode, Judged(t), Passed(t))
      BY <1>2, <2>1, <2>2 DEF Moved, Stage
    <2>4. QED  BY <1>10, <2>1, <2>3
  <1>12. FairTrace(Trace', job.app) /\ NodeIs(Trace', node')
    BY <1>1, <1>9, <1>10 DEF FairTrace, u, a
  <1>13. phase' \in {"new", "running", "finished"}
    BY <1>1 DEF WorkflowInv, TypeOK
  <1>14. QED  BY <1>1, <1>5, <1>7, <1>11, <1>12, <1>13, PerformedKeeps

\* Something is said outside the nodes' boundaries, and no call is made.
LEMMA SpokenKeeps ==
    ASSUME NEW t, NEW u, NEW a, NEW n, Grown(t, u), FairTrace(t, a), NodeIs(t, n),
           \A i \in New(t, u) : u[i].type \in {"validation.completed", "run.completed", "run.failed"},
           \A i \in New(t, u) : Says(u, i) /\ u[i].status = "pass" /\ a \in Judging => Passed(t)
    PROVE  FairTrace(u, a) /\ NodeIs(u, n)
  <1>1. \A i \in New(t, u) : i \notin Marks(u) /\ u[i].type \notin CallEvents
    BY DEF Marks, CallEvents
  <1>2. Bracketed(t) /\ (a # "generic" => InPlace(t)) /\ Verdicts(t, a)
    BY DEF FairTrace
  <1>3. Bracketed(u) /\ NodeIs(u, n) /\ (a # "generic" => InPlace(u))
    BY <1>1, <1>2, NodesQuiet
  <1>4. Verdicts(u, a)
    BY <1>1, <1>2, VerdictsOn
  <1>5. QED  BY <1>3, <1>4 DEF FairTrace

\* The validation of the result.
LEMMA EmitValidationKeeps ==
    ASSUME WorkflowInv, EmitValidation
    PROVE  WorkflowInv'
  <1> DEFINE t == Trace
             u == Trace'
             a == job.app
             arg == Code[at].arg
  <1>1. /\ Performs("validate") /\ Emit(Said("validation.completed", arg, Blank))
        /\ phase' = phase /\ node' = node
    BY DEF EmitValidation
  <1>2. Running /\ at \in 1 .. Len(Code) /\ Code[at].op = "validate"
    BY <1>1, Performed
  <1>3. IsNote(Blank)
    BY HereIs
  <1>4. part # "handler"
    BY <1>2, InHandler
  <1>5. FairTrace(t, a) /\ NodeIs(t, node)
    BY <1>2 DEF Running
  <1> HIDE DEF t, u, a, arg
  <1>6. /\ IsLog(events, notes)' /\ Grown(t, u)
        /\ \A i \in New(t, u) : u[i].type = "validation.completed" /\ u[i].status = arg
        /\ Len(u) \in New(t, u)
    BY <1>1, <1>3, OneMore DEF WorkflowInv, t, u
  <1>7. \A i \in New(t, u) : ~Says(u, i) /\ (Passes(u, i) <=> arg = "pass")
    BY <1>6 DEF Says, Passes
  <1>8. FairTrace(u, a) /\ NodeIs(u, node)
    <2>1. \A i \in New(t, u) : u[i].type \in {"validation.completed", "run.completed", "run.failed"}
      BY <1>6
    <2>2. QED  BY <1>5, <1>6, <1>7, <2>1, SpokenKeeps
  <1>9. Judged(u) = Judged(t) /\ Passed(u) = (Passed(t) \/ arg = "pass")
    <2>1. (Judged(u) <=> Judged(t)) /\ (Passed(u) <=> Passed(t) \/ arg = "pass")
      BY <1>6, <1>7, SaidIn
    <2>2. QED  BY <2>1 DEF Judged, Passed
  <1>10. Now' = Moved(Code[at], Now)
    <2>1. Now' = Stage(node, Judged(u), Passed(u)) /\ Now = Stage(node, Judged(t), Passed(t))
      BY <1>1 DEF Now, t, u
    <2>2. Judged(t) \in BOOLEAN /\ Passed(t) \in BOOLEAN
      BY DEF Judged, Passed
    <2>3. Moved(Code[at], Now) = Stage(node, Judged(t), (Passed(t) \/ arg = "pass"))
      BY <1>2, <2>1, <2>2 DEF Moved, Stage, arg
    <2>4. QED  BY <1>9, <2>1, <2>3
  <1>11. FairTrace(Trace', job.app) /\ NodeIs(Trace', node')
    BY <1>1, <1>8 DEF u, a
  <1>12. phase' \in {"new", "running", "finished"}
    BY <1>1 DEF WorkflowInv, TypeOK
  <1>13. QED  BY <1>1, <1>4, <1>6, <1>10, <1>11, <1>12, PerformedKeeps

\* finish_run(): the verdict.
LEMMA FinishRunKeeps ==
    ASSUME WorkflowInv, FinishRun
    PROVE  WorkflowInv'
  <1> DEFINE t == Trace
             u == Trace'
             a == job.app
             arg == Code[at].arg
             note == [Blank EXCEPT !.counts =
                         <<Duplicates(events, Of(events, "tool.completed")),
                           Count(events, "retry.scheduled")>>]
             next == IF arg \in {"error", "fail"} THEN Said("run.failed", arg, note) ELSE << >>
             said == Said("run.completed", arg, note) \o next
  <1>1. Performs("finish") /\ Emit(said) /\ phase' = "finished" /\ node' = node
    BY DEF FinishRun
  <1>2. /\ Running /\ at \in 1 .. Len(Code) /\ Code[at].op = "finish"
        /\ Allowed(job.app, Code[at], Now)
    BY <1>1, Performed
  <1>3. IsNote(note)
    BY HereIs
  <1>4. next = << >> \/ next = Said("run.failed", arg, note)
    OBVIOUS
  <1>5. part = "handler" => arg = "error"
    BY <1>2, InHandler
  <1>6. FairTrace(t, a) /\ NodeIs(t, node) /\ (part = "handler" => AllErrors(t))
    BY <1>2 DEF Running
  <1>7. arg = "pass" /\ a \in Judging => Passed(t)
    BY <1>2 DEF Allowed, Now, Stage
  <1> HIDE DEF t, u, a, arg, note, next, said
  <1>8. /\ IsSeq(said) /\ 1 \in 1 .. Len(said)
        /\ said[1].event.type = "run.completed" /\ said[1].event.status = arg
        /\ \A k \in 1 .. Len(said) : IsEvent(said[k].event) /\ IsNote(said[k].note)
        /\ \A k \in 1 .. Len(said) :
               \/ said[k].event.type = "run.completed" /\ said[k].event.status = arg
               \/ said[k].event.type = "run.failed" /\ said[k].event.status = arg
    <2>1. SaysTwo(said, "run.completed", arg, "run.failed", arg)
      BY <1>3, <1>4, NextsSaid DEF said
    <2>2. QED  BY <2>1 DEF SaysTwo
  <1>9. /\ IsLog(events, notes)' /\ Grown(t, u)
        /\ \A i \in New(t, u) : \E k \in 1 .. Len(said) :
               u[i].type = said[k].event.type /\ u[i].status = said[k].event.status
        /\ \A k \in 1 .. Len(said) :
               Len(t) + k \in New(t, u) /\ u[Len(t) + k].type = said[k].event.type
    <2>1. IsLog(events, notes) /\ Emit(said)
      BY <1>1 DEF WorkflowInv
    <2>2. /\ IsLog(events, notes)' /\ Grown(t, u)
          /\ \A i \in New(t, u) : \E k \in 1 .. Len(said) :
                 /\ u[i].type = said[k].event.type
                 /\ u[i].status = said[k].event.status
                 /\ u[i].step = said[k].note.step
                 /\ u[i].agent = said[k].note.agent
          /\ \A k \in 1 .. Len(said) :
                 /\ Len(t) + k \in New(t, u)
                 /\ u[Len(t) + k].type = said[k].event.type
      BY <1>8, <2>1, SaidAdds DEF t, u
    <2>3. QED  BY <2>2
  <1>10. \A i \in New(t, u) : /\ u[i].type \in {"validation.completed", "run.completed", "run.failed"}
                              /\ u[i].status = arg /\ ~Passes(u, i)
    BY <1>8, <1>9 DEF Passes
  <1>11. \E i \in New(t, u) : Says(u, i)
    <2>1. Len(t) + 1 \in New(t, u) /\ u[Len(t) + 1].type = "run.completed"
      BY <1>8, <1>9
    <2>2. QED  BY <2>1 DEF Says
  <1>12. FairTrace(u, a) /\ NodeIs(u, node)
    BY <1>6, <1>7, <1>9, <1>10, SpokenKeeps
  <1>13. Judged(u) /\ (Passed(u) = Passed(t))
    <2>1. Judged(u) /\ (Passed(u) <=> Passed(t))
      BY <1>9, <1>10, <1>11, SaidIn
    <2>2. QED  BY <2>1 DEF Passed
  <1>14. Now' = Moved(Code[at], Now)
    <2>1. Now' = Stage(node, Judged(u), Passed(u)) /\ Now = Stage(node, Judged(t), Passed(t))
      BY <1>1 DEF Now, t, u
    <2>2. Judged(u) = TRUE /\ Passed(t) \in BOOLEAN
      BY <1>13 DEF Judged, Passed
    <2>3. Moved(Code[at], Now) = Stage(node, TRUE, Passed(t))
      BY <1>2, <2>1, <2>2 DEF Moved, Stage
    <2>4. QED  BY <1>13, <2>1, <2>2, <2>3
  <1>15. part = "handler" => AllErrors(u) /\ node = NoNode
    <2>1. part = "handler" => AllErrors(u)
      BY <1>5, <1>6, <1>9, <1>10, SaidIn
    <2>2. QED  BY <2>1 DEF WorkflowInv, TypeOK
  <1>16. /\ FairTrace(Trace', job.app) /\ NodeIs(Trace', node')
         /\ part = "handler" => AllErrors(Trace') /\ node' = NoNode
    BY <1>1, <1>12, <1>15 DEF u, a
  <1>17. QED  BY <1>1, <1>9, <1>14, <1>16, PerformedKeeps

-----------------------------------------------------------------------------
(* The offline evaluation only reports.                                    *)

\* What the evaluation returns: triggers and interventions.
Reporting == {"policy.triggered", "intervention.applied"}

Reported(found) ==
    /\ IsSeq(found)
    /\ \A k \in 1 .. Len(found) : IsEvent(found[k].event) /\ found[k].event.type \in Reporting

\* Report has its own names for the operators it takes from the library.
LEMMA ReportNames ==
    ASSUME NEW ss
    PROVE  /\ Report!FlattenSeq(ss) = FlattenSeq(ss)
           /\ Report!Cardinality(ss) = Cardinality(ss)
  <1>1. Report!FlattenSeq(ss) = FlattenSeq(ss)
    BY Zenon DEF Report!FlattenSeq, FlattenSeq
  <1>2. Report!Cardinality(ss) = Cardinality(ss)
    BY Zenon DEF Report!Cardinality, Cardinality
  <1>3. QED  BY <1>1, <1>2

\* The pair of events of one decision.
LEMMA PairIs ==
    ASSUME NEW p, NEW action, NEW tool, NEW i
    PROVE  Reported([k \in 1 .. 2 |-> [event |-> Report!Intervention(p, action, tool)[k],
                                       at |-> i]])
  <1> DEFINE d == Report!Intervention(p, action, tool)
             f == [k \in 1 .. 2 |-> [event |-> d[k], at |-> i]]
  <1>1. \A k \in 1 .. 2 : IsEvent(d[k]) /\ d[k].type \in Reporting
    <2>1. IsEvent(d[1]) /\ d[1].type = "policy.triggered"
      BY DEF Report!Intervention, Report!Plain, IsEvent
    <2>2. IsEvent(d[2]) /\ d[2].type = "intervention.applied"
      BY DEF Report!Intervention, Report!Plain, IsEvent
    <2> HIDE DEF d
    <2>3. \A k \in 1 .. 2 : k = 1 \/ k = 2
      OBVIOUS
    <2>4. QED  BY <2>1, <2>2, <2>3 DEF Reporting
  <1> HIDE DEF d
  <1>2. \A k \in 1 .. 2 : f[k].event = d[k]
    OBVIOUS
  <1>3. f = [k \in 1 .. 2 |-> f[k]]
    OBVIOUS
  <1> HIDE DEF f
  <1>4. IsSeq(f) /\ Len(f) = 2
    <2> DEFINE n == 2
    <2>1. n \in Nat /\ f = [k \in 1 .. n |-> f[k]]
      BY <1>3
    <2> HIDE DEF n
    <2>2. IsSeq(f) /\ Len(f) = n
      BY <2>1, SeqBuild
    <2>3. QED  BY <2>2 DEF n
  <1>5. Reported(f)
    BY <1>1, <1>2, <1>4 DEF Reported
  <1>6. QED  BY <1>5 DEF f, d

\* Finitely many events are pointed at.
LEMMA HitsFinite ==
    ASSUME NEW log, IsSeq(log), NEW p \in Report!PolicyIds, NEW max
    PROVE  IsFiniteSet(Report!Hits(p, log, max))
  <1>1. Len(log) \in Nat /\ DOMAIN log = 1 .. Len(log)
    BY SeqShape
  <1>2. IsFiniteSet(DOMAIN log)
    BY <1>1, FS_Interval
  <1>3. IsFiniteSet({}) /\ \A x : IsFiniteSet({x})
    BY FS_EmptySet, FS_Singleton
  <1>4. IsFiniteSet(Report!DuplicateHits(log))
    <2>1. Report!DuplicateHits(log) \subseteq DOMAIN log
      BY DEF Report!DuplicateHits, Report!HashedCompletions
    <2>2. QED  BY <1>2, <2>1, FS_Subset
  <1>5. \A T : IsFiniteSet(Report!First(T))
    BY <1>3 DEF Report!First
  <1>6. IsFiniteSet(IF Report!RetriesScheduled(log) > RetryLimit THEN {0} ELSE {})
    BY <1>3
  <1>7. IsFiniteSet(IF max # NoLimit /\ Report!TraceCost(log) > max THEN {0} ELSE {})
    BY <1>3
  <1>8. CASE PolicyOf[p].mode = "absent"
    BY <1>3, <1>8 DEF Report!Hits
  <1>9. CASE PolicyOf[p].mode # "absent"
    <2>1. p = "duplicate_tool_protection" => Report!Hits(p, log, max) = Report!DuplicateHits(log)
      BY <1>9 DEF Report!Hits
    <2>2. p = "retry_budget" => Report!Hits(p, log, max)
              = IF Report!RetriesScheduled(log) > RetryLimit THEN {0} ELSE {}
      BY <1>9 DEF Report!Hits
    <2>3. p = "cost_budget" => Report!Hits(p, log, max)
              = IF max # NoLimit /\ Report!TraceCost(log) > max THEN {0} ELSE {}
      BY <1>9 DEF Report!Hits
    <2>4. p = "stall_protection" => Report!Hits(p, log, max) = Report!First(Report!SlowSteps(log))
      BY <1>9 DEF Report!Hits
    <2>5. p = "loop_protection" => Report!Hits(p, log, max) = Report!First(Report!Repeats(log))
      BY <1>9 DEF Report!Hits
    <2>6. QED  BY <1>4, <1>5, <1>6, <1>7, <2>1, <2>2, <2>3, <2>4, <2>5 DEF Report!PolicyIds
  <1>10. QED  BY <1>8, <1>9

\* What is made of reports is a report.
LEMMA ReportsJoin ==
    ASSUME NEW ss, IsSeq(ss), \A i \in 1 .. Len(ss) : Reported(ss[i])
    PROVE  Reported(Report!FlattenSeq(ss))
  <1> DEFINE w == FlattenSeq(ss)
  <1>1. \A i \in 1 .. Len(ss) : IsSeq(ss[i])
    BY DEF Reported
  <1>2. /\ IsSeq(w)
        /\ \A k \in 1 .. Len(w) : \E i \in 1 .. Len(ss) : \E j \in 1 .. Len(ss[i]) : w[k] = ss[i][j]
    BY <1>1, FlattenSeqs
  <1> HIDE DEF w
  <1>3. Reported(w)
    BY <1>2 DEF Reported
  <1>4. QED  BY <1>3, ReportNames DEF w

\* The hits of one policy, reported.
LEMMA ReportsReport ==
    ASSUME NEW log, IsSeq(log), NEW p \in Report!PolicyIds, NEW action, NEW max
    PROVE  Reported(Report!Reports(p, action, log, max))
  <1> DEFINE H == Report!Hits(p, log, max)
             n == Cardinality(H)
             hits == Report!Ascending(H)
             tool(i) == IF i = 0 THEN NoTool ELSE log[i].tool
             pair(i) == [k \in 1 .. 2 |->
                           [event |-> Report!Intervention(p, action, tool(i))[k], at |-> i]]
             ss == [k \in DOMAIN hits |-> pair(hits[k])]
  <1>1. n \in Nat
    <2>1. IsFiniteSet(H)
      BY HitsFinite
    <2>2. QED  BY <2>1, FS_CardinalityType
  <1>2. DOMAIN hits = 1 .. n
    BY ReportNames DEF Report!Ascending
  <1>3. Report!Reports(p, action, log, max) = Report!FlattenSeq(ss)
    BY DEF Report!Reports
  <1> HIDE DEF n, hits, H
  <1>4. \A k \in 1 .. n : Reported(pair(hits[k]))
    BY PairIs
  <1> HIDE DEF pair
  <1>5. IsSeq(ss) /\ Len(ss) = n /\ \A k \in 1 .. n : ss[k] = pair(hits[k])
    <2> DEFINE f == [k \in 1 .. n |-> pair(hits[k])]
    <2>1. ss = [k \in 1 .. n |-> f[k]] /\ \A k \in 1 .. n : f[k] = pair(hits[k])
      BY <1>2
    <2> HIDE DEF ss, f
    <2>2. QED  BY <1>1, <2>1, SeqBuild
  <1> HIDE DEF ss
  <1>6. Reported(Report!FlattenSeq(ss))
    BY <1>4, <1>5, ReportsJoin
  <1>7. QED  BY <1>3, <1>6

\* evaluate() and evaluate_observe() add triggers and interventions only.
LEMMA EvaluationReports ==
    ASSUME NEW log, IsSeq(log), NEW max
    PROVE  Reported(Report!Evaluated(log, max)) /\ Reported(Report!Observed(log))
  <1>1. Reported(Report!Evaluated(log, max))
    <2> DEFINE p(k) == Report!InOrder[k]
               ss == [k \in DOMAIN Report!InOrder |->
                        Report!Reports(p(k), Report!Decide(p(k)), log, max)]
    <2>1. DOMAIN Report!InOrder = 1 .. 5 /\ \A k \in 1 .. 5 : p(k) \in Report!PolicyIds
      BY DEF Report!InOrder, Report!PolicyIds
    <2>2. Report!Evaluated(log, max) = Report!FlattenSeq(ss)
      BY DEF Report!Evaluated
    <2> HIDE DEF p
    <2>3. \A k \in 1 .. 5 : Reported(Report!Reports(p(k), Report!Decide(p(k)), log, max))
      BY <2>1, ReportsReport
    <2>4. IsSeq(ss) /\ Len(ss) = 5 /\ \A k \in 1 .. 5 : Reported(ss[k])
      <3> DEFINE f == [k \in 1 .. 5 |-> Report!Reports(p(k), Report!Decide(p(k)), log, max)]
      <3>1. ss = [k \in 1 .. 5 |-> f[k]] /\ \A k \in 1 .. 5 : Reported(f[k])
        BY <2>1, <2>3
      <3> HIDE DEF ss, f
      <3>2. QED  BY <3>1, SeqBuild
    <2> HIDE DEF ss
    <2>5. QED  BY <2>2, <2>4, ReportsJoin
  <1>2. Reported(Report!Observed(log))
    <2> DEFINE r == Report!Reports("duplicate_tool_protection", "observe", log, NoLimit)
               q == Report!Reports("retry_budget", "observe", log, NoLimit)
    <2>1. /\ "duplicate_tool_protection" \in Report!PolicyIds
          /\ "retry_budget" \in Report!PolicyIds
      BY DEF Report!PolicyIds
    <2>2. Reported(r) /\ Reported(q)
      BY <2>1, ReportsReport
    <2>3. Report!Observed(log) = r \o q
      BY DEF Report!Observed
    <2> HIDE DEF r, q
    <2> DEFINE ss == << r, q >>
    <2>4. IsSeq(r) /\ IsSeq(q)
      BY <2>2 DEF Reported
    <2> DEFINE w == r \o q
    <2>5. /\ IsSeq(w) /\ Len(w) = Len(r) + Len(q)
          /\ \A i \in 1 .. Len(r) : w[i] = r[i]
          /\ \A i \in 1 .. Len(q) : w[Len(r) + i] = q[i]
      BY <2>4, SeqJoin
    <2>6. Len(r) \in Nat /\ Len(q) \in Nat
      BY <2>4, SeqShape
    <2> HIDE DEF w
    <2>7. ASSUME NEW k \in 1 .. Len(w)
          PROVE  IsEvent(w[k].event) /\ w[k].event.type \in Reporting
      <3>1. CASE k \in 1 .. Len(r)
        BY <2>2, <2>5, <3>1 DEF Reported
      <3>2. CASE k \notin 1 .. Len(r)
        <4>1. k - Len(r) \in 1 .. Len(q) /\ Len(r) + (k - Len(r)) = k
          BY <2>5, <2>6, <3>2
        <4>2. w[k] = q[k - Len(r)]
          BY <2>5, <4>1
        <4>3. QED  BY <2>2, <4>1, <4>2 DEF Reported
      <3>3. QED  BY <3>1, <3>2
    <2>8. QED  BY <2>3, <2>5, <2>7 DEF Reported, w
  <1>3. QED  BY <1>1, <1>2

\* The evaluation appended to the trace.
LEMMA EvaluateTraceKeeps ==
    ASSUME WorkflowInv, EvaluateTrace
    PROVE  WorkflowInv'
  <1> DEFINE found == IF job.set.enforce THEN Report!Evaluated(events, job.set.limit)
                                         ELSE Report!Observed(events)
             place(i) == IF i = 0 THEN Blank
                         ELSE [Blank EXCEPT !.step = notes[i].step, !.agent = notes[i].agent]
             said == [k \in DOMAIN found |->
                        [event |-> found[k].event, note |-> place(found[k].at)]]
  <1>1. Performs("evaluate") /\ Emit(said) /\ phase' = phase /\ node' = node
    BY DEF EvaluateTrace
  <1>2. IsSeq(events)
    BY DEF WorkflowInv, IsLog
  <1>3. Reported(found)
    BY <1>2, EvaluationReports
  <1>4. \A i : IsNote(place(i))
    BY DEF Blank, IsNote
  <1> HIDE DEF found, place
  <1>5. Len(found) \in Nat /\ DOMAIN found = 1 .. Len(found)
    BY <1>3, SeqShape DEF Reported
  <1>6. /\ IsSeq(said) /\ Len(said) = Len(found)
        /\ \A k \in 1 .. Len(found) : said[k] = [event |-> found[k].event, note |-> place(found[k].at)]
    <2> DEFINE n == Len(found)
               f == [k \in 1 .. n |-> [event |-> found[k].event, note |-> place(found[k].at)]]
    <2>1. /\ said = [k \in 1 .. n |-> f[k]]
          /\ \A k \in 1 .. n : f[k] = [event |-> found[k].event, note |-> place(found[k].at)]
      BY <1>5
    <2> HIDE DEF f, said
    <2>2. QED  BY <1>5, <2>1, SeqBuild
  <1> HIDE DEF said
  <1>7. \A k \in 1 .. Len(said) : /\ IsEvent(said[k].event) /\ IsNote(said[k].note)
                                  /\ said[k].event.type \in Quiet
    <2> TAKE k \in 1 .. Len(said)
    <2>1. said[k].event = found[k].event /\ said[k].note = place(found[k].at)
      <3>1. said[k] = [event |-> found[k].event, note |-> place(found[k].at)]
        BY <1>6
      <3>2. QED  BY <3>1
    <2>2. IsEvent(found[k].event) /\ found[k].event.type \in Reporting
      BY <1>3, <1>6 DEF Reported
    <2>3. QED  BY <1>4, <2>1, <2>2 DEF Quiet, Reporting
  <1>8. phase' \in {"new", "running", "finished"}
    BY <1>1 DEF WorkflowInv, TypeOK
  <1>9. QED  BY <1>1, <1>6, <1>7, <1>8, QuietKeeps

-----------------------------------------------------------------------------
(* What a call of the supervisor may add to the events.                    *)

\* The events of calls and of the guards in them.
CallTypes == CallEvents \cup Reporting

\* All but those that come in pairs and those that are served.
Ordinary == CallEvents \ {"optimization.applied"}

\* The tools and models an application may call, what is paid for, and where a
\* call of the one or the other is going on.
Names == {r.tool : r \in Every}
Completions == {"tool.completed", "model.completed"}
InTool == {"blocked", "lookup", "serve", "execute", "record", "guard"}
InModel == {"model_serve", "model_execute"}

\* Only what is completed costs anything, and it has a name.
Costed(e) ==
    /\ e.cost \in Nat
    /\ e.type \notin Completions => e.cost = 0
    /\ e.type \in Completions => e.tool \in Names

\* The call that is going on is one that an application makes.
Framed ==
    pc["app"] \in InTool \cup InModel =>
        frame["app"].req.cost \in Nat /\ frame["app"].req.tool \in Names

IsCallEvent(e) == IsEvent(e) /\ e.type \in CallTypes /\ (Framed => Costed(e))

\* At the places D of t each trigger has its intervention next to it.
Triggers(t, i) == t[i].type = "policy.triggered"
Applies(t, i) == t[i].type = "intervention.applied"

PairedIn(t, D) ==
    \A i \in D :
        /\ Triggers(t, i) => i + 1 \in D /\ Applies(t, i + 1) /\ t[i + 1].policy = t[i].policy
        /\ Applies(t, i) => i - 1 \in D /\ Triggers(t, i - 1)

\* A row of such events.
CallTail(es) ==
    /\ IsSeq(es)
    /\ PairedIn(es, 1 .. Len(es))
    /\ \A k \in 1 .. Len(es) :
           /\ IsCallEvent(es[k])
           /\ es[k].type = "optimization.applied" => k = 1 /\ pc["app"] = "serve"

Unserved(es) == \A k \in 1 .. Len(es) : es[k].type # "optimization.applied"

\* u is s with such a tail.
Extends(s, u) == \E es : CallTail(es) /\ u = s \o es

\* Where nothing is triggered or applied, all is in pairs.
LEMMA NonePaired ==
    ASSUME NEW t, NEW D, \A i \in D : t[i].type \notin Reporting
    PROVE  PairedIn(t, D)
  BY DEF PairedIn, Triggers, Applies, Reporting

\* No event,
LEMMA TailNone == CallTail(<< >>) /\ Unserved(<< >>)
  <1>1. IsSeq(<< >>) /\ Len(<< >>) = 0
    BY SeqNone
  <1> DEFINE e == << >>
  <1> HIDE DEF e
  <1>2. IsSeq(e) /\ Len(e) = 0
    BY <1>1 DEF e
  <1>3. CallTail(e) /\ Unserved(e)
    BY <1>2 DEF CallTail, Unserved, PairedIn
  <1>4. QED  BY <1>3 DEF e

\* one,
LEMMA TailOne ==
    ASSUME NEW e, IsCallEvent(e), e.type \in Ordinary
    PROVE  CallTail(<< e >>) /\ Unserved(<< e >>)
  <1> DEFINE s == << e >>
  <1>1. IsSeq(s) /\ Len(s) = 1 /\ s[1] = e
    BY SeqOne
  <1> HIDE DEF s
  <1>2. \A k \in 1 .. 1 : k = 1
    OBVIOUS
  <1>3. e.type \notin Reporting /\ e.type # "optimization.applied"
    BY DEF Ordinary, Reporting, CallEvents
  <1>4. PairedIn(s, 1 .. 1)
    BY <1>1, <1>2, <1>3, NonePaired
  <1>5. CallTail(s) /\ Unserved(s)
    BY <1>1, <1>2, <1>3, <1>4 DEF CallTail, Unserved
  <1>6. QED  BY <1>5 DEF s

\* two,
LEMMA TailTwo ==
    ASSUME NEW d, NEW e, IsCallEvent(d), IsCallEvent(e), e.type \in Ordinary,
           d.type \in Ordinary \/ (d.type = "optimization.applied" /\ pc["app"] = "serve")
    PROVE  CallTail(<< d, e >>) /\ (d.type \in Ordinary => Unserved(<< d, e >>))
  <1> DEFINE s == << d, e >>
  <1>1. IsSeq(s) /\ Len(s) = 2 /\ s[1] = d /\ s[2] = e
    BY SeqTwo
  <1> HIDE DEF s
  <1>2. \A k \in 1 .. 2 : k = 1 \/ k = 2
    OBVIOUS
  <1>3. /\ d.type \notin Reporting /\ e.type \notin Reporting /\ e.type # "optimization.applied"
        /\ d.type \in Ordinary => d.type # "optimization.applied"
    BY DEF Ordinary, Reporting, CallEvents
  <1>4. PairedIn(s, 1 .. 2)
    BY <1>1, <1>2, <1>3, NonePaired
  <1>5. CallTail(s)
    BY <1>1, <1>2, <1>3, <1>4 DEF CallTail
  <1>6. d.type \in Ordinary => Unserved(s)
    BY <1>1, <1>2, <1>3 DEF Unserved
  <1>7. QED  BY <1>5, <1>6 DEF s

\* or a decision and its intervention.
LEMMA TailPair ==
    ASSUME NEW d, NEW e, IsCallEvent(d), IsCallEvent(e), d.type = "policy.triggered",
           e.type = "intervention.applied", e.policy = d.policy
    PROVE  CallTail(<< d, e >>) /\ Unserved(<< d, e >>)
  <1> DEFINE s == << d, e >>
  <1>1. IsSeq(s) /\ Len(s) = 2 /\ s[1] = d /\ s[2] = e
    BY SeqTwo
  <1> HIDE DEF s
  <1>2. \A k \in 1 .. 2 : k = 1 \/ k = 2
    OBVIOUS
  <1>3. 1 \in 1 .. 2 /\ 1 + 1 = 2 /\ 2 \in 1 .. 2 /\ 2 - 1 = 1
    OBVIOUS
  <1>4. /\ Triggers(s, 1) /\ ~Applies(s, 1) /\ Applies(s, 2) /\ ~Triggers(s, 2)
        /\ s[2].policy = s[1].policy
    BY <1>1 DEF Triggers, Applies
  <1>5. PairedIn(s, 1 .. 2)
    BY <1>2, <1>3, <1>4 DEF PairedIn
  <1>6. \A k \in 1 .. 2 : IsCallEvent(s[k]) /\ s[k].type # "optimization.applied"
    BY <1>1, <1>2
  <1>7. CallTail(s) /\ Unserved(s)
    BY <1>1, <1>5, <1>6 DEF CallTail, Unserved
  <1>8. QED  BY <1>7 DEF s

\* One tail after another.
LEMMA JoinJoined ==
    ASSUME NEW s, NEW t, NEW u, IsSeq(s), IsSeq(t), IsSeq(u)
    PROVE  (s \o t) \o u = s \o (t \o u)
  <1> DEFINE st == s \o t
             tu == t \o u
             v == st \o u
             w == s \o tu
             l == Len(s)
             m == Len(t)
             n == Len(u)
  <1>1. l \in Nat /\ m \in Nat /\ n \in Nat
    BY SeqShape
  <1>2. /\ IsSeq(st) /\ Len(st) = l + m
        /\ \A i \in 1 .. l : st[i] = s[i]
        /\ \A i \in 1 .. m : st[l + i] = t[i]
    BY SeqJoin
  <1>3. /\ IsSeq(tu) /\ Len(tu) = m + n
        /\ \A i \in 1 .. m : tu[i] = t[i]
        /\ \A i \in 1 .. n : tu[m + i] = u[i]
    BY SeqJoin
  <1> HIDE DEF st, tu
  <1>4. /\ IsSeq(v) /\ Len(v) = Len(st) + n
        /\ \A i \in 1 .. Len(st) : v[i] = st[i]
        /\ \A i \in 1 .. n : v[Len(st) + i] = u[i]
    <2>1. IsSeq(st) /\ IsSeq(u)
      BY <1>2
    <2>2. QED  BY <2>1, SeqJoin
  <1>5. /\ IsSeq(w) /\ Len(w) = l + Len(tu)
        /\ \A i \in 1 .. l : w[i] = s[i]
        /\ \A i \in 1 .. Len(tu) : w[l + i] = tu[i]
    <2>1. IsSeq(s) /\ IsSeq(tu)
      BY <1>3
    <2>2. QED  BY <2>1, SeqJoin
  <1> HIDE DEF v, w, l, m, n
  <1>6. Len(v) = l + m + n /\ Len(w) = l + m + n
    BY <1>1, <1>2, <1>3, <1>4, <1>5
  <1>7. ASSUME NEW k \in 1 .. Len(v)
        PROVE  v[k] = w[k]
    <2>1. k \in 1 .. l + m + n
      BY <1>6
    <2>2. CASE k \in 1 .. l
      <3>1. k \in 1 .. l + m
        BY <1>1, <2>2
      <3>2. QED  BY <1>2, <1>4, <1>5, <2>2, <3>1
    <2>3. CASE k \in l + 1 .. l + m
      <3> DEFINE j == k - l
      <3>1. j \in 1 .. m /\ j \in 1 .. m + n /\ k \in 1 .. l + m /\ k = l + j
        BY <1>1, <2>3
      <3> HIDE DEF j
      <3>2. v[k] = t[j]
        BY <1>2, <1>4, <3>1
      <3>3. w[k] = t[j]
        BY <1>3, <1>5, <3>1
      <3>4. QED  BY <3>2, <3>3
    <2>4. CASE k \in l + m + 1 .. l + m + n
      <3> DEFINE j == k - (l + m)
      <3>1. j \in 1 .. n /\ m + j \in 1 .. m + n /\ k = (l + m) + j /\ k = l + (m + j)
        BY <1>1, <2>4
      <3> HIDE DEF j
      <3>2. v[k] = u[j]
        BY <1>2, <1>4, <3>1
      <3>3. w[k] = u[j]
        BY <1>3, <1>5, <3>1
      <3>4. QED  BY <3>2, <3>3
    <2>5. QED  BY <1>1, <2>1, <2>2, <2>3, <2>4
  <1>8. IsSeq(v) /\ IsSeq(w) /\ Len(v) = Len(w)
    BY <1>4, <1>5, <1>6
  <1>9. v = w
    BY <1>7, <1>8, SameSeq
  <1>10. QED  BY <1>9 DEF v, w, st, tu

\* What is in pairs stays so with more pairs after it.
LEMMA PairsJoin ==
    ASSUME NEW t, NEW f, NEW w, NEW m \in Nat, NEW n \in Nat,
           PairedIn(t, 1 .. m), PairedIn(f, 1 .. n),
           \A i \in 1 .. m : w[i] = t[i], \A i \in 1 .. n : w[m + i] = f[i]
    PROVE  PairedIn(w, 1 .. m + n)
  <1> DEFINE Fits(k) == /\ Triggers(w, k) => /\ k + 1 \in 1 .. m + n /\ Applies(w, k + 1)
                                           /\ w[k + 1].policy = w[k].policy
                        /\ Applies(w, k) => k - 1 \in 1 .. m + n /\ Triggers(w, k - 1)
  <1>1. ASSUME NEW k \in 1 .. m
        PROVE  Fits(k)
    <2>1. Triggers(w, k) => Fits(k)
      <3> HAVE Triggers(w, k)
      <3>1. Triggers(t, k) /\ ~Applies(w, k)
        BY <1>1 DEF Triggers, Applies
      <3>2. k + 1 \in 1 .. m /\ Applies(t, k + 1) /\ t[k + 1].policy = t[k].policy
        BY <1>1, <3>1 DEF PairedIn
      <3>3. k + 1 \in 1 .. m + n
        BY <3>2
      <3>4. w[k] = t[k] /\ w[k + 1] = t[k + 1]
        BY <1>1, <3>2
      <3>5. QED  BY <3>1, <3>2, <3>3, <3>4 DEF Applies
    <2>2. Applies(w, k) => Fits(k)
      <3> HAVE Applies(w, k)
      <3>1. Applies(t, k) /\ ~Triggers(w, k)
        BY <1>1 DEF Triggers, Applies
      <3>2. k - 1 \in 1 .. m /\ Triggers(t, k - 1)
        BY <1>1, <3>1 DEF PairedIn
      <3>3. k - 1 \in 1 .. m + n
        BY <3>2
      <3>4. w[k - 1] = t[k - 1]
        BY <3>2
      <3>5. QED  BY <3>1, <3>2, <3>3, <3>4 DEF Triggers
    <2>3. QED  BY <2>1, <2>2
  <1>2. ASSUME NEW j \in 1 .. n
        PROVE  Fits(m + j)
    <2> DEFINE k == m + j
    <2>1. w[k] = f[j]
      BY <1>2
    <2>2. Triggers(w, k) => Fits(k)
      <3> HAVE Triggers(w, k)
      <3>1. Triggers(f, j) /\ ~Applies(w, k)
        BY <2>1 DEF Triggers, Applies
      <3>2. j + 1 \in 1 .. n /\ Applies(f, j + 1) /\ f[j + 1].policy = f[j].policy
        BY <1>2, <3>1 DEF PairedIn
      <3>3. k + 1 \in 1 .. m + n /\ k + 1 = m + (j + 1)
        BY <3>2
      <3>4. w[k + 1] = f[j + 1]
        BY <3>2, <3>3
      <3>5. QED  BY <2>1, <3>1, <3>2, <3>3, <3>4 DEF Applies
    <2>3. Applies(w, k) => Fits(k)
      <3> HAVE Applies(w, k)
      <3>1. Applies(f, j) /\ ~Triggers(w, k)
        BY <2>1 DEF Triggers, Applies
      <3>2. j - 1 \in 1 .. n /\ Triggers(f, j - 1)
        BY <1>2, <3>1 DEF PairedIn
      <3>3. k - 1 \in 1 .. m + n /\ k - 1 = m + (j - 1)
        BY <3>2
      <3>4. w[k - 1] = f[j - 1]
        BY <3>2, <3>3
      <3>5. QED  BY <3>1, <3>2, <3>3, <3>4 DEF Triggers
    <2>4. QED  BY <2>2, <2>3
  <1>3. ASSUME NEW k \in 1 .. m + n, k \notin 1 .. m
        PROVE  Fits(k)
    <2>1. k - m \in 1 .. n /\ m + (k - m) = k
      BY <1>3
    <2> HIDE DEF Fits
    <2>2. Fits(m + (k - m))
      BY <1>2, <2>1
    <2>3. QED  BY <2>1, <2>2
  <1>4. QED  BY <1>1, <1>3 DEF PairedIn

\* What two steps add is what one may add.
LEMMA TailsJoin ==
    ASSUME NEW es, NEW fs, CallTail(es), CallTail(fs), Unserved(fs)
    PROVE  CallTail(es \o fs)
  <1> DEFINE w == es \o fs
             m == Len(es)
             n == Len(fs)
  <1>1. IsSeq(es) /\ IsSeq(fs)
    BY DEF CallTail
  <1>2. m \in Nat /\ n \in Nat
    BY <1>1, SeqShape
  <1>3. /\ IsSeq(w) /\ Len(w) = m + n
        /\ \A i \in 1 .. m : w[i] = es[i]
        /\ \A i \in 1 .. n : w[m + i] = fs[i]
    BY <1>1, SeqJoin
  <1> DEFINE Fits(e, k) == /\ IsCallEvent(e)
                           /\ e.type = "optimization.applied" => k = 1 /\ pc["app"] = "serve"
  <1>4. /\ \A i \in 1 .. m : Fits(es[i], i)
        /\ \A i \in 1 .. n : Fits(fs[i], i) /\ fs[i].type # "optimization.applied"
    BY DEF CallTail, Unserved
  <1> HIDE DEF w, m, n
  <1>5. \A k \in 1 .. m + n : Fits(w[k], k)
    <2> TAKE k \in 1 .. m + n
    <2>1. CASE k \in 1 .. m
      BY <1>3, <1>4, <2>1
    <2>2. CASE k \notin 1 .. m
      <3>1. k - m \in 1 .. n /\ m + (k - m) = k
        BY <1>2, <2>2
      <3>2. w[k] = fs[k - m]
        BY <1>3, <3>1
      <3>3. QED  BY <1>4, <3>1, <3>2
    <2>3. QED  BY <2>1, <2>2
  <1>6. PairedIn(w, 1 .. m + n)
    <2>1. PairedIn(es, 1 .. m) /\ PairedIn(fs, 1 .. n)
      BY DEF CallTail, m, n
    <2>2. QED  BY <1>2, <1>3, <2>1, PairsJoin
  <1>7. QED  BY <1>3, <1>5, <1>6 DEF CallTail, w

\* Two tails added to the events.
LEMMA ExtendsOn ==
    ASSUME NEW s, IsSeq(s), NEW es, NEW fs, CallTail(es), CallTail(fs), Unserved(fs)
    PROVE  Extends(s, s \o es \o fs)
  <1>1. (s \o es) \o fs = s \o (es \o fs)
    BY JoinJoined DEF CallTail
  <1>2. CallTail(es \o fs)
    BY TailsJoin
  <1>3. QED  BY <1>1, <1>2 DEF Extends

\* Nothing, and one event.
LEMMA ExtendsBit ==
    ASSUME NEW s, IsSeq(s)
    PROVE  /\ Extends(s, s)
           /\ \A e : IsCallEvent(e) /\ e.type \in Ordinary => Extends(s, Append(s, e))
  <1>1. PICK A : s \in Seq(A)
    BY DEF IsSeq
  <1>2. s = s \o << >>
    BY <1>1
  <1>3. Extends(s, s)
    BY <1>2, TailNone DEF Extends
  <1>4. ASSUME NEW e, IsCallEvent(e), e.type \in Ordinary
        PROVE  Extends(s, Append(s, e))
    <2> DEFINE B == A \cup {e}
    <2>1. s \in Seq(B) /\ e \in B
      BY <1>1
    <2> HIDE DEF B
    <2>2. Append(s, e) = s \o << e >>
      BY <2>1
    <2>3. QED  BY <1>4, <2>2, TailOne DEF Extends
  <1>5. QED  BY <1>3, <1>4

\* What a step of a call does to what the invariant speaks of.
Went ==
    /\ Extends(events, events')
    /\ phase' = phase
    /\ \E l \in Labels : pc' = [pc EXCEPT !["app"] = l]

\* One event is appended.
LEMMA WentOne ==
    ASSUME IsSeq(events), NEW e, IsCallEvent(e), e.type \in Ordinary,
           events' = Append(events, e), phase' = phase,
           NEW l \in Labels, pc' = [pc EXCEPT !["app"] = l]
    PROVE  Went
  BY ExtendsBit DEF Went

\* None is.
LEMMA WentNone ==
    ASSUME IsSeq(events), events' = events, phase' = phase,
           NEW l \in Labels, pc' = [pc EXCEPT !["app"] = l]
    PROVE  Went
  BY ExtendsBit DEF Went

\* Two tails are.
LEMMA WentTails ==
    ASSUME IsSeq(events), NEW es, NEW fs, CallTail(es), CallTail(fs), Unserved(fs),
           events' = events \o es \o fs, phase' = phase,
           NEW l \in Labels, pc' = [pc EXCEPT !["app"] = l]
    PROVE  Went
  BY ExtendsOn DEF Went

\* One tail is.
LEMMA WentTail ==
    ASSUME IsSeq(events), NEW es, CallTail(es), events' = events \o es, phase' = phase,
           NEW l \in Labels, pc' = [pc EXCEPT !["app"] = l]
    PROVE  Went
  BY DEF Went, Extends

\* The events the supervisor makes.
LEMMA CallEventsMade ==
    ASSUME NEW en, NEW op, NEW ap, NEW li
    PROVE  /\ \A type \in CallEvents \ Completions : \A tool, status :
                  LET e == S(en, op, ap, li)!Plain(type, tool, status)
                  IN  IsCallEvent(e) /\ e.type = type
           /\ \A type \in CallEvents \ Completions : \A r, status, dup :
                  LET e == S(en, op, ap, li)!ToolEvent(type, r, status, dup, 0)
                  IN  IsCallEvent(e) /\ e.type = type
           /\ \A status, dup, amount :
                  LET e == S(en, op, ap, li)!ToolEvent("tool.completed", frame["app"].req, status,
                                                       dup, amount)
                  IN  (pc["app"] \in InTool /\ (Framed => amount \in Nat)) =>
                          IsCallEvent(e) /\ e.type = "tool.completed"
           /\ \A p, action, tool : LET es == S(en, op, ap, li)!Intervention(p, action, tool)
                                   IN  CallTail(es) /\ Unserved(es)
           /\ \A p, action, tool : CallTail(S(en, op, ap, li)!Emitted(p, action, tool))
  <1>1. ASSUME NEW type \in CallEvents \ Completions, NEW tool, NEW status
        PROVE  LET e == S(en, op, ap, li)!Plain(type, tool, status)
               IN  IsCallEvent(e) /\ e.type = type
    <2> DEFINE e == S(en, op, ap, li)!Plain(type, tool, status)
    <2>1. IsEvent(e) /\ e.type = type /\ e.cost = 0
      BY DEF S!Plain, IsEvent
    <2> HIDE DEF e
    <2>2. QED  BY <2>1 DEF IsCallEvent, CallTypes, Costed, e
  <1>2. ASSUME NEW type \in CallEvents \ Completions, NEW r, NEW status, NEW dup
        PROVE  LET e == S(en, op, ap, li)!ToolEvent(type, r, status, dup, 0)
               IN  IsCallEvent(e) /\ e.type = type
    <2> DEFINE e == S(en, op, ap, li)!ToolEvent(type, r, status, dup, 0)
    <2>1. IsEvent(e) /\ e.type = type /\ e.cost = 0
      BY DEF S!ToolEvent, S!Plain, IsEvent
    <2> HIDE DEF e
    <2>2. QED  BY <2>1 DEF IsCallEvent, CallTypes, Costed, e
  <1>3. ASSUME NEW status, NEW dup, NEW amount, pc["app"] \in InTool, Framed => amount \in Nat
        PROVE  LET e == S(en, op, ap, li)!ToolEvent("tool.completed", frame["app"].req, status,
                                                    dup, amount)
               IN  IsCallEvent(e) /\ e.type = "tool.completed"
    <2> DEFINE r == frame["app"].req
               e == S(en, op, ap, li)!ToolEvent("tool.completed", r, status, dup, amount)
    <2>1. IsEvent(e) /\ e.type = "tool.completed" /\ e.cost = amount /\ e.tool = r.tool
      BY DEF S!ToolEvent, S!Plain, IsEvent
    <2>2. Framed => r.tool \in Names
      BY <1>3 DEF Framed
    <2> HIDE DEF e, r
    <2>3. Framed => Costed(e)
      BY <1>3, <2>1, <2>2 DEF Costed, Completions
    <2>4. IsCallEvent(e)
      BY <2>1, <2>3 DEF IsCallEvent, CallTypes, CallEvents
    <2>5. QED  BY <2>1, <2>4 DEF e, r
  <1>4. ASSUME NEW p, NEW action, NEW tool
        PROVE  LET es == S(en, op, ap, li)!Intervention(p, action, tool)
               IN  CallTail(es) /\ Unserved(es)
    <2> DEFINE d == [S(en, op, ap, li)!Plain("policy.triggered", tool, "none")
                        EXCEPT !.policy = p, !.action = action]
               e == [S(en, op, ap, li)!Plain("intervention.applied", tool, "none")
                        EXCEPT !.policy = p, !.action = action]
    <2>1. IsEvent(d) /\ d.type = "policy.triggered" /\ d.cost = 0 /\ d.policy = p
      BY DEF S!Plain, IsEvent
    <2>2. IsEvent(e) /\ e.type = "intervention.applied" /\ e.cost = 0 /\ e.policy = p
      BY DEF S!Plain, IsEvent
    <2>3. S(en, op, ap, li)!Intervention(p, action, tool) = << d, e >>
      BY DEF S!Intervention
    <2> HIDE DEF d, e
    <2>4. IsCallEvent(d) /\ IsCallEvent(e)
      BY <2>1, <2>2 DEF IsCallEvent, CallTypes, Reporting, Costed, Completions
    <2>5. QED  BY <2>1, <2>2, <2>3, <2>4, TailPair
  <1>5. ASSUME NEW p, NEW action, NEW tool
        PROVE  CallTail(S(en, op, ap, li)!Emitted(p, action, tool))
    BY <1>4, TailNone DEF S!Emitted
  <1>6. QED  BY <1>1, <1>2, <1>3, <1>4, <1>5

\* The types of the events a call makes.
LEMMA CallTypesAre ==
    /\ "tool.requested" \in CallEvents \ Completions
    /\ "model.requested" \in CallEvents \ Completions
    /\ "retry.scheduled" \in CallEvents \ Completions
    /\ "retry.completed" \in CallEvents \ Completions
    /\ "optimization.applied" \in CallEvents \ Completions
    /\ "optimization.recommended" \in CallEvents \ Completions
    /\ {"tool.requested", "model.requested", "retry.scheduled", "retry.completed",
        "tool.completed", "model.completed", "optimization.recommended"} \subseteq Ordinary
    /\ Completions \subseteq CallTypes
  BY DEF CallTypes, CallEvents, Completions, Ordinary

-----------------------------------------------------------------------------
(* tool()                                                                  *)

\* The check for a duplicate, with which tool() begins.
LEMMA ToolCheckAdds ==
    ASSUME IsSeq(events), NEW en, NEW op, NEW ap, NEW li, NEW r,
           S(en, op, ap, li)!ToolCheck("app", r)
    PROVE  Went
  <1>1. /\ events' = events /\ phase' = phase
        /\ \E l \in {"blocked", "lookup"} : pc' = [pc EXCEPT !["app"] = l]
    BY DEF S!ToolCheck, S!Goto
  <1>2. QED  BY <1>1, WentNone DEF Labels

\* A duplicate is answered without running.
LEMMA ToolBlockedAdds ==
    ASSUME IsSeq(events), NEW en, NEW op, NEW ap, NEW li,
           S(en, op, ap, li)!ToolBlocked("app")
    PROVE  Went
  <1> DEFINE r == frame["app"].req
             es == S(en, op, ap, li)!Intervention("duplicate_tool_protection", "block", r.tool)
             d == S(en, op, ap, li)!ToolEvent("tool.requested", r, "none", TRUE, 0)
             e == S(en, op, ap, li)!ToolEvent("tool.completed", r, "blocked", TRUE, 0)
  <1>1. /\ events' = events \o es \o << d, e >> /\ phase' = phase
        /\ pc' = [pc EXCEPT !["app"] = "idle"] /\ pc["app"] = "blocked"
    BY DEF S!ToolBlocked, S!Return, S!Goto
  <1>2. CallTail(es) /\ IsCallEvent(d) /\ d.type = "tool.requested"
    <2>1. CallTail(es)
      BY CallEventsMade
    <2>2. \A dup : LET f == S(en, op, ap, li)!ToolEvent("tool.requested", r, "none", dup, 0)
                   IN  IsCallEvent(f) /\ f.type = "tool.requested"
      BY CallEventsMade, CallTypesAre
    <2>3. IsCallEvent(d) /\ d.type = "tool.requested"
      BY <2>2, Zenon
    <2>4. QED  BY <2>1, <2>3
  <1>6. IsCallEvent(e) /\ e.type = "tool.completed"
    <2>1. 0 \in Nat /\ pc["app"] \in InTool
      BY <1>1 DEF InTool
    <2>2. \A dup : LET f == S(en, op, ap, li)!ToolEvent("tool.completed", r, "blocked", dup, 0)
                   IN  IsCallEvent(f) /\ f.type = "tool.completed"
      BY <2>1, CallEventsMade
    <2>3. QED  BY <2>2, Zenon
  <1> HIDE DEF es, d, e
  <1>3. CallTail(<< d, e >>) /\ Unserved(<< d, e >>)
    BY <1>2, <1>6, CallTypesAre, TailTwo
  <1>4. "idle" \in Labels
    BY DEF Labels
  <1>5. QED  BY <1>1, <1>2, <1>3, <1>4, WentTails

\* The request and the lookup of the cache.
LEMMA ToolLookupAdds ==
    ASSUME IsSeq(events), NEW en, NEW op, NEW ap, NEW li,
           S(en, op, ap, li)!ToolLookup("app")
    PROVE  Went
  <1> DEFINE e == S(en, op, ap, li)!ToolEvent("tool.requested", frame["app"].req, "none",
                                              frame["app"].dup, 0)
  <1>1. /\ events' = Append(events, e) /\ phase' = phase
        /\ \E l \in {"serve", "execute"} : pc' = [pc EXCEPT !["app"] = l]
    BY DEF S!ToolLookup, S!Goto
  <1>2. IsCallEvent(e) /\ e.type \in Ordinary
    BY CallEventsMade, CallTypesAre
  <1> HIDE DEF e
  <1>3. PICK l \in Labels : pc' = [pc EXCEPT !["app"] = l]
    BY <1>1 DEF Labels
  <1>4. QED  BY <1>1, <1>2, <1>3, WentOne

\* A cached result is served.
LEMMA ToolServeAdds ==
    ASSUME IsSeq(events), NEW en, NEW op, NEW ap, NEW li,
           S(en, op, ap, li)!ToolServe("app")
    PROVE  Went
  <1> DEFINE r == frame["app"].req
             d == S(en, op, ap, li)!Plain("optimization.applied", r.tool, "none")
             e == S(en, op, ap, li)!ToolEvent("tool.completed", r, "ok", frame["app"].dup,
                                              S(en, op, ap, li)!ServedCost(r))
  <1>1. /\ events' = events \o << d, e >> /\ phase' = phase
        /\ pc' = [pc EXCEPT !["app"] = "idle"] /\ pc["app"] = "serve"
    BY DEF S!ToolServe, S!Return, S!Goto
  <1>2. IsCallEvent(d) /\ d.type = "optimization.applied"
    BY CallEventsMade, CallTypesAre
  <1>6. IsCallEvent(e) /\ e.type = "tool.completed"
    <2>1. S(en, op, ap, li)!ServedCost(r) \in Nat
      BY DEF S!ServedCost
    <2>2. pc["app"] \in InTool
      BY <1>1 DEF InTool
    <2>3. QED  BY <2>1, <2>2, CallEventsMade
  <1> HIDE DEF d, e
  <1>3. CallTail(<< d, e >>)
    BY <1>1, <1>2, <1>6, CallTypesAre, TailTwo
  <1>4. "idle" \in Labels
    BY DEF Labels
  <1>5. QED  BY <1>1, <1>3, <1>4, WentTail

\* An exception of a tool or a model.
LEMMA RaiseAdds ==
    ASSUME IsSeq(events), NEW en, NEW op, NEW ap, NEW li,
           \/ S(en, op, ap, li)!ToolRaise("app")
           \/ S(en, op, ap, li)!ModelRaise("app")
    PROVE  Went
  <1>1. events' = events /\ phase' = phase /\ pc' = [pc EXCEPT !["app"] = "idle"]
    BY DEF S!ToolRaise, S!ModelRaise, S!Return, S!Goto
  <1>2. "idle" \in Labels
    BY DEF Labels
  <1>3. QED  BY <1>1, <1>2, WentNone

\* The tool returns.
LEMMA ToolReturnAdds ==
    ASSUME IsSeq(events), NEW en, NEW op, NEW ap, NEW li,
           S(en, op, ap, li)!ToolReturn("app")
    PROVE  Went
  <1> DEFINE r == frame["app"].req
             status == IF r.failed THEN "error" ELSE "ok"
             d == S(en, op, ap, li)!Plain("optimization.recommended", r.tool, "none")
             es == IF op = "dry_run" /\ frame["app"].match # "none" THEN << d >> ELSE << >>
             e == S(en, op, ap, li)!ToolEvent("tool.completed", r, status, frame["app"].dup, r.cost)
  <1>1. /\ events' = events \o es \o << e >> /\ phase' = phase
        /\ pc' = [pc EXCEPT !["app"] = "record"] /\ pc["app"] = "execute"
    BY DEF S!ToolReturn, S!Goto
  <1>2. IsCallEvent(d) /\ d.type \in Ordinary
    BY CallEventsMade, CallTypesAre
  <1>7. IsCallEvent(e) /\ e.type \in Ordinary
    <2>1. pc["app"] \in InTool /\ (Framed => r.cost \in Nat)
      BY <1>1 DEF InTool, Framed
    <2>2. QED  BY <2>1, CallEventsMade, CallTypesAre
  <1>3. es = << >> \/ es = << d >>
    OBVIOUS
  <1> HIDE DEF d, e, es
  <1>4. CallTail(es) /\ CallTail(<< e >>) /\ Unserved(<< e >>)
    BY <1>2, <1>7, <1>3, TailNone, TailOne
  <1>5. "record" \in Labels
    BY DEF Labels
  <1>6. QED  BY <1>1, <1>4, <1>5, WentTails

\* Its cost and its result are recorded.
LEMMA ToolRecordAdds ==
    ASSUME IsSeq(events), NEW en, NEW op, NEW ap, NEW li,
           S(en, op, ap, li)!ToolRecord("app")
    PROVE  Went
  <1>1. events' = events /\ phase' = phase /\ pc' = [pc EXCEPT !["app"] = "guard"]
    BY DEF S!ToolRecord, S!Goto
  <1>2. "guard" \in Labels
    BY DEF Labels
  <1>3. QED  BY <1>1, <1>2, WentNone

\* Where a decision lets a call continue.
LEMMA ContinueIs ==
    ASSUME NEW en, NEW op, NEW ap, NEW li, NEW action
    PROVE  S(en, op, ap, li)!Continue(action, "idle") \in {"idle", "stopped", "paused"}
  BY DEF S!Continue

\* The cost guard.
LEMMA ToolGuardAdds ==
    ASSUME IsSeq(events), NEW en, NEW op, NEW ap, NEW li,
           S(en, op, ap, li)!ToolGuard("app")
    PROVE  Went
  <1> DEFINE r == frame["app"].req
             action == IF S(en, op, ap, li)!CostExceeded
                       THEN S(en, op, ap, li)!Decide("cost_budget") ELSE "observe"
             es == S(en, op, ap, li)!Emitted("cost_budget", action, r.tool)
             l == S(en, op, ap, li)!Continue(action, "idle")
  <1>1. events' = events \o es /\ phase' = phase /\ pc' = [pc EXCEPT !["app"] = l]
    BY DEF S!ToolGuard, S!Goto
  <1> HIDE DEF action
  <1>2. CallTail(es) /\ l \in Labels
    BY CallEventsMade, ContinueIs DEF Labels
  <1> HIDE DEF es, l
  <1>3. QED  BY <1>1, <1>2, WentTail

-----------------------------------------------------------------------------
(* model() and retry()                                                     *)

\* model() begins.
LEMMA ModelLookupAdds ==
    ASSUME IsSeq(events), NEW en, NEW op, NEW ap, NEW li, NEW r,
           S(en, op, ap, li)!ModelLookup("app", r)
    PROVE  Went
  <1> DEFINE e == S(en, op, ap, li)!Plain("model.requested", r.tool, "none")
  <1>1. /\ events' = Append(events, e) /\ phase' = phase
        /\ \E l \in {"model_serve", "model_execute"} : pc' = [pc EXCEPT !["app"] = l]
    BY DEF S!ModelLookup, S!Goto
  <1>2. IsCallEvent(e) /\ e.type \in Ordinary
    BY CallEventsMade, CallTypesAre
  <1> HIDE DEF e
  <1>3. PICK l \in Labels : pc' = [pc EXCEPT !["app"] = l]
    BY <1>1 DEF Labels
  <1>4. QED  BY <1>1, <1>2, <1>3, WentOne

\* The model returns.
LEMMA ModelReturnAdds ==
    ASSUME IsSeq(events), NEW en, NEW op, NEW ap, NEW li,
           S(en, op, ap, li)!ModelReturn("app")
    PROVE  Went
  <1> DEFINE r == frame["app"].req
             d == S(en, op, ap, li)!Plain("optimization.recommended", r.tool, "none")
             es == IF S(en, op, ap, li)!Stores("app") /\ op = "dry_run" /\ frame["app"].match # "none"
                   THEN << d >> ELSE << >>
             e == [S(en, op, ap, li)!Plain("model.completed", r.tool, "ok") EXCEPT !.cost = r.cost]
  <1>1. /\ events' = events \o es \o << e >> /\ phase' = phase
        /\ pc' = [pc EXCEPT !["app"] = "idle"] /\ pc["app"] = "model_execute"
    BY DEF S!ModelReturn, S!Return, S!Goto
  <1>2. IsCallEvent(d) /\ d.type \in Ordinary
    BY CallEventsMade, CallTypesAre
  <1>7. IsCallEvent(e) /\ e.type \in Ordinary
    <2>1. Framed => r.cost \in Nat /\ r.tool \in Names
      BY <1>1 DEF InModel, Framed
    <2>2. IsEvent(e) /\ e.type = "model.completed" /\ e.cost = r.cost /\ e.tool = r.tool
      BY DEF S!Plain, IsEvent
    <2> HIDE DEF e, r
    <2>3. QED  BY <2>1, <2>2, CallTypesAre DEF IsCallEvent, Costed, Completions
  <1>3. es = << >> \/ es = << d >>
    OBVIOUS
  <1> HIDE DEF d, e, es
  <1>4. CallTail(es) /\ CallTail(<< e >>) /\ Unserved(<< e >>)
    BY <1>2, <1>7, <1>3, TailNone, TailOne
  <1>5. "idle" \in Labels
    BY DEF Labels
  <1>6. QED  BY <1>1, <1>4, <1>5, WentTails

\* retry() reads the counter,
LEMMA RetryReadAdds ==
    ASSUME IsSeq(events), NEW en, NEW op, NEW ap, NEW li, NEW t,
           S(en, op, ap, li)!RetryRead("app", t)
    PROVE  Went
  <1>1. /\ events' = events /\ phase' = phase
        /\ pc' = [pc EXCEPT !["app"] = "retry_inc"]
    BY DEF S!RetryRead, S!Goto
  <1>2. "retry_inc" \in Labels
    BY DEF Labels
  <1>3. QED  BY <1>1, <1>2, WentNone

\* stores it,
LEMMA RetryStoreAdds ==
    ASSUME IsSeq(events), NEW en, NEW op, NEW ap, NEW li,
           S(en, op, ap, li)!RetryStore("app")
    PROVE  Went
  <1>1. events' = events /\ phase' = phase /\ pc' = [pc EXCEPT !["app"] = "retry_guard"]
    BY DEF S!RetryStore, S!Goto
  <1>2. "retry_guard" \in Labels
    BY DEF Labels
  <1>3. QED  BY <1>1, <1>2, WentNone

\* and is stopped or schedules.
LEMMA RetryGuardAdds ==
    ASSUME IsSeq(events), NEW en, NEW op, NEW ap, NEW li,
           S(en, op, ap, li)!RetryGuard("app")
    PROVE  Went
  <1> DEFINE t == frame["app"].tool
             action == IF S(en, op, ap, li)!RetriesExhausted(t)
                       THEN S(en, op, ap, li)!Decide("retry_budget") ELSE "observe"
             es == S(en, op, ap, li)!Emitted("retry_budget", action, t)
             l == S(en, op, ap, li)!Continue(action, "idle")
             d == S(en, op, ap, li)!Plain("retry.scheduled", t, "none")
             e == S(en, op, ap, li)!Plain("retry.completed", t, "none")
             fs == IF l = "idle" THEN << d, e >> ELSE << >>
  <1>1. events' = events \o es \o fs /\ phase' = phase /\ pc' = [pc EXCEPT !["app"] = l]
    BY DEF S!RetryGuard, S!Goto
  <1> HIDE DEF action
  <1>2. CallTail(es) /\ l \in Labels
    BY CallEventsMade, ContinueIs DEF Labels
  <1>6. IsCallEvent(d) /\ d.type \in Ordinary /\ IsCallEvent(e) /\ e.type \in Ordinary
    BY CallEventsMade, CallTypesAre
  <1>3. fs = << >> \/ fs = << d, e >>
    OBVIOUS
  <1> HIDE DEF es, l, d, e, fs
  <1>4. CallTail(fs) /\ Unserved(fs)
    BY <1>2, <1>6, <1>3, TailNone, TailTwo
  <1>5. QED  BY <1>1, <1>2, <1>4, WentTails

\* A call begins or goes on.
LEMMA CallAdds ==
    ASSUME IsSeq(events), NEW en, NEW op, NEW ap, NEW li
    PROVE  /\ Begins(en, op, ap, li) =>
                  Went /\ at <= Len(Code) /\ Code[at].op \in CallOps
           /\ Proceeds(en, op, ap, li) => Went
  <1>1. ASSUME Begins(en, op, ap, li)
        PROVE  Went /\ at <= Len(Code) /\ Code[at].op \in CallOps
    <2>1. at <= Len(Code) /\ Code[at].op \in CallOps
      BY <1>1 DEF Begins, CallOps
    <2>2. \/ S(en, op, ap, li)!ToolCheck("app", Code[at].req)
          \/ S(en, op, ap, li)!ModelLookup("app", Code[at].req)
          \/ S(en, op, ap, li)!RetryRead("app", Code[at].req.tool)
      BY <1>1 DEF Begins
    <2>3. QED  BY <2>1, <2>2, ToolCheckAdds, ModelLookupAdds, RetryReadAdds
  <1>2. ASSUME Proceeds(en, op, ap, li)
        PROVE  Went
    BY <1>2, ToolBlockedAdds, ToolLookupAdds, ToolServeAdds, ToolReturnAdds, ToolRecordAdds,
       ToolGuardAdds, RaiseAdds, ModelReturnAdds, RetryStoreAdds, RetryGuardAdds DEF Proceeds
  <1>3. QED  BY <1>1, <1>2

\* What a call notes of its events.
LEMMA NoteIs ==
    ASSUME NEW e
    PROVE  /\ IsNote(NoteOf(e))
           /\ NoteOf(e).step = Code[at].step /\ NoteOf(e).agent = Code[at].agent
  BY DEF NoteOf, Here, Blank, IsNote

\* The events of a step of a call, each noted at the instruction.
LEMMA CallLogs ==
    ASSUME IsLog(events, notes), Extends(events, events'), Annotate
    PROVE  /\ IsLog(events, notes)' /\ Grown(Trace, Trace')
           /\ \A i \in New(Trace, Trace') : /\ Trace'[i].type \in CallTypes
                                            /\ By(Trace', i, PlaceOf(Code[at]))
  <1>1. PICK es : CallTail(es) /\ events' = events \o es
    BY DEF Extends
  <1> DEFINE m == Len(events)
             n == Len(es)
             ns == [k \in 1 .. n |-> NoteOf(events'[m + k])]
             t == TraceOf(events, notes)
             u == TraceOf(events \o es, notes \o ns)
  <1>2. IsSeq(events) /\ IsSeq(es) /\ m \in Nat /\ n \in Nat
    BY <1>1, SeqShape DEF IsLog, CallTail
  <1>3. Len(events') = m + n
    BY <1>1, <1>2, SeqJoin
  <1>4. notes' = notes \o ns
    <2>1. Len(events') - m = n
      BY <1>2, <1>3
    <2>2. QED  BY <2>1 DEF Annotate
  <1>5. /\ IsSeq(ns) /\ Len(ns) = n
        /\ \A k \in 1 .. n : /\ IsNote(ns[k])
                             /\ ns[k].step = Code[at].step /\ ns[k].agent = Code[at].agent
    <2> DEFINE f == [k \in 1 .. n |-> NoteOf(events'[m + k])]
    <2>1. ns = [k \in 1 .. n |-> f[k]] /\ \A k \in 1 .. n : f[k] = NoteOf(events'[m + k])
      OBVIOUS
    <2> HIDE DEF ns, f
    <2>2. IsSeq(ns) /\ Len(ns) = n /\ \A k \in 1 .. n : ns[k] = NoteOf(events'[m + k])
      BY <1>2, <2>1, SeqBuild
    <2>3. QED  BY <2>2, NoteIs
  <1> HIDE DEF ns
  <1>6. IsLog(es, ns)
    BY <1>1, <1>2, <1>5 DEF IsLog, CallTail, IsCallEvent
  <1>7. /\ IsLog(events \o es, notes \o ns) /\ Grown(t, u)
        /\ \A i \in New(t, u) : \E k \in 1 .. Len(es) :
               u[i].type = es[k].type /\ u[i].step = ns[k].step /\ u[i].agent = ns[k].agent
    BY <1>6, LogGrows
  <1>8. Trace = t /\ Trace' = u
    <2>1. Trace' = TraceOf(events', notes')
      BY DEF Trace, TraceOf
    <2>2. QED  BY <1>1, <1>4, <2>1, TraceNow
  <1> HIDE DEF t, u
  <1>9. IsLog(events, notes)'
    BY <1>1, <1>4, <1>7
  <1>10. ASSUME NEW i \in New(t, u)
         PROVE  u[i].type \in CallTypes /\ By(u, i, PlaceOf(Code[at]))
    <2>1. PICK k \in 1 .. n : u[i].type = es[k].type /\ u[i].step = ns[k].step /\ u[i].agent = ns[k].agent
      BY <1>7
    <2>2. es[k].type \in CallTypes
      BY <1>1 DEF CallTail, IsCallEvent
    <2>3. QED  BY <1>5, <2>1, <2>2 DEF By, PlaceOf
  <1>11. QED  BY <1>7, <1>8, <1>9, <1>10

\* Where a call is made, and what its step leaves.
LEMMA CallMade ==
    ASSUME WorkflowInv, Call
    PROVE  /\ job # NoJob /\ exc = "none" /\ Running /\ OnCourse /\ part = "main"
           /\ at \in 1 .. Len(Code) /\ Code[at].op \in CallOps
           /\ Allowed(job.app, Code[at], Now) /\ Went
  <1>1. PICK enforce, approved \in BOOLEAN, optimize \in {"off", "dry_run", "active"},
             limit \in {NoLimit, 1000000, 10000, 3000} :
          \/ Begins(enforce, optimize, approved, limit)
          \/ pc["app"] \notin {"idle", "stopped"} /\ Proceeds(enforce, optimize, approved, limit)
    BY DEF Call
  <1>2. job # NoJob /\ exc = "none"
    BY DEF Call
  <1>3. Running /\ IsSeq(events)
    BY <1>2 DEF WorkflowInv, IsLog
  <1>4. Went /\ at <= Len(Code) /\ Code[at].op \in CallOps
    <2>1. CASE Begins(enforce, optimize, approved, limit)
      BY <1>3, <2>1, CallAdds
    <2>2. CASE pc["app"] \notin {"idle", "stopped"} /\ Proceeds(enforce, optimize, approved, limit)
      <3>1. Went
        BY <1>3, <2>2, CallAdds
      <3>2. QED  BY <1>3, <2>2, <3>1 DEF Running, Resting
    <2>3. QED  BY <1>1, <2>1, <2>2
  <1>5. OnCourse
    BY <1>2, <1>3 DEF Running
  <1>6. at \in 1 .. Len(Code)
    <2>1. Len(Code) \in Nat /\ at \in 1 .. Len(Code) + 1
      BY <1>5, SeqShape DEF OnCourse
    <2>2. QED  BY <1>4, <2>1
  <1>7. part = "main"
    <2>1. part # "handler"
      BY <1>3, <1>4, <1>6, InHandler DEF CallOps
    <2>2. QED  BY <2>1 DEF WorkflowInv, TypeOK
  <1>8. Allowed(job.app, Code[at], Now)
    BY <1>5, <1>6 DEF OnCourse, Course
  <1>9. QED  BY <1>2, <1>3, <1>4, <1>5, <1>6, <1>7, <1>8

\* A step of tool(), model() or retry() keeps the invariant, whether the call goes
\* on, returns, raises or is interrupted by StopRun.
LEMMA CallKeeps ==
    ASSUME WorkflowInv, Call
    PROVE  WorkflowInv'
  <1> DEFINE t == Trace
             u == Trace'
             a == job.app
  <1>1. /\ job # NoJob /\ exc = "none" /\ Running /\ OnCourse /\ part = "main"
        /\ at \in 1 .. Len(Code) /\ Code[at].op \in CallOps
        /\ Allowed(job.app, Code[at], Now) /\ Went
    BY CallMade
  <1>2. /\ Annotate
        /\ exc' = IF pc'["app"] = "stopped" THEN "StopRun"
                  ELSE IF pc'["app"] = "idle" /\ answer'["app"].how = "raised" THEN "error"
                  ELSE "none"
        /\ at' = IF pc'["app"] = "idle" /\ exc' = "none" THEN at + 1 ELSE at
        /\ job' = job /\ part' = part /\ node' = node /\ env' = env /\ home' = home
        /\ past' = past
    BY DEF Call
  <1>3. phase' = phase /\ pc' \in [{"app"} -> Labels] /\ Extends(events, events')
    BY <1>1 DEF Went, WorkflowInv
  <1>4. Code' = Code /\ ProgramFor(job)' = ProgramFor(job)
    BY <1>2 DEF Code, ProgramFor
  <1>5. FairTrace(t, a) /\ NodeIs(t, node)
    BY <1>1 DEF Running
  <1>6. ~Judged(t) /\ ~Passed(t) /\ (a # "generic" => node = PlaceOf(Code[at]) /\ node # NoNode)
    <2>1. ~Now.judged /\ ~Now.passed /\ (a # "generic" => Now.node = PlaceOf(Code[at]) /\ Now.node \in Places)
      BY <1>1 DEF Allowed
    <2>2. Now.judged = Judged(t) /\ Now.passed = Passed(t) /\ Now.node = node
      BY DEF Now, Stage
    <2>3. QED  BY <2>1, <2>2, WorkflowAssumption DEF Places
  <1>7. /\ IsLog(events, notes)' /\ Grown(t, u)
        /\ \A i \in New(t, u) : u[i].type \in CallTypes /\ By(u, i, PlaceOf(Code[at]))
    BY <1>2, <1>3, CallLogs DEF WorkflowInv
  <1> HIDE DEF t, u, a
  <1>8. \A i \in New(t, u) : i \notin Marks(u) /\ ~Says(u, i) /\ ~Passes(u, i)
    BY <1>7 DEF CallTypes, Reporting, CallEvents, Marks, Says, Passes
  <1>9. FairTrace(u, a) /\ NodeIs(u, node)
    <2>1. Bracketed(t) /\ (a # "generic" => InPlace(t)) /\ Verdicts(t, a)
      BY <1>5 DEF FairTrace
    <2>2. Bracketed(u) /\ NodeIs(u, node)
      BY <1>5, <1>7, <1>8, <2>1, NodesQuiet
    <2>3. a # "generic" => InPlace(u)
      <3>1. a # "generic" => \A i \in New(t, u) : node # NoNode /\ By(u, i, node)
        BY <1>6, <1>7
      <3>2. QED  BY <1>5, <1>7, <1>8, <2>1, <3>1, NodesQuiet
    <2>4. ~Judged(u)
      BY <1>6, <1>7, <1>8, SaidIn
    <2>5. Verdicts(u, a)
      BY <1>7, <1>8, <2>1, <2>4, VerdictsOn
    <2>6. QED  BY <2>2, <2>3, <2>5 DEF FairTrace
  <1>10. Judged(u) = Judged(t) /\ Passed(u) = Passed(t) /\ ~Judged(u) /\ ~Passed(u)
    <2>1. (Judged(u) <=> Judged(t)) /\ (Passed(u) <=> Passed(t))
      BY <1>7, <1>8, SaidIn
    <2>2. QED  BY <1>6, <2>1 DEF Judged, Passed
  <1>11. Now' = Now /\ Moved(Code[at], Now) = Now
    <2>1. Now' = Stage(node, Judged(u), Passed(u)) /\ Now = Stage(node, Judged(t), Passed(t))
      BY <1>2 DEF Now, t, u
    <2>2. Judged(t) \in BOOLEAN /\ Passed(t) \in BOOLEAN
      BY DEF Judged, Passed
    <2>3. Code[at].op \notin {"enter", "leave", "finish", "validate"}
      BY <1>1 DEF CallOps
    <2>4. Moved(Code[at], Now) = Now
      BY <2>1, <2>2, <2>3 DEF Moved, Stage
    <2>5. QED  BY <1>10, <2>1, <2>4
  <1>12. OnCourse'
    <2>1. CASE at' = at + 1
      BY <1>1, <1>2, <1>4, <1>11, <2>1, Advance
    <2>2. CASE at' = at
      BY <1>1, <1>2, <1>4, <1>11, <2>2 DEF OnCourse
    <2>3. QED  BY <1>2, <2>1, <2>2
  <1>13. /\ exc' \in {"none", "error", "StopRun"}
         /\ exc' # "none" => pc'["app"] \in {"idle", "stopped"}
         /\ exc' = "StopRun" => pc'["app"] = "stopped"
         /\ pc'["app"] \notin Resting => exc' = "none" /\ at' = at
    BY <1>2 DEF Resting
  <1>14. TypeOK'
    <2>1. Len(notes') = Len(events')
      BY <1>7 DEF IsLog
    <2>2. at' \in Nat \ {0}
      BY <1>1, <1>2
    <2>3. QED  BY <1>1, <1>2, <1>3, <1>13, <2>1, <2>2 DEF WorkflowInv, TypeOK
  <1>15. Running'
    <2>1. FairTrace(Trace', job.app) /\ NodeIs(Trace', node) /\ ~Judged(Trace') /\ ~Passed(Trace')
      BY <1>9, <1>10 DEF u, a
    <2>2. pc'["app"] \notin Resting => exc' = "none" /\ at' <= Len(Code') /\ Code'[at'].op \in CallOps
      BY <1>1, <1>4, <1>13
    <2>3. QED  BY <1>1, <1>2, <1>4, <1>12, <2>1, <2>2 DEF Running
  <1>16. (past # << >> => Fair(Latest))'
    BY <1>2 DEF WorkflowInv, Latest
  <1>17. QED  BY <1>2, <1>3, <1>7, <1>14, <1>15, <1>16 DEF WorkflowInv

-----------------------------------------------------------------------------
(* An exception on its way up.                                             *)

\* The finally clause of node().
LEMMA UnwindKeeps ==
    ASSUME WorkflowInv, Unwind
    PROVE  WorkflowInv'
  <1> DEFINE t == Trace
             u == Trace'
             a == job.app
             note == [Blank EXCEPT !.step = node.step, !.agent = node.agent]
  <1>1. /\ job # NoJob /\ exc # "none" /\ node # NoNode
        /\ Emit(Said("agent.finished", "ok", note))
        /\ node' = NoNode /\ phase' = phase /\ pc' = pc /\ job' = job /\ at' = at
        /\ part' = part /\ exc' = exc /\ env' = env /\ home' = home /\ past' = past
    BY DEF Unwind
  <1>2. Running /\ part = "main" /\ ~Judged(t) /\ ~Passed(t) /\ FairTrace(t, a) /\ NodeIs(t, node)
    BY <1>1 DEF WorkflowInv, Running
  <1>3. IsNote(note) /\ note.step = node.step /\ note.agent = node.agent
    BY DEF Blank, IsNote
  <1> HIDE DEF t, u, a, note
  <1>4. /\ IsLog(events, notes)' /\ Grown(t, u) /\ Len(u) = Len(t) + 1
        /\ u[Len(u)].type = "agent.finished"
        /\ u[Len(u)].step = note.step /\ u[Len(u)].agent = note.agent
        /\ \A i \in New(t, u) : u[i].type = "agent.finished"
    BY <1>1, <1>3, OneMore DEF WorkflowInv, t, u
  <1>5. By(u, Len(u), node)
    BY <1>3, <1>4 DEF By
  <1>6. Bracketed(u) /\ NodeIs(u, NoNode) /\ (a # "generic" => InPlace(u))
    <2>1. Bracketed(t) /\ (a # "generic" => InPlace(t))
      BY <1>2 DEF FairTrace
    <2>2. QED  BY <1>1, <1>2, <1>4, <1>5, <2>1, NodesClose
  <1>7. Verdicts(u, a) /\ Judged(u) = Judged(t) /\ Passed(u) = Passed(t)
    <2>1. \A i \in New(t, u) : u[i].type \in {"agent.started", "agent.finished"}
      BY <1>4
    <2>2. QED  BY <1>2, <1>4, <2>1, MarkSays DEF FairTrace
  <1>8. FairTrace(Trace', job.app) /\ NodeIs(Trace', node') /\ ~Judged(Trace') /\ ~Passed(Trace')
    BY <1>1, <1>2, <1>6, <1>7 DEF FairTrace, u, a
  <1>9. TypeOK'
    BY <1>1, <1>2, <1>4 DEF WorkflowInv, TypeOK, IsLog
  <1>10. Running'
    <2>1. ProgramFor(job)' = ProgramFor(job)
      BY <1>1 DEF ProgramFor
    <2>2. QED  BY <1>1, <1>2, <1>8, <2>1 DEF Running
  <1>11. (past # << >> => Fair(Latest))'
    BY <1>1 DEF WorkflowInv, Latest
  <1>12. QED  BY <1>1, <1>4, <1>9, <1>10, <1>11 DEF WorkflowInv

\* Where a piece of a program begins, OnCourse holds.
LEMMA CourseBegins ==
    ASSUME NEW p \in BOOLEAN, NEW q \in BOOLEAN, at' = 1,
           Leads(job'.app, Code', Stage(NoNode, FALSE, p), Stage(NoNode, TRUE, q)),
           Now' = Stage(NoNode, FALSE, p)
    PROVE  OnCourse'
  <1>1. PICK c : /\ Course(job'.app, Code', c) /\ c[1] = Stage(NoNode, FALSE, p)
                 /\ c[Len(Code') + 1] = Stage(NoNode, TRUE, q)
    BY DEF Leads
  <1>2. IsSeq(Code') /\ Len(Code') \in Nat
    BY SeqShape DEF Leads
  <1>3. at' \in 1 .. Len(Code') + 1 /\ c[at'] = Now'
    BY <1>1, <1>2
  <1>4. c[Len(Code') + 1].judged /\ c[Len(Code') + 1].node = NoNode
    BY <1>1 DEF Stage
  <1>5. QED  BY <1>1, <1>2, <1>3, <1>4 DEF OnCourse

\* An except clause of the application.
LEMMA HandleKeeps ==
    ASSUME WorkflowInv, Handle
    PROVE  WorkflowInv'
  <1> DEFINE p == Passed(Trace)
  <1>1. /\ job # NoJob /\ exc # "none" /\ node = NoNode /\ exc \in ProgramFor(job).catches
        /\ part' = "handler" /\ at' = 1 /\ exc' = "none"
        /\ phase' = phase /\ pc' = pc /\ events' = events /\ notes' = notes
        /\ job' = job /\ node' = node /\ env' = env /\ home' = home /\ past' = past
    BY DEF Handle
  <1>2. Running /\ ~Judged(Trace) /\ ~Passed(Trace)
    BY <1>1 DEF WorkflowInv, Running
  <1>3. Trace' = Trace
    BY <1>1 DEF Trace
  <1>4. ProgramFor(job)' = ProgramFor(job) /\ Code' = ProgramFor(job).handler
    BY <1>1 DEF ProgramFor, Code
  <1>5. p \in BOOLEAN /\ Judged(Trace) \in BOOLEAN
    BY DEF Passed, Judged
  <1>6. Now' = Stage(NoNode, FALSE, p)
    BY <1>1, <1>2, <1>3, <1>5 DEF Now
  <1>7. ProgramFor(job).catches # {}
    BY <1>1
  <1>8. Leads(job.app, ProgramFor(job).handler, Stage(NoNode, FALSE, p), Stage(NoNode, TRUE, p))
    BY <1>2, <1>5, <1>7 DEF Running, Sound
  <1> HIDE DEF p
  <1>9. OnCourse'
    BY <1>1, <1>4, <1>5, <1>6, <1>8, CourseBegins
  <1>10. AllErrors(Trace)
    BY <1>2 DEF AllErrors, Judged
  <1>11. pc["app"] \in Resting
    BY <1>1 DEF WorkflowInv, TypeOK, Resting
  <1>12. Running'
    BY <1>1, <1>2, <1>3, <1>4, <1>7, <1>9, <1>10, <1>11 DEF Running
  <1>13. TypeOK'
    BY <1>1 DEF WorkflowInv, TypeOK
  <1>14. (past # << >> => Fair(Latest))'
    BY <1>1 DEF WorkflowInv, Latest
  <1>15. QED  BY <1>1, <1>12, <1>13, <1>14 DEF WorkflowInv

-----------------------------------------------------------------------------
(* Runs and processes.                                                     *)

\* Nothing has happened in a run that has no event.
LEMMA NothingYet ==
    ASSUME NEW a
    PROVE  LET t == TraceOf(<< >>, << >>)
           IN  /\ FairTrace(t, a) /\ NodeIs(t, NoNode) /\ ~Judged(t) /\ ~Passed(t)
               /\ IsLog(<< >>, << >>)
  <1> DEFINE t == TraceOf(<< >>, << >>)
  <1>1. IsSeq(<< >>) /\ Len(<< >>) = 0
    BY SeqNone
  <1>2. IsLog(<< >>, << >>)
    BY <1>1 DEF IsLog
  <1>3. IsSeq(t) /\ Len(t) = 0
    BY <1>1, <1>2, TraceIs
  <1> HIDE DEF t
  <1>4. DOMAIN t = {}
    BY <1>3, SeqShape
  <1>5. Marks(t) = {} /\ \A i : Upto(t, i) = {}
    BY <1>4 DEF Marks, Upto
  <1>6. Bracketed(t) /\ InPlace(t) /\ Verdicts(t, a) /\ ~Judged(t) /\ ~Passed(t)
    BY <1>4, <1>5 DEF Bracketed, InPlace, Verdicts, Judged, Passed
  <1>7. NodeIs(t, NoNode)
    BY <1>5 DEF NodeIs, Opened
  <1>8. QED  BY <1>2, <1>6, <1>7 DEF FairTrace, t

\* The settings of an application are switches.
LEMMA ProgramStarts ==
    ASSUME NEW a \in Apps, NEW s \in Scenarios(a), NEW session \in BOOLEAN, NEW around,
           NEW j, j.app = a, j.scenario = s, j.session = session, j.set = SettingsOf(a, around)
    PROVE  Sound(a, ProgramFor(j))
  <1> DEFINE f == [plan |-> j.set.plan, memory |-> j.set.memory, session |-> j.session]
             k == <<j.app, j.scenario, f>>
  <1>1. j.set.plan \in BOOLEAN /\ j.set.memory \in BOOLEAN
    BY DEF SettingsOf
  <1>2. f \in Flags
    BY <1>1 DEF Flags
  <1> HIDE DEF f
  <1>3. k \in Kinds
    BY <1>2 DEF Kinds
  <1>4. ProgramFor(j) = Program(a, s, f)
    BY <1>3 DEF ProgramFor, ProgramOf, f
  <1>5. QED  BY <1>4, ProgramSound

\* A run is started.
LEMMA StartJobKeeps ==
    ASSUME WorkflowInv, NEW a \in Apps, NEW s \in Scenarios(a), NEW session \in BOOLEAN,
           NEW cross \in BOOLEAN, NEW preset, StartJob(a, s, session, preset, cross)
    PROVE  WorkflowInv'
  <1> DEFINE around == IF preset = "none" THEN env ELSE Flagged(env, FlagPresets[preset])
             shared == cross \/ SettingsOf(a, around).file
             j == [app |-> a, scenario |-> s, session |-> session, preset |-> preset,
                   shared |-> shared, set |-> SettingsOf(a, around), before |-> env]
             x == Stage(NoNode, FALSE, FALSE)
  <1>1. /\ Comparable(a, s, preset, shared)
        /\ job' = j /\ env' = around
        /\ at' = 1 /\ part' = "main" /\ node' = NoNode /\ exc' = "none"
        /\ NewSupervisor(Requests(ProgramFor(j)), shared)
        /\ home' = home /\ past' = past
    BY DEF StartJob
  <1>2. DOMAIN around = Variables
    BY DEF WorkflowInv, TypeOK, Flagged
  <1>3. Sound(a, ProgramFor(j))
    <2>1. j.app = a /\ j.scenario = s /\ j.session = session /\ j.set = SettingsOf(a, around)
      OBVIOUS
    <2> HIDE DEF j, around, shared
    <2>2. QED  BY <2>1, ProgramStarts
  <1>4. job'.app = a
    BY <1>1
  <1> HIDE DEF around, j, shared
  <1>5. /\ phase' = "new" /\ events' = << >> /\ notes' = << >>
        /\ pc' = [c \in {"app"} |-> "idle"]
    BY <1>1 DEF NewSupervisor
  <1>6. pc' \in [{"app"} -> Labels] /\ pc'["app"] \in Resting /\ pc'["app"] \in {"idle", "stopped"}
    BY <1>5 DEF Labels, Resting
  <1>7. Trace' = TraceOf(<< >>, << >>)
    BY <1>5 DEF Trace, TraceOf
  <1>8. /\ FairTrace(Trace', a) /\ NodeIs(Trace', NoNode) /\ ~Judged(Trace') /\ ~Passed(Trace')
        /\ IsLog(<< >>, << >>)
    BY <1>7, NothingYet
  <1>9. IsLog(events, notes)' /\ Len(notes') = Len(events')
    BY <1>5, <1>8
  <1>10. Now' = x
    <2>1. Judged(Trace') = FALSE /\ Passed(Trace') = FALSE
      BY <1>8 DEF Judged, Passed
    <2>2. QED  BY <1>1, <2>1 DEF Now
  <1>11. ProgramFor(job)' = ProgramFor(j) /\ Code' = ProgramFor(j).main
    BY <1>1 DEF ProgramFor, Code
  <1>12. OnCourse'
    <2>1. PICK p \in BOOLEAN : Leads(a, ProgramFor(j).main, x, Stage(NoNode, TRUE, p))
      BY <1>3 DEF Sound
    <2> HIDE DEF x
    <2>2. Leads(job'.app, Code', x, Stage(NoNode, TRUE, p))
      BY <1>4, <1>11, <2>1
    <2> USE DEF x
    <2>3. QED  BY <1>1, <1>10, <2>2, CourseBegins
  <1>13. Len(past) < MaxRuns
    <2>1. past = << >> => Len(past) = 0
      BY SeqNone
    <2>2. QED  BY <1>1, <2>1, WorkflowAssumption DEF Comparable
  <1>14. Running'
    BY <1>1, <1>3, <1>4, <1>6, <1>8, <1>11, <1>12, <1>13 DEF Running
  <1>15. TypeOK'
    BY <1>1, <1>2, <1>5, <1>9 DEF WorkflowInv, TypeOK
  <1>16. (past # << >> => Fair(Latest))'
    BY <1>1 DEF WorkflowInv, Latest
  <1>17. QED  BY <1>1, <1>6, <1>9, <1>14, <1>15, <1>16 DEF WorkflowInv

\* A run more.
LEMMA OneLonger ==
    ASSUME NEW s, IsSeq(s), NEW r
    PROVE  /\ IsSeq(Append(s, r)) /\ Len(Append(s, r)) = Len(s) + 1 /\ Len(s) \in Nat
           /\ Append(s, r)[Len(s) + 1] = r
           /\ \A k \in 1 .. Len(s) : Append(s, r)[k] = s[k]
  <1>1. PICK A : s \in Seq(A)
    BY DEF IsSeq
  <1> DEFINE B == A \cup {r}
  <1>2. s \in Seq(B) /\ r \in B
    BY <1>1
  <1> HIDE DEF B
  <1>3. /\ Append(s, r) \in Seq(B) /\ Len(Append(s, r)) = Len(s) + 1
        /\ Append(s, r)[Len(s) + 1] = r /\ Len(s) \in Nat
        /\ \A k \in 1 .. Len(s) : Append(s, r)[k] = s[k]
    BY <1>2
  <1>4. QED  BY <1>3 DEF IsSeq

\* The trace of a run that ends is fair.
LEMMA EndsFair ==
    ASSUME WorkflowInv, EndJob
    PROVE  \E r : /\ past' = Append(past, r) /\ Fair(r) /\ r.trace = Trace /\ r.app = job.app
                  /\ r.preset = job.preset /\ r.shared = job.shared /\ r.set = job.set
                  /\ r.home = home
  <1> DEFINE escaped == exc # "none" /\ ~(part = "main" /\ exc \in ProgramFor(job).catches)
             raised == escaped \/ (part = "handler" /\ ProgramFor(job).reraises)
             r == [app |-> job.app, scenario |-> job.scenario, session |-> job.session,
                   preset |-> job.preset, shared |-> job.shared, set |-> job.set,
                   home |-> home, part |-> part, how |-> IF raised THEN "raised" ELSE "returned",
                   trace |-> Trace]
  <1>1. /\ job # NoJob /\ node = NoNode /\ past' = Append(past, r)
        /\ escaped \/ (exc = "none" /\ at > Len(Code))
    BY DEF EndJob
  <1>2. Running
    BY <1>1 DEF WorkflowInv
  <1>3. /\ r.trace = Trace /\ r.app = job.app /\ r.part = part
        /\ r.preset = job.preset /\ r.shared = job.shared /\ r.set = job.set
        /\ r.home = home
        /\ r.how = IF raised THEN "raised" ELSE "returned"
    OBVIOUS
  <1> HIDE DEF r
  <1>4. FairTrace(Trace, job.app) /\ NodeIs(Trace, NoNode)
    BY <1>1, <1>2 DEF Running
  <1>5. IsSeq(Trace)
    BY TraceNow, TraceIs DEF WorkflowInv
  <1>6. part = "handler" \/ raised => AllErrors(Trace)
    <2>1. part = "handler" => AllErrors(Trace)
      BY <1>2 DEF Running
    <2>2. exc # "none" => AllErrors(Trace)
      BY <1>2 DEF Running, Judged, AllErrors
    <2>3. QED  BY <2>1, <2>2
  <1>7. ~raised => Judged(Trace)
    <2> SUFFICES ASSUME ~raised  PROVE Judged(Trace)
      OBVIOUS
    <2>1. exc = "none" /\ at > Len(Code)
      BY <1>1
    <2>2. OnCourse
      BY <1>2, <2>1 DEF Running
    <2>3. PICK c : c[at] = Now /\ c[Len(Code) + 1].judged
      BY <2>2 DEF OnCourse
    <2>4. at = Len(Code) + 1
      <3>1. Len(Code) \in Nat /\ at \in 1 .. Len(Code) + 1
        BY <2>2, SeqShape DEF OnCourse
      <3>2. QED  BY <2>1, <3>1
    <2>5. Now.judged
      BY <2>3, <2>4
    <2>6. QED  BY <2>5 DEF Now, Stage
  <1>10. Passed(Trace) => part = "main" /\ ~raised
    <2>1. Passed(Trace) => part # "handler" /\ exc = "none"
      BY <1>2 DEF Running
    <2>2. QED  BY <2>1 DEF WorkflowInv, TypeOK
  <1>8. Fair(r)
    BY <1>3, <1>4, <1>5, <1>6, <1>7, <1>10 DEF Fair
  <1>9. QED  BY <1>1, <1>3, <1>8

\* A run ends, by a return or by an exception.
LEMMA EndJobKeeps ==
    ASSUME WorkflowInv, EndJob
    PROVE  WorkflowInv'
  <1>1. /\ job # NoJob /\ job' = NoJob
        /\ env' = IF job.preset = "none" THEN env ELSE Restored(env, job.before)
        /\ phase' = phase /\ pc' = pc /\ events' = events /\ notes' = notes /\ at' = at
        /\ part' = part /\ node' = node /\ exc' = exc /\ home' = home
    BY DEF EndJob
  <1>2. PICK r : past' = Append(past, r) /\ Fair(r)
    BY EndsFair
  <1>3. /\ IsSeq(past') /\ Len(past') = Len(past) + 1 /\ Len(past) \in Nat
        /\ past'[Len(past')] = r
    <2>1. IsSeq(past)
      BY DEF WorkflowInv
    <2>2. QED  BY <1>2, <2>1, OneLonger
  <1>4. Len(past) < MaxRuns
    BY <1>1 DEF WorkflowInv, Running
  <1>5. Len(past') \in 0 .. MaxRuns
    BY <1>3, <1>4, WorkflowAssumption
  <1>6. DOMAIN env' = Variables
    BY <1>1 DEF WorkflowInv, TypeOK, Restored
  <1>7. TypeOK'
    BY <1>1, <1>5, <1>6 DEF WorkflowInv, TypeOK
  <1>8. Latest' = r
    BY <1>3 DEF Latest
  <1>9. QED  BY <1>1, <1>2, <1>3, <1>7, <1>8 DEF WorkflowInv

\* Another process.
LEMMA RestartKeeps ==
    ASSUME WorkflowInv, NEW h \in Environments, Restart(h)
    PROVE  WorkflowInv'
  <1>1. /\ job = NoJob /\ job' = job /\ env' = h /\ home' = h
        /\ phase' = phase /\ pc' = pc /\ events' = events /\ notes' = notes /\ at' = at
        /\ part' = part /\ node' = node /\ exc' = exc /\ past' = past
    BY DEF Restart
  <1>2. DOMAIN h = Variables
    BY JobsAssumption
  <1>3. TypeOK'
    BY <1>1, <1>2 DEF WorkflowInv, TypeOK
  <1>4. (past # << >> => Fair(Latest))'
    BY <1>1 DEF WorkflowInv, Latest
  <1>5. QED  BY <1>1, <1>3, <1>4 DEF WorkflowInv

\* The invariant holds at first,
LEMMA WorkflowInit == Init => WorkflowInv
  <1> SUFFICES ASSUME Init  PROVE WorkflowInv
    OBVIOUS
  <1>1. /\ phase = "new" /\ pc = [c \in {"app"} |-> "idle"] /\ events = << >> /\ notes = << >>
        /\ job = NoJob /\ at = 1 /\ part = "main" /\ node = NoNode /\ exc = "none"
        /\ home \in Environments /\ env = home /\ past = << >>
    BY DEF Init
  <1>2. Len(past) = 0 /\ IsSeq(past) /\ Len(notes) = Len(events)
    BY <1>1, SeqNone
  <1>3. DOMAIN env = Variables /\ DOMAIN home = Variables
    BY <1>1, JobsAssumption
  <1>4. TypeOK
    <2>1. Len(past) \in 0 .. MaxRuns
      BY <1>2, WorkflowAssumption
    <2>2. QED  BY <1>1, <1>2, <1>3, <2>1 DEF TypeOK
  <1>5. IsLog(events, notes)
    BY <1>1, NothingYet
  <1>6. pc \in [{"app"} -> Labels]
    BY <1>1 DEF Labels
  <1>7. QED  BY <1>1, <1>2, <1>4, <1>5, <1>6 DEF WorkflowInv

\* when nothing happens,
LEMMA WorkflowStutters ==
    ASSUME WorkflowInv, UNCHANGED vars
    PROVE  WorkflowInv'
  <1>1. /\ phase' = phase /\ pc' = pc /\ events' = events /\ notes' = notes /\ job' = job
        /\ at' = at /\ part' = part /\ node' = node /\ exc' = exc /\ env' = env
        /\ home' = home /\ past' = past
    BY DEF vars, app
  <1>2. TypeOK'
    BY <1>1 DEF WorkflowInv, TypeOK
  <1>3. Trace' = Trace
    BY <1>1 DEF Trace
  <1>4. ProgramFor(job)' = ProgramFor(job) /\ Code' = Code
    BY <1>1 DEF ProgramFor, Code
  <1>5. Now' = Now
    BY <1>1, <1>3 DEF Now
  <1>6. OnCourse => OnCourse'
    BY <1>1, <1>4, <1>5 DEF OnCourse
  <1>7. Running => Running'
    BY <1>1, <1>3, <1>4, <1>6 DEF Running
  <1>8. (past # << >> => Fair(Latest))'
    BY <1>1 DEF WorkflowInv, Latest
  <1>9. QED  BY <1>1, <1>2, <1>7, <1>8 DEF WorkflowInv

\* and after every step.
LEMMA WorkflowStep == WorkflowInv /\ [Next]_vars => WorkflowInv'
  <1> SUFFICES ASSUME WorkflowInv, [Next]_vars  PROVE WorkflowInv'
    OBVIOUS
  <1>1. CASE \E a \in Apps : \E s \in Scenarios(a), session, cross \in BOOLEAN,
                 preset \in {"none"} \cup DOMAIN FlagPresets :
                 StartJob(a, s, session, preset, cross)
    BY <1>1, StartJobKeeps
  <1>2. CASE EndJob
    BY <1>2, EndJobKeeps
  <1>3. CASE \E h \in Environments : Restart(h)
    BY <1>3, RestartKeeps
  <1>4. CASE Start \/ AttachContext \/ ApplyRoute \/ Recall \/ EvaluateTrace
    BY <1>4, StartKeeps, AttachContextKeeps, ApplyRouteKeeps, RecallKeeps, EvaluateTraceKeeps
  <1>5. CASE Enter \/ Leave
    BY <1>5, EnterKeeps, LeaveKeeps
  <1>6. CASE EmitValidation \/ FinishRun
    BY <1>6, EmitValidationKeeps, FinishRunKeeps
  <1>7. CASE Call
    BY <1>7, CallKeeps
  <1>8. CASE Unwind \/ Handle
    BY <1>8, UnwindKeeps, HandleKeeps
  <1>9. CASE UNCHANGED vars
    BY <1>9, WorkflowStutters
  <1>10. QED  BY <1>1, <1>2, <1>3, <1>4, <1>5, <1>6, <1>7, <1>8, <1>9 DEF Next

-----------------------------------------------------------------------------
(* The properties hold in every state.                                     *)

\* Whatever the applications, scenarios, competitors, policies, limits and
\* environments: a run in progress is on the course of its program, its trace is
\* fair so far, and the last run that ended has a fair trace.
THEOREM WorkflowInvariant == Spec => []WorkflowInv
  BY WorkflowInit, WorkflowStep, PTL DEF Spec

\* Types; the call an exception has left is over, and a handler runs outside the
\* nodes (node() and the try blocks of the applications).
THEOREM WorkflowTypes == Spec => []TypeOK
  <1>1. WorkflowInv => TypeOK
    BY DEF WorkflowInv
  <1>2. QED  BY <1>1, WorkflowInvariant, PTL

\* However a run ended, by a return, by an exception of a tool or a model or by
\* StopRun, each node it entered was left once, no two overlap, and every call was
\* made in the node it names (the finally clause of node()).
THEOREM NodesAlwaysClosed == Spec => []NodesClosed
  <1>1. WorkflowInv => NodesClosed
    BY FairCloses DEF WorkflowInv
  <1>2. QED  BY <1>1, WorkflowInvariant, PTL

\* No call follows a verdict, an interrupted run gets none but "error", a run that
\* returned has one, and "pass" comes after a validation that passed where the
\* verdict is taken from it (finish_run and the except clauses of the examples).
THEOREM VerdictsAlwaysEarned == Spec => []VerdictsEarned
  <1>1. WorkflowInv => VerdictsEarned
    BY FairCloses DEF WorkflowInv
  <1>2. QED  BY <1>1, WorkflowInvariant, PTL

-----------------------------------------------------------------------------
(* The runs before, and the environment.                                   *)

\* The variables that a demo leaves to its caller are those of its process, while
\* it runs all but the env_keys.
Kept == Variables \ {"CACHE_APPROVED"}
KeysAs(e) == \A v \in Kept : e[v] = home[v]
RestAs(e) == \A v \in Kept \ EnvKeys : e[v] = home[v]

\* AsMeant of a run under way.
Meant(r, backend) ==
    r.preset # "none" =>
        LET meant == SettingsOf(r.app, FlagPresets[r.preset])
        IN  /\ \A f \in DOMAIN meant \ {"approved", "file"} : r.set[f] = meant[f]
            /\ meant.optimize = "active" => r.set.approved
            /\ r.set.file <=> backend = "file"

\* The environment, the run and the runs before it.
HistoryInv ==
    /\ env \in [Variables -> Words]
    /\ job # NoJob =>
           /\ job \in Jobs /\ job.scenario \in Scenarios(job.app)
           /\ Meant(job, home["CACHE_BACKEND"])
           /\ job.preset = "none" => KeysAs(env)
           /\ job.preset # "none" => KeysAs(job.before) /\ RestAs(env)
    /\ job = NoJob => KeysAs(env)
    /\ \A k \in 1 .. Len(past) : Fair(past[k]) /\ AsMeant(past[k])

\* What an environment holds.
LEMMA PresetsHold ==
    /\ DOMAIN FlagPresets = {"baseline", "plan", "optimize_active", "memory", "all"}
    /\ \A p \in DOMAIN FlagPresets : DOMAIN FlagPresets[p] = Variables
    /\ \A e \in [Variables -> Words] : \A p \in DOMAIN FlagPresets :
           Flagged(e, FlagPresets[p]) \in [Variables -> Words]
  <1>1. DOMAIN FlagPresets = {"baseline", "plan", "optimize_active", "memory", "all"}
    BY DEF FlagPresets
  <1>2. \A p \in DOMAIN FlagPresets : DOMAIN FlagPresets[p] = Variables
    BY DEF FlagPresets, Setting, Optimizing
  <1>3. \A p \in DOMAIN FlagPresets : \A v \in Variables : FlagPresets[p][v] \in Words
    BY DEF Words
  <1>4. "unset" \in Words
    <2>1. "baseline" \in DOMAIN FlagPresets /\ "PLAN" \in Variables
      BY DEF FlagPresets, Variables
    <2>2. FlagPresets["baseline"]["PLAN"] = "unset"
      BY DEF FlagPresets, Setting, Variables
    <2>3. QED  BY <1>3, <2>1, <2>2
  <1>5. ASSUME NEW e \in [Variables -> Words], NEW p \in DOMAIN FlagPresets
        PROVE  Flagged(e, FlagPresets[p]) \in [Variables -> Words]
    BY <1>3, <1>4 DEF Flagged
  <1>6. QED  BY <1>1, <1>2, <1>5

\* The presets set the env_keys and CACHE_APPROVED only.
LEMMA PresetsKeep ==
    \A p \in DOMAIN FlagPresets : \A v \in Kept \ EnvKeys : FlagPresets[p][v] = "unset"
  <1>1. Kept \ EnvKeys = {"CACHE_CONFIRMATIONS", "CACHE_BACKEND"}
    BY DEF Kept, EnvKeys, Variables
  <1> DEFINE v1 == "CACHE_CONFIRMATIONS"
             v2 == "CACHE_BACKEND"
  <1>2. v1 \in Variables /\ v2 \in Variables
    BY DEF Variables
  <1>3. \A keys \in SUBSET (EnvKeys \cup {"CACHE_APPROVED"}) :
            Setting("1", keys)[v1] = "unset" /\ Setting("1", keys)[v2] = "unset"
    <2>1. v1 \notin EnvKeys \cup {"CACHE_APPROVED"} /\ v2 \notin EnvKeys \cup {"CACHE_APPROVED"}
      BY DEF EnvKeys
    <2>2. QED  BY <1>2, <2>1 DEF Setting
  <1>4. \A keys \in SUBSET EnvKeys :
            Optimizing(keys)[v1] = "unset" /\ Optimizing(keys)[v2] = "unset"
    <2> TAKE keys \in SUBSET EnvKeys
    <2> DEFINE on == {"OPTIMIZE", "CACHE_APPROVED"} \cup keys
    <2>1. on \in SUBSET (EnvKeys \cup {"CACHE_APPROVED"})
      BY DEF EnvKeys
    <2>2. Setting("1", on)[v1] = "unset" /\ Setting("1", on)[v2] = "unset"
      BY <1>3, <2>1
    <2>3. DOMAIN Setting("1", on) = Variables
      BY DEF Setting
    <2> HIDE DEF on
    <2>4. QED  BY <1>2, <2>2, <2>3 DEF Optimizing, on
  <1>5. {} \in SUBSET EnvKeys /\ {"PLAN"} \in SUBSET EnvKeys /\ {"MEMORY"} \in SUBSET EnvKeys
        /\ {"PLAN", "MEMORY"} \in SUBSET EnvKeys
    BY DEF EnvKeys
  <1>6. ASSUME NEW p \in DOMAIN FlagPresets
        PROVE  FlagPresets[p][v1] = "unset" /\ FlagPresets[p][v2] = "unset"
    <2>1. \/ FlagPresets[p] = Setting("1", {}) \/ FlagPresets[p] = Setting("1", {"PLAN"})
          \/ FlagPresets[p] = Setting("1", {"MEMORY"}) \/ FlagPresets[p] = Optimizing({})
          \/ FlagPresets[p] = Optimizing({"PLAN", "MEMORY"})
      BY PresetsHold DEF FlagPresets
    <2> HIDE DEF v1, v2
    <2>2. QED  BY <1>3, <1>4, <1>5, <2>1
  <1>7. QED  BY <1>1, <1>6

\* The settings of a run are switches, a mode and a limit.
LEMMA SettingsAre ==
    ASSUME NEW a \in Apps, NEW e \in [Variables -> Words]
    PROVE  SettingsOf(a, e) \in Settings
  <1>1. "OPTIMIZE_MODE" \in Variables /\ e["OPTIMIZE_MODE"] \in Words
    BY DEF Variables
  <1>2. (IF LimitOf(a) = 0 THEN NoLimit ELSE LimitOf(a)) \in Nat \cup {NoLimit}
    BY DEF LimitOf
  <1> DEFINE set == SettingsOf(a, e)
  <1>3. /\ set.enforce \in BOOLEAN /\ set.approved \in BOOLEAN /\ set.file \in BOOLEAN
        /\ set.plan \in BOOLEAN /\ set.memory \in BOOLEAN /\ set.keeps \in BOOLEAN
    <2>1. /\ set.enforce \in BOOLEAN /\ set.approved \in BOOLEAN /\ set.file \in BOOLEAN
          /\ set.plan \in BOOLEAN /\ set.memory \in BOOLEAN
      BY DEF SettingsOf
    <2> DEFINE p == e["MEMORY"] \in {"1", "true"}
               q == e["MEMORY"] = "1"
    <2>2. set.keeps = IF a = "real_world" THEN p ELSE q
      BY DEF SettingsOf
    <2>3. p \in BOOLEAN /\ q \in BOOLEAN
      OBVIOUS
    <2> HIDE DEF set, p, q
    <2>4. set.keeps \in BOOLEAN
      BY <2>2, <2>3
    <2>5. QED  BY <2>1, <2>4
  <1>4. set.optimize \in Words \cup {"off", "dry_run"}
    BY <1>1 DEF SettingsOf
  <1>5. set.limit \in Nat \cup {NoLimit}
    BY <1>2 DEF SettingsOf
  <1>6. set = [enforce |-> set.enforce, optimize |-> set.optimize, approved |-> set.approved,
               file |-> set.file, plan |-> set.plan, memory |-> set.memory,
               keeps |-> set.keeps, limit |-> set.limit]
    BY DEF SettingsOf
  <1> HIDE DEF set
  <1>7. set \in Settings
    BY <1>3, <1>4, <1>5, <1>6 DEF Settings
  <1>8. QED  BY <1>7 DEF set

\* The settings a preset has do not depend on the environment it meets, but for
\* the two that concern the cache.
LEMMA PresetsMean ==
    ASSUME NEW a \in Apps, NEW e \in [Variables -> Words], NEW p \in DOMAIN FlagPresets
    PROVE  LET set == SettingsOf(a, Flagged(e, FlagPresets[p]))
               meant == SettingsOf(a, FlagPresets[p])
           IN  /\ \A f \in DOMAIN meant \ {"approved", "file"} : set[f] = meant[f]
               /\ meant.optimize = "active" => set.approved
               /\ set.file <=> e["CACHE_BACKEND"] = "file"
  <1> DEFINE f == FlagPresets[p]
             g == Flagged(e, f)
             set == SettingsOf(a, g)
             meant == SettingsOf(a, f)
  <1>1. \A v \in EnvKeys : g[v] = f[v]
    <2>1. EnvKeys \subseteq Variables
      BY DEF EnvKeys, Variables
    <2>2. QED  BY <2>1 DEF Flagged
  <1>2. {"ENFORCE", "PLAN", "OPTIMIZE", "OPTIMIZE_MODE", "MEMORY"} = EnvKeys
    BY DEF EnvKeys
  <1>3. f["OPTIMIZE_MODE"] = "active" => f["CACHE_APPROVED"] = "1"
    <2>1. FlagPresets["baseline"]["OPTIMIZE_MODE"] = "unset"
      BY DEF FlagPresets, Setting, Variables
    <2>2. FlagPresets["plan"]["OPTIMIZE_MODE"] = "unset"
      BY DEF FlagPresets, Setting, Variables
    <2>3. FlagPresets["memory"]["OPTIMIZE_MODE"] = "unset"
      BY DEF FlagPresets, Setting, Variables
    <2>4. FlagPresets["optimize_active"]["CACHE_APPROVED"] = "1"
      BY DEF FlagPresets, Setting, Optimizing, Variables
    <2>5. FlagPresets["all"]["CACHE_APPROVED"] = "1"
      BY DEF FlagPresets, Setting, Optimizing, Variables
    <2>6. QED  BY <2>1, <2>2, <2>3, <2>4, <2>5, PresetsHold
  <1>4. f["OPTIMIZE_MODE"] = "active" => g["CACHE_APPROVED"] = "1"
    BY <1>3 DEF Flagged, Variables
  <1>10. f["CACHE_BACKEND"] = "unset"
    BY PresetsKeep DEF Kept, EnvKeys, Variables
  <1>11. g["CACHE_BACKEND"] = e["CACHE_BACKEND"]
    BY <1>10 DEF Flagged, EnvKeys, Variables
  <1> HIDE DEF f, g
  <1>5. /\ g["ENFORCE"] = f["ENFORCE"] /\ g["PLAN"] = f["PLAN"] /\ g["OPTIMIZE"] = f["OPTIMIZE"]
        /\ g["OPTIMIZE_MODE"] = f["OPTIMIZE_MODE"] /\ g["MEMORY"] = f["MEMORY"]
    BY <1>1, <1>2
  <1>6. \A field \in DOMAIN meant \ {"approved", "file"} : set[field] = meant[field]
    <2>1. /\ set.enforce = meant.enforce /\ set.optimize = meant.optimize
          /\ set.plan = meant.plan /\ set.memory = meant.memory
          /\ set.keeps = meant.keeps /\ set.limit = meant.limit
      BY <1>5 DEF SettingsOf
    <2>2. DOMAIN meant = {"enforce", "optimize", "approved", "file", "plan", "memory", "keeps",
                          "limit"}
      BY DEF SettingsOf
    <2> HIDE DEF set, meant
    <2>3. QED  BY <2>1, <2>2
  <1>7. meant.optimize = "active" => f["OPTIMIZE_MODE"] = "active"
    BY DEF SettingsOf
  <1>8. g["CACHE_APPROVED"] = "1" => set.approved
    BY DEF SettingsOf
  <1>12. set.file <=> g["CACHE_BACKEND"] = "file"
    BY DEF SettingsOf
  <1>9. QED  BY <1>4, <1>6, <1>7, <1>8, <1>11, <1>12 DEF f, g

\* A sequence that is not empty has a first and a last place.
LEMMA OneAtLeast ==
    ASSUME NEW s, IsSeq(s), s # << >>
    PROVE  Len(s) \in 1 .. Len(s) /\ 1 \in 1 .. Len(s)
  <1>1. PICK A : s \in Seq(A)
    BY DEF IsSeq
  <1>2. Len(s) \in Nat /\ Len(s) # 0
    BY <1>1
  <1>3. QED  BY <1>2

\* A run is started.
LEMMA StartKeepsHistory ==
    ASSUME HistoryInv, NEW a \in Apps, NEW s \in Scenarios(a), NEW session \in BOOLEAN,
           NEW cross \in BOOLEAN, NEW preset \in {"none"} \cup DOMAIN FlagPresets,
           StartJob(a, s, session, preset, cross)
    PROVE  HistoryInv'
  <1> DEFINE around == IF preset = "none" THEN env ELSE Flagged(env, FlagPresets[preset])
             set == SettingsOf(a, around)
             shared == cross \/ set.file
             j == [app |-> a, scenario |-> s, session |-> session, preset |-> preset,
                   shared |-> shared, set |-> set, before |-> env]
  <1>1. /\ job = NoJob /\ job' = j /\ env' = around /\ home' = home /\ past' = past
    BY DEF StartJob
  <1>2. env \in [Variables -> Words] /\ KeysAs(env)
    BY <1>1 DEF HistoryInv
  <1>3. around \in [Variables -> Words]
    BY <1>2, PresetsHold
  <1>4. set \in Settings
    <2> HIDE DEF around
    <2>1. QED  BY <1>3, SettingsAre
  <1>5. preset # "none" =>
           LET meant == SettingsOf(a, FlagPresets[preset])
           IN  /\ \A f \in DOMAIN meant \ {"approved", "file"} : set[f] = meant[f]
               /\ meant.optimize = "active" => set.approved
               /\ set.file <=> env["CACHE_BACKEND"] = "file"
    BY <1>2, PresetsMean
  <1>6. preset = "none" => around = env
    OBVIOUS
  <1>15. RestAs(around)
    <2>1. preset # "none" => \A v \in Kept \ EnvKeys : FlagPresets[preset][v] = "unset"
      BY PresetsKeep
    <2>2. \A v \in Kept \ EnvKeys : v \in Variables
      BY DEF Kept
    <2>3. \A v \in Kept \ EnvKeys : around[v] = env[v]
      BY <2>1, <2>2 DEF Flagged
    <2>4. QED  BY <1>2, <2>3 DEF KeysAs, RestAs, Kept
  <1>16. env["CACHE_BACKEND"] = home["CACHE_BACKEND"]
    BY <1>2 DEF KeysAs, Kept, Variables
  <1>17. shared \in BOOLEAN
    OBVIOUS
  <1> HIDE DEF around, set, shared
  <1>7. j \in Jobs /\ Meant(j, home["CACHE_BACKEND"])
    <2>1. s \in UNION {Scenarios(b) : b \in Apps}
      OBVIOUS
    <2>2. j \in Jobs
      BY <1>2, <1>4, <1>17, <2>1 DEF Jobs
    <2>3. j.app = a /\ j.preset = preset /\ j.set = set
      OBVIOUS
    <2> HIDE DEF j
    <2>4. Meant(j, home["CACHE_BACKEND"])
      BY <1>5, <1>16, <2>3 DEF Meant
    <2>5. QED  BY <2>2, <2>4
  <1>8. j # NoJob
    BY <1>7, JobsAssumption
  <1>9. j.preset = preset /\ j.before = env /\ j.app = a /\ j.scenario = s
    OBVIOUS
  <1> HIDE DEF j
  <1>10. /\ job'.preset = "none" => KeysAs(env)'
         /\ job'.preset # "none" => KeysAs(job.before)' /\ RestAs(env)'
    <2>1. preset = "none" => KeysAs(env)'
      BY <1>1, <1>2, <1>6 DEF KeysAs
    <2>2. job'.before = env
      BY <1>1, <1>9
    <2>3. KeysAs(job.before)'
      BY <1>1, <1>2, <2>2 DEF KeysAs
    <2>5. RestAs(env)'
      BY <1>1, <1>15 DEF RestAs
    <2>4. QED  BY <1>1, <1>9, <2>1, <2>3, <2>5
  <1>11. (\A k \in 1 .. Len(past) : Fair(past[k]) /\ AsMeant(past[k]))'
    BY <1>1 DEF HistoryInv
  <1>13. /\ job' \in Jobs /\ Meant(job, home["CACHE_BACKEND"])' /\ job' # NoJob
         /\ job'.scenario \in Scenarios(job'.app)
    <2>1. Meant(job, home["CACHE_BACKEND"])' <=> Meant(job', home'["CACHE_BACKEND"])
      BY DEF Meant
    <2>2. QED  BY <1>1, <1>7, <1>8, <1>9, <2>1
  <1> HIDE DEF KeysAs, RestAs
  <1>14. env' \in [Variables -> Words]
    BY <1>1, <1>3
  <1>12. QED  BY <1>10, <1>11, <1>13, <1>14 DEF HistoryInv

\* It ends: its trace is fair, and the environment is as it was.
LEMMA EndKeepsHistory ==
    ASSUME WorkflowInv, HistoryInv, EndJob
    PROVE  HistoryInv'
  <1>1. /\ job # NoJob /\ job' = NoJob /\ home' = home
        /\ env' = IF job.preset = "none" THEN env ELSE Restored(env, job.before)
    BY DEF EndJob
  <1>2. PICK r : /\ past' = Append(past, r) /\ Fair(r)
                 /\ r.app = job.app /\ r.preset = job.preset /\ r.set = job.set
                 /\ r.home = home
    BY EndsFair
  <1>3. AsMeant(r)
    <2>1. Meant(job, home["CACHE_BACKEND"])
      BY <1>1 DEF HistoryInv
    <2>2. QED  BY <1>2, <2>1 DEF Meant, AsMeant
  <1>4. /\ Len(past') = Len(past) + 1 /\ Len(past) \in Nat /\ past'[Len(past) + 1] = r
        /\ \A k \in 1 .. Len(past) : past'[k] = past[k]
    <2>1. IsSeq(past)
      BY DEF WorkflowInv
    <2>2. QED  BY <1>2, <2>1, OneLonger
  <1>5. \A k \in 1 .. Len(past') : k \in 1 .. Len(past) \/ k = Len(past) + 1
    BY <1>4
  <1>6. ASSUME NEW k \in 1 .. Len(past')
        PROVE  Fair(past'[k]) /\ AsMeant(past'[k])
    BY <1>2, <1>3, <1>4, <1>5 DEF HistoryInv
  <1>7. env' \in [Variables -> Words]
    BY <1>1 DEF HistoryInv, Restored, Jobs
  <1>8. KeysAs(env)'
    <2>1. CASE job.preset = "none"
      BY <1>1, <2>1 DEF HistoryInv, KeysAs
    <2>2. CASE job.preset # "none"
      <3>1. \A v \in Kept : IF v \in EnvKeys THEN job.before[v] = home[v]
                                             ELSE env[v] = home[v]
        BY <1>1, <2>2 DEF HistoryInv, KeysAs, RestAs
      <3>2. \A v \in Kept : env'[v] = IF v \in EnvKeys THEN job.before[v] ELSE env[v]
        BY <1>1, <2>2 DEF Restored, Kept
      <3>3. QED  BY <1>1, <3>1, <3>2 DEF KeysAs
    <2>3. QED  BY <2>1, <2>2
  <1>9. QED  BY <1>1, <1>6, <1>7, <1>8 DEF HistoryInv

\* Nothing else touches them.
LEMMA HistoryStep == WorkflowInv /\ HistoryInv /\ [Next]_vars => HistoryInv'
  <1> SUFFICES ASSUME WorkflowInv, HistoryInv, [Next]_vars  PROVE HistoryInv'
    OBVIOUS
  <1>1. CASE \E a \in Apps : \E s \in Scenarios(a), session, cross \in BOOLEAN,
                 preset \in {"none"} \cup DOMAIN FlagPresets :
                 StartJob(a, s, session, preset, cross)
    BY <1>1, StartKeepsHistory
  <1>2. CASE EndJob
    BY <1>2, EndKeepsHistory
  <1>3. CASE \E h \in Environments : Restart(h)
    <2>1. PICK h \in Environments : Restart(h)
      BY <1>3
    <2>2. job = NoJob /\ job' = job /\ env' = h /\ home' = h /\ past' = past
      BY <2>1 DEF Restart
    <2>3. env' \in [Variables -> Words]
      BY <2>2, JobsAssumption
    <2>4. KeysAs(env)'
      BY <2>2 DEF KeysAs
    <2>5. (\A k \in 1 .. Len(past) : Fair(past[k]) /\ AsMeant(past[k]))'
      BY <2>2 DEF HistoryInv
    <2>6. QED  BY <2>2, <2>3, <2>4, <2>5 DEF HistoryInv
  <1>4. CASE job' = job /\ env' = env /\ home' = home /\ past' = past
    <2>1. KeysAs(env)' = KeysAs(env)
      BY <1>4 DEF KeysAs
    <2>2. KeysAs(job.before)' = KeysAs(job.before)
      BY <1>4 DEF KeysAs
    <2>3. (\A k \in 1 .. Len(past) : Fair(past[k]) /\ AsMeant(past[k]))'
      BY <1>4 DEF HistoryInv
    <2>5. RestAs(env)' = RestAs(env)
      BY <1>4 DEF RestAs
    <2>6. Meant(job, home["CACHE_BACKEND"])' = Meant(job, home["CACHE_BACKEND"])
      BY <1>4 DEF Meant
    <2> HIDE DEF HistoryInv
    <2>4. QED  BY <1>4, <2>1, <2>2, <2>3, <2>5, <2>6 DEF HistoryInv
  <1>5. CASE \/ Start \/ Enter \/ Leave \/ AttachContext \/ ApplyRoute \/ Recall
             \/ EmitValidation \/ FinishRun \/ EvaluateTrace
    <2>1. job' = job /\ env' = env /\ home' = home /\ past' = past
      BY <1>5 DEF Start, Enter, Leave, AttachContext, ApplyRoute, Recall, EmitValidation,
                  FinishRun, EvaluateTrace, Performs
    <2>2. QED  BY <1>4, <2>1
  <1>6. CASE Call
    BY <1>4, <1>6 DEF Call
  <1>7. CASE Unwind \/ Handle
    BY <1>4, <1>7 DEF Unwind, Handle
  <1>8. CASE UNCHANGED vars
    BY <1>4, <1>8 DEF vars, app
  <1>9. QED  BY <1>1, <1>2, <1>3, <1>5, <1>6, <1>7, <1>8 DEF Next

\* At first there are none.
LEMMA HistoryInit == Init => HistoryInv
  <1> SUFFICES ASSUME Init  PROVE HistoryInv
    OBVIOUS
  <1>1. job = NoJob /\ home \in Environments /\ env = home /\ past = << >>
    BY DEF Init
  <1>2. Len(past) = 0
    BY <1>1, SeqNone
  <1>3. env \in [Variables -> Words]
    BY <1>1, JobsAssumption
  <1>4. KeysAs(env)
    BY <1>1 DEF KeysAs
  <1>5. 1 .. Len(past) = {}
    BY <1>2
  <1>6. QED  BY <1>1, <1>3, <1>4, <1>5 DEF HistoryInv

\* Whatever the environments and presets: every finished run has a fair trace and
\* the settings its preset means, a run in progress knows the environment it was
\* started from, and between runs that one is back in place.
THEOREM HistoryInvariant == Spec => []HistoryInv
  BY HistoryInit, HistoryStep, WorkflowInvariant, PTL DEF Spec

\* After any sequence of runs, with or without presets, returned or raised, the
\* variables have the values the process was started with, CACHE_APPROVED excepted
\* (the presets and the finally clause of _run_with_flags).
THEOREM KeysAlwaysRestored == Spec => []KeysRestored
  <1>1. HistoryInv => KeysRestored
    BY DEF HistoryInv, KeysRestored, KeysAs, Kept, Ended
  <1>2. QED  BY <1>1, HistoryInvariant, PTL

\* A run with a preset has the settings of that preset, whatever os.environ held,
\* with two exceptions: the cache may be approved for a preset that does not say
\* so, by CACHE_APPROVED of an earlier preset or by the environment, but is for
\* each one that serves from it; and its backend is files where the process was
\* started so (_run_with_flags and what Supervisor and the applications read).
THEOREM SettingsAlwaysMeant == Spec => []SettingsMeant
  <1>1. WorkflowInv /\ HistoryInv => SettingsMeant
    <2> SUFFICES ASSUME WorkflowInv, HistoryInv, Ended  PROVE AsMeant(Latest)
      BY DEF SettingsMeant
    <2>1. Len(past) \in 1 .. Len(past)
      <3>1. past # << >> /\ IsSeq(past)
        BY DEF Ended, WorkflowInv
      <3>2. QED  BY <3>1, OneAtLeast
    <2>2. QED  BY <2>1 DEF HistoryInv, Latest
  <1>2. QED  BY <1>1, HistoryInvariant, WorkflowInvariant, PTL

\* A scorecard claims a saving only of two runs that returned a result from the
\* main path: a validation that passed is never in the trace of a run that an
\* exception or StopRun ended or sent to its handler (scorecard() and run_scenario).
THEOREM SavingsAlwaysEarned == Spec => []SavingsClaimed
  <1>1. HistoryInv => SavingsClaimed
    <2> SUFFICES ASSUME HistoryInv, Scored, Card.claimed_savings > 0
                 PROVE  Complete(past[1]) /\ Complete(Latest)
      BY DEF SavingsClaimed
    <2>1. Len(past) = 2 /\ Latest = past[2]
      BY DEF Scored, Latest
    <2>2. ValidationPassed(past[1].trace) /\ ValidationPassed(Latest.trace)
      <3>1. ~ (0 > 0)
        OBVIOUS
      <3>2. QED  BY <3>1 DEF Card, Scorecard
    <2>3. \A t : ValidationPassed(t) => Passed(t)
      BY DEF ValidationPassed, Passed, Passes, Of
    <2>4. Fair(past[1]) /\ Fair(past[2])
      <3>1. 1 \in 1 .. Len(past) /\ 2 \in 1 .. Len(past)
        BY <2>1
      <3>2. QED  BY <3>1 DEF HistoryInv
    <2>5. \A r : Fair(r) /\ Passed(r.trace) => Complete(r)
      BY DEF Fair, Complete
    <2>6. QED  BY <2>1, <2>2, <2>3, <2>4, <2>5
  <1>2. QED  BY <1>1, HistoryInvariant, PTL

-----------------------------------------------------------------------------
(* Tidy traces.                                                            *)

\* An entry: it has a step if and only if it has an agent, what is completed or
\* retried has both, and only what is completed costs anything.
Clear(e) ==
    /\ e.step = "" <=> e.agent = ""
    /\ e.type \in Completions \cup {"retry.scheduled"} => e.step # ""
    /\ Costed(e)

AllClear(t) == \A i \in 1 .. Len(t) : Clear(t[i])

\* A verdict carries the numbers of duplicates and retries of the whole trace.
Counts(t) == <<Duplicates(t, Of(t, "tool.completed")), Count(t, "retry.scheduled")>>
Counted(t) == \A i \in Of(t, "run.completed") : t[i].counts = Counts(t)

Tidy(t) == IsSeq(t) /\ AllClear(t) /\ PairedIn(t, 1 .. Len(t)) /\ Counted(t)

\* What is served was matched when it was asked for, just before.
Asks(t, i) == t[i].type = "tool.requested" /\ t[i].match # "none"
ServedAsked(t) == \A i \in Of(t, "optimization.applied") : i - 1 \in DOMAIN t /\ Asks(t, i - 1)

\* All that a noted event keeps.
LEMMA NotedKeeps ==
    ASSUME NEW e, NEW n, IsEvent(e), IsNote(n)
    PROVE  /\ Noted(e, n).type = e.type /\ Noted(e, n).tool = e.tool
           /\ Noted(e, n).dup = e.dup /\ Noted(e, n).cost = e.cost
           /\ Noted(e, n).policy = e.policy
           /\ Noted(e, n).step = n.step /\ Noted(e, n).agent = n.agent
           /\ Noted(e, n).match = n.match /\ Noted(e, n).counts = n.counts
  BY DEF Noted, IsEvent, IsNote

\* Entries are appended to the trace.
Appends(fs, ms) == IsLog(fs, ms) /\ events' = events \o fs /\ notes' = notes \o ms

LEMMA Appended ==
    ASSUME IsLog(events, notes), NEW fs, NEW ms, Appends(fs, ms)
    PROVE  /\ IsLog(events, notes)' /\ Grown(Trace, Trace') /\ Len(fs) \in Nat
           /\ Len(Trace) \in Nat /\ Len(Trace') = Len(Trace) + Len(fs)
           /\ \A k \in 1 .. Len(fs) : Trace'[Len(Trace) + k] = Noted(fs[k], ms[k])
           /\ \A i \in New(Trace, Trace') : \E k \in 1 .. Len(fs) : i = Len(Trace) + k
  <1> DEFINE gs == events \o fs
             hs == notes \o ms
             t == TraceOf(events, notes)
             u == TraceOf(gs, hs)
             m == Len(events)
             n == Len(fs)
  <1>1. IsLog(fs, ms) /\ IsSeq(events) /\ IsSeq(notes) /\ Len(notes) = m
        /\ IsSeq(fs) /\ IsSeq(ms) /\ Len(ms) = n
    BY DEF Appends, IsLog
  <1>2. m \in Nat /\ n \in Nat
    BY <1>1, SeqShape
  <1>3. IsLog(gs, hs) /\ Grown(t, u) /\ Len(t) = m /\ Len(u) = m + n
    BY <1>1, LogGrows
  <1>4. Trace = t /\ Trace' = u
    <2>1. Trace' = TraceOf(events', notes')
      BY DEF Trace, TraceOf
    <2>2. QED  BY <2>1, TraceNow DEF Appends
  <1>5. \A k \in 1 .. n : gs[m + k] = fs[k]
    <2>1. IsSeq(events) /\ IsSeq(fs)
      BY <1>1
    <2>2. QED  BY <2>1, SeqJoin
  <1>6. \A k \in 1 .. n : hs[m + k] = ms[k]
    <2>1. IsSeq(notes) /\ IsSeq(ms)
      BY <1>1
    <2>2. \A k \in 1 .. Len(ms) : hs[Len(notes) + k] = ms[k]
      BY <2>1, SeqJoin
    <2> HIDE DEF hs, m, n
    <2>3. QED  BY <1>1, <2>2
  <1>7. \A i \in 1 .. m + n : u[i] = Noted(gs[i], hs[i])
    <2>1. Len(gs) = m + n /\ \A i \in 1 .. Len(gs) : u[i] = Noted(gs[i], hs[i])
      <3> HIDE DEF gs, hs
      <3>1. Len(u) = Len(gs) /\ \A i \in 1 .. Len(gs) : u[i] = Noted(gs[i], hs[i])
        BY <1>3, TraceIs
      <3>2. QED  BY <1>3, <3>1
    <2>2. QED  BY <2>1
  <1>8. IsLog(events, notes)'
    BY <1>3 DEF Appends
  <1> HIDE DEF gs, hs, t, u, m, n
  <1>9. ASSUME NEW k \in 1 .. n
        PROVE  u[m + k] = Noted(fs[k], ms[k])
    <2>1. m + k \in 1 .. m + n
      BY <1>2
    <2>2. QED  BY <1>5, <1>6, <1>7, <2>1
  <1>10. ASSUME NEW i \in New(t, u)
         PROVE  \E k \in 1 .. n : i = m + k
    <2>1. i - m \in 1 .. n /\ i = m + (i - m)
      BY <1>2, <1>3, <1>10 DEF New
    <2>2. QED  BY <2>1
  <1>11. QED  BY <1>2, <1>3, <1>4, <1>8, <1>9, <1>10 DEF n

\* Clear entries in pairs keep it clear and in pairs.
LEMMA StaysClear ==
    ASSUME IsLog(events, notes), NEW fs, NEW ms, Appends(fs, ms),
           AllClear(Trace), PairedIn(Trace, 1 .. Len(Trace)),
           \A k \in 1 .. Len(fs) : Clear(Noted(fs[k], ms[k])), PairedIn(fs, 1 .. Len(fs))
    PROVE  IsSeq(Trace') /\ AllClear(Trace') /\ PairedIn(Trace', 1 .. Len(Trace'))
  <1> DEFINE t == Trace
             u == Trace'
             m == Len(Trace)
             n == Len(fs)
  <1>1. /\ Grown(t, u) /\ m \in Nat /\ n \in Nat /\ Len(u) = m + n
        /\ \A k \in 1 .. n : u[m + k] = Noted(fs[k], ms[k])
        /\ \A i \in New(t, u) : \E k \in 1 .. n : i = m + k
    BY Appended
  <1>2. /\ AllClear(t) /\ PairedIn(t, 1 .. m) /\ PairedIn(fs, 1 .. n)
        /\ \A k \in 1 .. n : Clear(Noted(fs[k], ms[k]))
    OBVIOUS
  <1>3. \A k \in 1 .. n : IsEvent(fs[k]) /\ IsNote(ms[k])
    BY DEF Appends, IsLog
  <1>4. Len(t) = m
    OBVIOUS
  <1> HIDE DEF t, u, m, n
  <1>5. IsSeq(u) /\ \A i \in 1 .. m : u[i] = t[i]
    BY <1>1, <1>4 DEF Grown
  <1>6. AllClear(u)
    <2>1. ASSUME NEW i \in 1 .. m + n
          PROVE  Clear(u[i])
      <3>1. CASE i \in 1 .. m
        BY <1>2, <1>4, <1>5, <3>1 DEF AllClear
      <3>2. CASE i \notin 1 .. m
        <4>1. i \in New(t, u)
          BY <1>1, <1>4, <3>2 DEF New
        <4>2. QED  BY <1>1, <1>2, <4>1
      <3>3. QED  BY <3>1, <3>2
    <2>2. QED  BY <1>1, <2>1 DEF AllClear
  <1>7. PairedIn(u, 1 .. m + n)
    <2> DEFINE f == [k \in 1 .. n |-> u[m + k]]
    <2>1. \A k \in 1 .. n : f[k] = u[m + k] /\ f[k].type = fs[k].type /\ f[k].policy = fs[k].policy
      BY <1>1, <1>3, NotedKeeps
    <2> HIDE DEF f
    <2>2. PairedIn(f, 1 .. n)
      BY <1>2, <2>1 DEF PairedIn, Triggers, Applies
    <2>3. \A k \in 1 .. n : u[m + k] = f[k]
      BY <2>1
    <2>4. m \in Nat /\ n \in Nat /\ PairedIn(t, 1 .. m) /\ \A i \in 1 .. m : u[i] = t[i]
      BY <1>1, <1>2, <1>5
    <2>5. QED  BY <2>2, <2>3, <2>4, PairsJoin
  <1>8. QED  BY <1>1, <1>5, <1>6, <1>7 DEF u

\* The places of a type.
LEMMA OfGrown ==
    ASSUME NEW t, NEW u, Grown(t, u), NEW type, \A i \in New(t, u) : u[i].type # type
    PROVE  Of(u, type) = Of(t, type)
  <1>1. Len(t) \in Nat /\ Len(u) \in Nat /\ DOMAIN t = 1 .. Len(t) /\ DOMAIN u = 1 .. Len(u)
        /\ Len(t) <= Len(u) /\ \A k \in 1 .. Len(t) : u[k] = t[k]
    BY SeqShape DEF Grown
  <1>2. \A i \in 1 .. Len(u) : i \in 1 .. Len(t) \/ i \in New(t, u)
    BY <1>1 DEF New
  <1>3. \A i : i \in Of(u, type) => i \in Of(t, type)
    BY <1>1, <1>2 DEF Of
  <1>4. \A i : i \in Of(t, type) => i \in Of(u, type)
    BY <1>1 DEF Of
  <1>5. QED  BY <1>3, <1>4

\* The numbers a verdict carries stay what they are when nothing is completed or
\* retried.
LEMMA CountsStay ==
    ASSUME NEW t, NEW u, Grown(t, u),
           \A i \in New(t, u) : u[i].type # "tool.completed" /\ u[i].type # "retry.scheduled"
    PROVE  Counts(u) = Counts(t)
  <1>1. Of(u, "tool.completed") = Of(t, "tool.completed")
    BY OfGrown
  <1>2. Of(u, "retry.scheduled") = Of(t, "retry.scheduled")
    BY OfGrown
  <1>3. DOMAIN t = 1 .. Len(t) /\ \A k \in 1 .. Len(t) : u[k] = t[k]
    BY SeqShape DEF Grown
  <1> DEFINE done == Of(t, "tool.completed")
  <1>4. \A i \in done : u[i].dup = t[i].dup
    BY <1>3 DEF Of
  <1>5. Duplicates(u, done) = Duplicates(t, done)
    <2>1. {i \in done : u[i].dup} = {i \in done : t[i].dup}
      BY <1>4
    <2>2. QED  BY <2>1 DEF Duplicates
  <1>6. Count(u, "retry.scheduled") = Count(t, "retry.scheduled")
    BY <1>2 DEF Count
  <1>7. QED  BY <1>1, <1>5, <1>6 DEF Counts

\* So a verdict given before stands, and one given now is right.
LEMMA StaysCounted ==
    ASSUME NEW t, NEW u, Grown(t, u), Counted(t),
           \A i \in New(t, u) :
               /\ u[i].type # "tool.completed" /\ u[i].type # "retry.scheduled"
               /\ u[i].type = "run.completed" => u[i].counts = Counts(t)
    PROVE  Counted(u)
  <1>1. Counts(u) = Counts(t)
    BY CountsStay
  <1>2. Len(t) \in Nat /\ Len(u) \in Nat /\ DOMAIN t = 1 .. Len(t) /\ DOMAIN u = 1 .. Len(u)
        /\ Len(t) <= Len(u) /\ \A k \in 1 .. Len(t) : u[k] = t[k]
    BY SeqShape DEF Grown
  <1>3. ASSUME NEW i \in Of(u, "run.completed")
        PROVE  u[i].counts = Counts(u)
    <2>1. i \in 1 .. Len(u) /\ u[i].type = "run.completed"
      BY <1>2 DEF Of
    <2>2. CASE i \in 1 .. Len(t)
      <3>1. i \in Of(t, "run.completed") /\ u[i] = t[i]
        BY <1>2, <2>1, <2>2 DEF Of
      <3>2. QED  BY <1>1, <3>1 DEF Counted
    <2>3. CASE i \notin 1 .. Len(t)
      <3>1. i \in New(t, u)
        BY <1>2, <2>1, <2>3 DEF New
      <3>2. QED  BY <1>1, <2>1, <3>1
    <2>4. QED  BY <2>2, <2>3
  <1>4. QED  BY <1>3 DEF Counted

\* What was served stays asked for.
LEMMA StaysServed ==
    ASSUME NEW t, NEW u, Grown(t, u), ServedAsked(t),
           \A i \in New(t, u) :
               u[i].type = "optimization.applied" =>
                   i = Len(t) + 1 /\ Len(t) # 0 /\ Asks(t, Len(t))
    PROVE  ServedAsked(u)
  <1>1. Len(t) \in Nat /\ Len(u) \in Nat /\ DOMAIN t = 1 .. Len(t) /\ DOMAIN u = 1 .. Len(u)
        /\ Len(t) <= Len(u) /\ \A k \in 1 .. Len(t) : u[k] = t[k]
    BY SeqShape DEF Grown
  <1>2. ASSUME NEW i \in Of(u, "optimization.applied")
        PROVE  i - 1 \in DOMAIN u /\ Asks(u, i - 1)
    <2>1. i \in 1 .. Len(u) /\ u[i].type = "optimization.applied"
      BY <1>1 DEF Of
    <2>2. CASE i \in 1 .. Len(t)
      <3>1. i \in Of(t, "optimization.applied")
        BY <1>1, <2>1, <2>2 DEF Of
      <3>2. i - 1 \in 1 .. Len(t) /\ Asks(t, i - 1)
        BY <1>1, <3>1 DEF ServedAsked
      <3>3. i - 1 \in 1 .. Len(u) /\ u[i - 1] = t[i - 1]
        BY <1>1, <3>2
      <3>4. QED  BY <1>1, <3>2, <3>3 DEF Asks
    <2>3. CASE i \notin 1 .. Len(t)
      <3>1. i \in New(t, u)
        BY <1>1, <2>1, <2>3 DEF New
      <3>2. i = Len(t) + 1 /\ Len(t) # 0 /\ Asks(t, Len(t))
        BY <2>1, <3>1
      <3>3. i - 1 = Len(t) /\ Len(t) \in 1 .. Len(u) /\ u[Len(t)] = t[Len(t)]
        BY <1>1, <3>2
      <3>4. QED  BY <1>1, <3>2, <3>3 DEF Asks
    <2>4. QED  BY <2>2, <2>3
  <1>3. QED  BY <1>2 DEF ServedAsked

-----------------------------------------------------------------------------
(* What the views rely on.                                                 *)

\* The frame of a call holds the request of the instruction.
Fields == {"req", "dup", "hit", "match"}

Framing ==
    /\ DOMAIN frame = {"app"}
    /\ pc["app"] \in InTool \cup InModel =>
           DOMAIN frame["app"] = Fields /\ frame["app"].req = Code[at].req

\* In a run that shares no cache, what the cache holds was asked for in this run,
\* and so was what is about to be stored.
Shelved ==
    /\ \A k \in DOMAIN cache : cache[k] # NoResult => \E q \in checked : CacheKey(q) = k
    /\ \A r \in Requests(ProgramFor(job)) : CacheKey(r) \in DOMAIN cache
    /\ pc["app"] = "execute" /\ job.set.optimize # "off" /\ ~Code[at].req.failed =>
           Code[at].req \in checked
    /\ pc["app"] = "model_execute" /\ job.set.optimize # "off" => Code[at].req \in checked
    /\ pc["app"] = "serve" => Len(Trace) # 0 /\ Asks(Trace, Len(Trace))

ViewInv ==
    /\ past # << >> =>
           Tidy(Latest.trace) /\ (~Latest.shared => ServedAsked(Latest.trace))
    /\ job # NoJob =>
           /\ Framing /\ Tidy(Trace)
           /\ ~job.shared => Shelved /\ ServedAsked(Trace)

-----------------------------------------------------------------------------
(* The calls that only emit.                                               *)

\* What is said outside the calls costs nothing, and a verdict that is given
\* carries the right numbers.
Soft(x) ==
    /\ IsEvent(x.event) /\ IsNote(x.note) /\ x.event.cost = 0
    /\ x.event.type \notin Completions /\ x.event.type # "retry.scheduled"
    /\ x.event.type # "optimization.applied"
    /\ x.note.step = "" <=> x.note.agent = ""
    /\ x.event.type = "run.completed" => x.note.counts = Counts(Trace)

\* Some of it triggers nothing.
Mild(x) == Soft(x) /\ x.event.type \notin Reporting
MildRow(v) == IsSeq(v) /\ \A k \in 1 .. Len(v) : Mild(v[k])

LEMMA SamePairs ==
    ASSUME NEW f, NEW g, NEW n, PairedIn(f, 1 .. n), \A k \in 1 .. n : g[k] = f[k]
    PROVE  PairedIn(g, 1 .. n)
  BY DEF PairedIn, Triggers, Applies

LEMMA OnlyOne ==
    ASSUME NEW v, Len(v) = 1
    PROVE  \A k \in 1 .. Len(v) : v[k] = v[1]
  OBVIOUS

LEMMA SoftTidies ==
    ASSUME IsLog(events, notes), Tidy(Trace), NEW said, IsSeq(said), Emit(said),
           \A k \in 1 .. Len(said) : Soft(said[k]),
           NEW f, \A k \in 1 .. Len(said) : f[k] = said[k].event, PairedIn(f, 1 .. Len(said))
    PROVE  Tidy(Trace') /\ (ServedAsked(Trace) => ServedAsked(Trace'))
  <1> DEFINE n == Len(said)
             fs == [k \in DOMAIN said |-> said[k].event]
             ms == [k \in DOMAIN said |-> said[k].note]
             t == Trace
             u == Trace'
  <1>1. n \in Nat /\ DOMAIN said = 1 .. n
    BY SeqShape
  <1>2. /\ IsSeq(fs) /\ Len(fs) = n /\ IsSeq(ms) /\ Len(ms) = n
        /\ \A k \in 1 .. n : fs[k] = said[k].event /\ ms[k] = said[k].note
    <2> DEFINE g == [k \in 1 .. n |-> said[k].event]
               h == [k \in 1 .. n |-> said[k].note]
    <2>1. fs = [k \in 1 .. n |-> g[k]] /\ ms = [k \in 1 .. n |-> h[k]]
      BY <1>1
    <2>2. \A k \in 1 .. n : g[k] = said[k].event /\ h[k] = said[k].note
      OBVIOUS
    <2> HIDE DEF g, h, fs, ms, n
    <2>3. QED  BY <1>1, <2>1, <2>2, SeqBuild
  <1>3. events' = events \o fs /\ notes' = notes \o ms
    BY DEF Emit
  <1>4. \A k \in 1 .. n : Soft(said[k])
    OBVIOUS
  <1>5. PairedIn(f, 1 .. n) /\ \A k \in 1 .. n : f[k] = said[k].event
    OBVIOUS
  <1> HIDE DEF n, fs, ms
  <1>6. \A k \in 1 .. n : IsEvent(fs[k]) /\ IsNote(ms[k])
    BY <1>2, <1>4 DEF Soft
  <1>7. Appends(fs, ms)
    BY <1>2, <1>3, <1>6 DEF Appends, IsLog
  <1> DEFINE e(k) == Noted(fs[k], ms[k])
  <1>8. ASSUME NEW k \in 1 .. n
        PROVE  /\ Clear(e(k)) /\ e(k).type \notin Completions /\ e(k).type # "retry.scheduled"
               /\ e(k).type # "optimization.applied"
               /\ e(k).type = "run.completed" => e(k).counts = Counts(t)
    <2> DEFINE x == said[k]
    <2>1. Soft(x) /\ fs[k] = x.event /\ ms[k] = x.note
      BY <1>2, <1>4
    <2>2. /\ e(k).type = x.event.type /\ e(k).cost = x.event.cost
          /\ e(k).step = x.note.step /\ e(k).agent = x.note.agent
          /\ e(k).counts = x.note.counts
      BY <1>6, <2>1, NotedKeeps
    <2> HIDE DEF e, x
    <2>3. 0 \in Nat
      OBVIOUS
    <2>4. e(k).type \notin Completions /\ e(k).type # "retry.scheduled" /\ e(k).cost \in Nat
      BY <2>1, <2>2, <2>3 DEF Soft
    <2>5. e(k).step = "" <=> e(k).agent = ""
      BY <2>1, <2>2 DEF Soft
    <2>6. e(k).cost = 0
      BY <2>1, <2>2 DEF Soft
    <2>7. Clear(e(k))
      BY <2>4, <2>5, <2>6 DEF Clear, Costed
    <2>8. QED  BY <2>1, <2>2, <2>4, <2>7 DEF Soft
  <1>9. PairedIn(fs, 1 .. n)
    <2>1. PairedIn(f, 1 .. n) /\ \A k \in 1 .. n : fs[k] = f[k]
      BY <1>2, <1>5
    <2>2. QED  BY <2>1, SamePairs
  <1>10. Len(fs) = n
    BY <1>2
  <1>11. /\ Grown(t, u)
         /\ \A k \in 1 .. n : u[Len(t) + k] = e(k)
         /\ \A i \in New(t, u) : \E k \in 1 .. n : i = Len(t) + k
    BY <1>7, <1>10, Appended
  <1>12. IsSeq(u) /\ AllClear(u) /\ PairedIn(u, 1 .. Len(u))
    <2>1. AllClear(Trace) /\ PairedIn(Trace, 1 .. Len(Trace))
      BY DEF Tidy
    <2>2. \A k \in 1 .. Len(fs) : Clear(Noted(fs[k], ms[k]))
      BY <1>8, <1>10
    <2>3. PairedIn(fs, 1 .. Len(fs))
      BY <1>9, <1>10
    <2>4. QED  BY <1>7, <2>1, <2>2, <2>3, StaysClear
  <1>13. Counted(t)
    BY DEF Tidy
  <1> HIDE DEF t, u, e
  <1>14. \A i \in New(t, u) :
             /\ u[i].type \notin Completions /\ u[i].type # "retry.scheduled"
             /\ u[i].type # "optimization.applied"
             /\ u[i].type = "run.completed" => u[i].counts = Counts(t)
    BY <1>8, <1>11
  <1>15. Counted(u)
    <2>1. \A i \in New(t, u) :
              /\ u[i].type # "tool.completed" /\ u[i].type # "retry.scheduled"
              /\ u[i].type = "run.completed" => u[i].counts = Counts(t)
      BY <1>14 DEF Completions
    <2>2. QED  BY <1>11, <1>13, <2>1, StaysCounted
  <1>16. ServedAsked(t) => ServedAsked(u)
    BY <1>11, <1>14, StaysServed
  <1>17. QED  BY <1>12, <1>15, <1>16 DEF Tidy, t, u

LEMMA MildTidies ==
    ASSUME IsLog(events, notes), Tidy(Trace), NEW said, MildRow(said), Emit(said)
    PROVE  Tidy(Trace') /\ (ServedAsked(Trace) => ServedAsked(Trace'))
  <1> DEFINE f == [k \in 1 .. Len(said) |-> said[k].event]
  <1>1. \A k \in 1 .. Len(said) : f[k] = said[k].event
    OBVIOUS
  <1> HIDE DEF f
  <1>2. \A k \in 1 .. Len(said) : f[k].type \notin Reporting /\ Soft(said[k])
    BY <1>1 DEF MildRow, Mild
  <1>3. PairedIn(f, 1 .. Len(said))
    BY <1>2, NonePaired
  <1>4. IsSeq(said)
    BY DEF MildRow
  <1>5. QED  BY <1>1, <1>2, <1>3, <1>4, SoftTidies

\* One entry, or two.
LEMMA MildSaid ==
    ASSUME NEW type, NEW status, NEW note, IsNote(note), note.step = "" <=> note.agent = "",
           type \notin Completions, type \notin Reporting, type # "retry.scheduled",
           type # "optimization.applied", type = "run.completed" => note.counts = Counts(Trace)
    PROVE  MildRow(Said(type, status, note))
  <1> DEFINE e == [event |-> Report!Plain(type, NoTool, status), note |-> note]
             v == << e >>
  <1>1. Said(type, status, note) = v
    BY DEF Said
  <1>2. e.event = Report!Plain(type, NoTool, status) /\ e.note = note
    OBVIOUS
  <1>3. e.event.type = type /\ e.event.cost = 0 /\ IsEvent(e.event)
    BY DEF Report!Plain, IsEvent
  <1> HIDE DEF e
  <1>4. Mild(e)
    BY <1>2, <1>3 DEF Mild, Soft
  <1>5. IsSeq(v) /\ Len(v) = 1 /\ v[1] = e
    BY SeqOne
  <1> HIDE DEF v
  <1>6. \A k \in 1 .. Len(v) : v[k] = v[1]
    BY <1>5, OnlyOne
  <1>7. QED  BY <1>1, <1>4, <1>5, <1>6, Zenon DEF MildRow

LEMMA MildNone == MildRow(<< >>)
  <1> DEFINE v == << >>
  <1>1. IsSeq(v) /\ Len(v) = 0
    BY SeqNone
  <1> HIDE DEF v
  <1>2. MildRow(v)
    BY <1>1 DEF MildRow
  <1>3. QED  BY <1>2 DEF v

LEMMA MildJoin ==
    ASSUME NEW v, NEW w, MildRow(v), MildRow(w)
    PROVE  MildRow(v \o w)
  <1> DEFINE x == v \o w
             m == Len(v)
             n == Len(w)
  <1>1. IsSeq(v) /\ IsSeq(w)
    BY DEF MildRow
  <1>2. m \in Nat /\ n \in Nat
    BY <1>1, SeqShape
  <1>3. /\ IsSeq(x) /\ Len(x) = m + n
        /\ \A i \in 1 .. m : x[i] = v[i]
        /\ \A i \in 1 .. n : x[m + i] = w[i]
    BY <1>1, SeqJoin
  <1>4. (\A i \in 1 .. m : Mild(v[i])) /\ (\A i \in 1 .. n : Mild(w[i]))
    BY DEF MildRow
  <1> HIDE DEF x, m, n
  <1>5. ASSUME NEW k \in 1 .. m + n
        PROVE  Mild(x[k])
    <2>1. CASE k \in 1 .. m
      BY <1>3, <1>4, <2>1
    <2>2. CASE k \notin 1 .. m
      <3>1. k - m \in 1 .. n /\ m + (k - m) = k
        BY <1>2, <2>2
      <3>2. x[k] = w[k - m]
        BY <1>3, <3>1
      <3>3. QED  BY <1>4, <3>1, <3>2
    <2>3. QED  BY <2>1, <2>2
  <1>6. QED  BY <1>3, <1>5 DEF MildRow, x

\* Outside a call only the trace can change what the views rely on.
LEMMA RestKeepsView ==
    ASSUME ViewInv, job # NoJob, job' = job, past' = past, pc' = pc,
           pc["app"] \in {"idle", "stopped"}, frame' = frame, cache' = cache, checked' = checked,
           Tidy(Trace'), ServedAsked(Trace) => ServedAsked(Trace')
    PROVE  ViewInv'
  <1>1. (past # << >> => Tidy(Latest.trace) /\ (~Latest.shared => ServedAsked(Latest.trace)))'
    BY DEF ViewInv, Latest
  <1>2. Framing'
    BY DEF ViewInv, Framing, InTool, InModel
  <1>3. ASSUME ~job.shared
        PROVE  Shelved'
    <2>1. Shelved
      BY <1>3 DEF ViewInv
    <2>2. ProgramFor(job)' = ProgramFor(job)
      BY DEF ProgramFor
    <2>3. (\A k \in DOMAIN cache : cache[k] # NoResult => \E q \in checked : CacheKey(q) = k)'
      BY <2>1 DEF Shelved
    <2>4. (\A r \in Requests(ProgramFor(job)) : CacheKey(r) \in DOMAIN cache)'
      BY <2>1, <2>2 DEF Shelved
    <2>5. pc'["app"] # "execute" /\ pc'["app"] # "model_execute" /\ pc'["app"] # "serve"
      OBVIOUS
    <2>6. QED  BY <2>3, <2>4, <2>5 DEF Shelved
  <1>4. ~job'.shared => ServedAsked(Trace')
    BY DEF ViewInv
  <1>5. QED  BY <1>1, <1>2, <1>3, <1>4 DEF ViewInv

\* An instruction that says something mild.
LEMMA MildKeepsView ==
    ASSUME WorkflowInv, ViewInv, NEW op, Performs(op), NEW said, MildRow(said), Emit(said)
    PROVE  ViewInv'
  <1>1. /\ job # NoJob /\ job' = job /\ past' = past /\ pc' = pc /\ pc["app"] \in {"idle", "stopped"}
        /\ frame' = frame /\ cache' = cache /\ checked' = checked
    BY DEF Performs, Outside
  <1>2. IsLog(events, notes) /\ Tidy(Trace)
    BY <1>1 DEF WorkflowInv, ViewInv
  <1>3. Tidy(Trace') /\ (ServedAsked(Trace) => ServedAsked(Trace'))
    BY <1>2, MildTidies
  <1>4. QED  BY <1>1, <1>3, RestKeepsView

\* Types that a mild instruction may say, and its place.
LEMMA MildTypes ==
    \A type \in {"run.started", "preflight.approved", "context.attached", "route.applied",
                 "memory.retrieved", "agent.started", "agent.finished", "validation.completed",
                 "run.completed", "run.failed"} :
        /\ type \notin Completions /\ type \notin Reporting /\ type # "retry.scheduled"
        /\ type # "optimization.applied"
  BY DEF Completions, Reporting

LEMMA HerePlaced ==
    ASSUME WorkflowInv, NEW op, Performs(op)
    PROVE  /\ Here.step = "" <=> Here.agent = ""
           /\ Blank.step = "" /\ Blank.agent = ""
           /\ \A c : [Here EXCEPT !.context = c].step = Here.step
                     /\ [Here EXCEPT !.context = c].agent = Here.agent
           /\ \A c : [Here EXCEPT !.counts = c].step = Here.step
                     /\ [Here EXCEPT !.counts = c].agent = Here.agent
           /\ \A c : [Blank EXCEPT !.label = c].step = "" /\ [Blank EXCEPT !.label = c].agent = ""
           /\ \A c : [Blank EXCEPT !.counts = c].step = "" /\ [Blank EXCEPT !.counts = c].agent = ""
                     /\ [Blank EXCEPT !.counts = c].counts = c
  <1>1. Code[at].step = "" <=> Code[at].agent = ""
    BY Performed DEF Allowed, Proper
  <1>2. QED  BY <1>1, HereIs DEF Here, Blank

\* A single entry of such a type.
LEMMA OneKeepsView ==
    ASSUME WorkflowInv, ViewInv, NEW op, Performs(op),
           NEW type \in {"context.attached", "route.applied", "memory.retrieved", "agent.started",
                         "agent.finished", "validation.completed"},
           NEW status, NEW note, IsNote(note), note.step = "" <=> note.agent = "",
           Emit(Said(type, status, note))
    PROVE  ViewInv'
  <1>1. type # "run.completed"
    OBVIOUS
  <1>2. /\ type \notin Completions /\ type \notin Reporting /\ type # "retry.scheduled"
        /\ type # "optimization.applied"
    BY MildTypes
  <1>3. MildRow(Said(type, status, note))
    BY <1>1, <1>2, MildSaid
  <1>4. QED  BY <1>3, MildKeepsView

LEMMA SayingKeepsView ==
    ASSUME WorkflowInv, ViewInv,
           Enter \/ Leave \/ AttachContext \/ ApplyRoute \/ Recall \/ EmitValidation
    PROVE  ViewInv'
  <1>1. CASE Enter
    <2>1. Performs("enter") /\ Emit(Said("agent.started", "none", Here))
      BY <1>1 DEF Enter
    <2>2. IsNote(Here) /\ (Here.step = "" <=> Here.agent = "")
      BY <2>1, HereIs, HerePlaced
    <2>3. QED  BY <2>1, <2>2, OneKeepsView
  <1>2. CASE Leave
    <2>1. Performs("leave") /\ Emit(Said("agent.finished", "ok", Here))
      BY <1>2 DEF Leave
    <2>2. IsNote(Here) /\ (Here.step = "" <=> Here.agent = "")
      BY <2>1, HereIs, HerePlaced
    <2>3. QED  BY <2>1, <2>2, OneKeepsView
  <1>3. CASE AttachContext
    <2> DEFINE note == [Here EXCEPT !.context = Code[at].arg]
    <2>1. Performs("context") /\ Emit(Said("context.attached", "none", note))
      BY <1>3 DEF AttachContext
    <2>2. IsNote(note) /\ (note.step = "" <=> note.agent = "")
      BY <2>1, HereIs, HerePlaced
    <2> HIDE DEF note
    <2>3. QED  BY <2>1, <2>2, OneKeepsView
  <1>4. CASE ApplyRoute
    <2>1. Performs("route") /\ Emit(Said("route.applied", "none", Here))
      BY <1>4 DEF ApplyRoute
    <2>2. IsNote(Here) /\ (Here.step = "" <=> Here.agent = "")
      BY <2>1, HereIs, HerePlaced
    <2>3. QED  BY <2>1, <2>2, OneKeepsView
  <1>5. CASE Recall
    <2> DEFINE c == <<IF job.set.keeps THEN 1 ELSE 0, 0>>
               note == [Here EXCEPT !.counts = c]
    <2>1. Performs("recall") /\ Emit(Said("memory.retrieved", "none", note))
      BY <1>5 DEF Recall
    <2> HIDE DEF c
    <2>2. IsNote(note) /\ (note.step = "" <=> note.agent = "")
      BY <2>1, HereIs, HerePlaced
    <2> HIDE DEF note
    <2>3. QED  BY <2>1, <2>2, OneKeepsView
  <1>6. CASE EmitValidation
    <2>1. Performs("validate") /\ Emit(Said("validation.completed", Code[at].arg, Blank))
      BY <1>6 DEF EmitValidation
    <2>2. IsNote(Blank) /\ (Blank.step = "" <=> Blank.agent = "")
      BY <2>1, HereIs, HerePlaced
    <2>3. QED  BY <2>1, <2>2, OneKeepsView
  <1>7. QED  BY <1>1, <1>2, <1>3, <1>4, <1>5, <1>6

LEMMA StartKeepsView ==
    ASSUME WorkflowInv, ViewInv, Start
    PROVE  ViewInv'
  <1> DEFINE note == [Blank EXCEPT !.label =
                          IF job.set.plan \/ job.session THEN TierOf(job.app) ELSE "none"]
             first == Said("run.started", "none", note)
             next == IF job.session THEN Said("preflight.approved", "none", Blank) ELSE << >>
             said == first \o next
  <1>1. Performs("start") /\ Emit(said)
    BY DEF Start
  <1>2. IsNote(note) /\ IsNote(Blank) /\ note.step = "" /\ note.agent = ""
        /\ Blank.step = "" /\ Blank.agent = ""
    BY <1>1, HereIs, HerePlaced
  <1>3. next = << >> \/ next = Said("preflight.approved", "none", Blank)
    OBVIOUS
  <1>4. "run.started" # "run.completed" /\ "preflight.approved" # "run.completed"
    OBVIOUS
  <1> HIDE DEF note
  <1>5. MildRow(first)
    BY <1>2, <1>4, MildTypes, MildSaid
  <1>6. MildRow(Said("preflight.approved", "none", Blank))
    BY <1>2, <1>4, MildTypes, MildSaid
  <1> HIDE DEF first, next
  <1>7. MildRow(next)
    BY <1>3, <1>6, MildNone
  <1>8. MildRow(said)
    BY <1>5, <1>7, MildJoin
  <1> HIDE DEF said
  <1>9. QED  BY <1>1, <1>8, MildKeepsView

\* The events of the trace are counted as the trace is.
LEMMA EventsCount ==
    ASSUME IsLog(events, notes)
    PROVE  Counts(events) = Counts(Trace)
  <1> DEFINE t == Trace
  <1>1. Len(t) = Len(events) /\ IsSeq(t) /\ IsSeq(events) /\ Len(events) \in Nat
        /\ \A i \in 1 .. Len(events) : t[i] = Noted(events[i], notes[i])
    BY TraceNow, TraceIs, SeqShape DEF IsLog
  <1>2. \A i \in 1 .. Len(events) : t[i].type = events[i].type /\ t[i].dup = events[i].dup
    BY <1>1, NotedKeeps DEF IsLog
  <1>3. DOMAIN t = 1 .. Len(events) /\ DOMAIN events = 1 .. Len(events)
    BY <1>1, SeqShape
  <1> HIDE DEF t
  <1>4. \A type : Of(events, type) = Of(t, type)
    BY <1>2, <1>3 DEF Of
  <1> DEFINE done == Of(t, "tool.completed")
  <1>5. {i \in done : events[i].dup} = {i \in done : t[i].dup}
    BY <1>2, <1>3 DEF Of
  <1>6. Duplicates(events, done) = Duplicates(t, done)
    BY <1>5 DEF Duplicates
  <1>7. QED  BY <1>4, <1>6 DEF Counts, Count, t

LEMMA FinishKeepsView ==
    ASSUME WorkflowInv, ViewInv, FinishRun
    PROVE  ViewInv'
  <1> DEFINE arg == Code[at].arg
             c == <<Duplicates(events, Of(events, "tool.completed")),
                    Count(events, "retry.scheduled")>>
             note == [Blank EXCEPT !.counts = c]
             first == Said("run.completed", arg, note)
             next == IF arg \in {"error", "fail"} THEN Said("run.failed", arg, note) ELSE << >>
             said == first \o next
  <1>1. Performs("finish") /\ Emit(said)
    BY DEF FinishRun
  <1>2. IsNote(note) /\ note.step = "" /\ note.agent = "" /\ note.counts = c
    BY <1>1, HereIs, HerePlaced
  <1>3. c = Counts(Trace)
    <2>1. c = Counts(events)
      BY DEF Counts
    <2>2. QED  BY <2>1, EventsCount DEF WorkflowInv
  <1>4. next = << >> \/ next = Said("run.failed", arg, note)
    OBVIOUS
  <1> HIDE DEF c, note, arg
  <1>5. MildRow(first) /\ MildRow(Said("run.failed", arg, note))
    BY <1>2, <1>3, MildTypes, MildSaid
  <1> HIDE DEF first, next
  <1>7. MildRow(next)
    BY <1>4, <1>5, MildNone
  <1>8. MildRow(said)
    BY <1>5, <1>7, MildJoin
  <1> HIDE DEF said
  <1>9. QED  BY <1>1, <1>8, MildKeepsView

\* A node that is open has a step and an agent, or neither.
LEMMA NodePlaced ==
    ASSUME NEW t, AllClear(t), IsSeq(t), NEW n, n # NoNode, NodeIs(t, n)
    PROVE  n.step = "" <=> n.agent = ""
  <1> DEFINE i == Len(t) + 1
             m == LastMark(t, i)
  <1>1. Len(t) \in Nat /\ DOMAIN t = 1 .. Len(t)
    BY SeqShape
  <1>2. Opened(t, i) /\ By(t, m, n)
    BY DEF NodeIs
  <1>3. Upto(t, i) # {} /\ Upto(t, i) \in SUBSET (1 .. Len(t))
    BY <1>1, <1>2 DEF Opened, Upto, Marks
  <1>4. m \in 1 .. Len(t)
    BY <1>1, <1>3, MaxIn DEF LastMark
  <1> HIDE DEF m, i
  <1>5. QED  BY <1>2, <1>4 DEF AllClear, Clear, By

LEMMA UnwindKeepsView ==
    ASSUME WorkflowInv, ViewInv, Unwind
    PROVE  ViewInv'
  <1> DEFINE note == [Blank EXCEPT !.step = node.step, !.agent = node.agent]
             said == Said("agent.finished", "ok", note)
  <1>1. /\ job # NoJob /\ exc # "none" /\ node # NoNode /\ Emit(said)
        /\ job' = job /\ past' = past /\ pc' = pc
        /\ frame' = frame /\ cache' = cache /\ checked' = checked
    BY DEF Unwind
  <1>2. Tidy(Trace) /\ IsLog(events, notes) /\ NodeIs(Trace, node) /\ pc["app"] \in {"idle", "stopped"}
    BY <1>1 DEF ViewInv, WorkflowInv, Running, TypeOK
  <1>3. IsNote(note) /\ note.step = node.step /\ note.agent = node.agent
    BY DEF Blank, IsNote
  <1>4. node.step = "" <=> node.agent = ""
    BY <1>1, <1>2, NodePlaced DEF Tidy
  <1>5. "agent.finished" # "run.completed"
    OBVIOUS
  <1> HIDE DEF note
  <1>6. MildRow(said)
    BY <1>3, <1>4, <1>5, MildTypes, MildSaid
  <1> HIDE DEF said
  <1>7. Tidy(Trace') /\ (ServedAsked(Trace) => ServedAsked(Trace'))
    BY <1>1, <1>2, <1>6, MildTidies
  <1>8. QED  BY <1>1, <1>2, <1>7, RestKeepsView

LEMMA HandleKeepsView ==
    ASSUME WorkflowInv, ViewInv, Handle
    PROVE  ViewInv'
  <1>1. /\ job # NoJob /\ exc # "none" /\ events' = events /\ notes' = notes
        /\ job' = job /\ past' = past /\ pc' = pc
        /\ frame' = frame /\ cache' = cache /\ checked' = checked
    BY DEF Handle
  <1>2. Trace' = Trace
    BY <1>1 DEF Trace
  <1>3. pc["app"] \in {"idle", "stopped"} /\ Tidy(Trace)
    BY <1>1 DEF WorkflowInv, TypeOK, ViewInv
  <1>4. QED  BY <1>1, <1>2, <1>3, RestKeepsView

-----------------------------------------------------------------------------
(* The offline evaluation.                                                 *)

\* What it reports costs nothing, comes in pairs and points at an event or at none.
Inner(found) == [k \in 1 .. Len(found) |-> found[k].event]

Told(found, n) ==
    /\ Reported(found)
    /\ \A k \in 1 .. Len(found) : found[k].event.cost = 0 /\ found[k].at \in 0 .. n
    /\ PairedIn(Inner(found), 1 .. Len(found))

LEMMA ToldPair ==
    ASSUME NEW p, NEW action, NEW tool, NEW n \in Nat, NEW i \in 0 .. n
    PROVE  Told([k \in 1 .. 2 |-> [event |-> Report!Intervention(p, action, tool)[k],
                                   at |-> i]], n)
  <1> DEFINE d == Report!Intervention(p, action, tool)
             f == [k \in 1 .. 2 |-> [event |-> d[k], at |-> i]]
  <1>1. Reported(f)
    BY PairIs
  <1>2. d[1].cost = 0 /\ d[1].type = "policy.triggered" /\ d[1].policy = p
    BY DEF Report!Intervention, Report!Plain
  <1>3. d[2].cost = 0 /\ d[2].type = "intervention.applied" /\ d[2].policy = p
    BY DEF Report!Intervention, Report!Plain
  <1> HIDE DEF d
  <1>4. \A k \in 1 .. 2 : f[k].event = d[k] /\ f[k].at = i
    OBVIOUS
  <1>5. Len(f) = 2
    <2> DEFINE m == 2
    <2>1. m \in Nat /\ f = [k \in 1 .. m |-> f[k]]
      OBVIOUS
    <2> HIDE DEF m, f
    <2>2. Len(f) = m
      BY <2>1, SeqBuild
    <2>3. QED  BY <2>2 DEF m
  <1> HIDE DEF f
  <1>6. \A k \in 1 .. 2 : k = 1 \/ k = 2
    OBVIOUS
  <1>7. 1 \in 1 .. 2 /\ 1 + 1 = 2 /\ 2 \in 1 .. 2 /\ 2 - 1 = 1
    OBVIOUS
  <1> DEFINE g == Inner(f)
  <1>8. \A k \in 1 .. 2 : g[k] = d[k]
    BY <1>4, <1>5 DEF Inner
  <1> HIDE DEF g
  <1>9. PairedIn(g, 1 .. 2)
    <2>1. /\ Triggers(g, 1) /\ ~Applies(g, 1) /\ Applies(g, 2) /\ ~Triggers(g, 2)
          /\ g[2].policy = g[1].policy
      BY <1>2, <1>3, <1>7, <1>8 DEF Triggers, Applies
    <2>2. QED  BY <1>6, <1>7, <2>1 DEF PairedIn
  <1>10. \A k \in 1 .. 2 : f[k].event.cost = 0 /\ f[k].at \in 0 .. n
    BY <1>2, <1>3, <1>4, <1>6
  <1>11. Told(f, n)
    BY <1>1, <1>5, <1>9, <1>10 DEF Told, g
  <1>12. QED  BY <1>11 DEF f, d

LEMMA ToldNone ==
    ASSUME NEW n
    PROVE  Told(<< >>, n)
  <1> DEFINE v == << >>
  <1>1. IsSeq(v) /\ Len(v) = 0
    BY SeqNone
  <1> HIDE DEF v
  <1>2. Told(v, n)
    BY <1>1 DEF Told, Reported, PairedIn
  <1>3. QED  BY <1>2 DEF v

LEMMA ToldJoin ==
    ASSUME NEW n, NEW r, NEW q, Told(r, n), Told(q, n)
    PROVE  Told(r \o q, n)
  <1> DEFINE w == r \o q
             l == Len(r)
             m == Len(q)
             f == Inner(r)
             g == Inner(q)
             h == Inner(w)
  <1>1. IsSeq(r) /\ IsSeq(q)
    BY DEF Told, Reported
  <1>2. l \in Nat /\ m \in Nat
    BY <1>1, SeqShape
  <1>3. /\ IsSeq(w) /\ Len(w) = l + m
        /\ \A i \in 1 .. l : w[i] = r[i]
        /\ \A i \in 1 .. m : w[l + i] = q[i]
    BY <1>1, SeqJoin
  <1> DEFINE Fits(x) == /\ IsEvent(x.event) /\ x.event.type \in Reporting
                        /\ x.event.cost = 0 /\ x.at \in 0 .. n
  <1>4. (\A i \in 1 .. l : Fits(r[i])) /\ (\A i \in 1 .. m : Fits(q[i]))
    BY DEF Told, Reported
  <1>5. PairedIn(f, 1 .. l) /\ PairedIn(g, 1 .. m)
    BY DEF Told
  <1>6. (\A i \in 1 .. l : f[i] = r[i].event) /\ (\A i \in 1 .. m : g[i] = q[i].event)
    BY DEF Inner
  <1>7. \A i \in 1 .. l + m : h[i] = w[i].event
    BY <1>3 DEF Inner
  <1> HIDE DEF w, l, m, f, g, h, Fits
  <1>8. ASSUME NEW k \in 1 .. l + m
        PROVE  Fits(w[k])
    <2>1. CASE k \in 1 .. l
      BY <1>3, <1>4, <2>1
    <2>2. CASE k \notin 1 .. l
      <3>1. k - l \in 1 .. m /\ l + (k - l) = k
        BY <1>2, <2>2
      <3>2. w[k] = q[k - l]
        BY <1>3, <3>1
      <3>3. QED  BY <1>4, <3>1, <3>2
    <2>3. QED  BY <2>1, <2>2
  <1>9. PairedIn(h, 1 .. l + m)
    <2>1. \A i \in 1 .. l : h[i] = f[i]
      BY <1>2, <1>3, <1>6, <1>7
    <2>2. \A i \in 1 .. m : h[l + i] = g[i]
      <3> TAKE i \in 1 .. m
      <3>1. l + i \in 1 .. l + m
        BY <1>2
      <3>2. QED  BY <1>3, <1>6, <1>7, <3>1
    <2>3. QED  BY <1>2, <1>5, <2>1, <2>2, PairsJoin
  <1>10. Reported(w)
    BY <1>3, <1>8 DEF Reported, Fits
  <1>11. \A k \in 1 .. Len(w) : w[k].event.cost = 0 /\ w[k].at \in 0 .. n
    BY <1>3, <1>8 DEF Fits
  <1>12. QED  BY <1>3, <1>9, <1>10, <1>11 DEF Told, h, w

LEMMA ToldFlat ==
    ASSUME NEW n, NEW ss, IsSeq(ss), \A i \in 1 .. Len(ss) : Told(ss[i], n)
    PROVE  Told(Report!FlattenSeq(ss), n)
  <1> DEFINE D == UNION {{ss[i][j] : j \in 1 .. Len(ss[i])} : i \in 1 .. Len(ss)}
             G == {x \in Seq(D) : Told(x, n)}
  <1>1. CASE ss = << >>
    <2>1. FlattenSeq(ss) = << >>
      BY <1>1 DEF FlattenSeq
    <2>2. QED  BY <2>1, ToldNone, ReportNames
  <1>2. CASE ss # << >>
    <2>1. ASSUME NEW i \in 1 .. Len(ss)  PROVE ss[i] \in Seq(D)
      <3>1. IsSeq(ss[i])
        BY DEF Told, Reported
      <3>2. PICK A : ss[i] \in Seq(A)
        BY <3>1 DEF IsSeq
      <3>3. Len(ss[i]) \in Nat /\ ss[i] \in [1 .. Len(ss[i]) -> A]
        BY <3>2
      <3>4. \A j \in 1 .. Len(ss[i]) : ss[i][j] \in D
        OBVIOUS
      <3> HIDE DEF D
      <3>5. ss[i] \in [1 .. Len(ss[i]) -> D]
        BY <3>3, <3>4
      <3>6. QED  BY <3>3, <3>5
    <2> HIDE DEF D
    <2>2. \A i \in 1 .. Len(ss) : ss[i] \in G
      BY <2>1
    <2>3. ASSUME NEW a \in G, NEW b \in G
          PROVE  a \o b \in G
      <3>1. a \in Seq(D) /\ b \in Seq(D) /\ Told(a, n) /\ Told(b, n)
        OBVIOUS
      <3>2. a \o b \in Seq(D)
        BY <3>1
      <3>3. Told(a \o b, n)
        BY <3>1, ToldJoin
      <3>4. QED  BY <3>2, <3>3
    <2> HIDE DEF G
    <2>4. FlattenSeq(ss) \in G
      BY <1>2, <2>2, <2>3, FlattenIn
    <2>5. Told(FlattenSeq(ss), n)
      BY <2>4 DEF G
    <2>6. QED  BY <2>5, ReportNames
  <1>3. QED  BY <1>1, <1>2

\* The events a policy points at are those of the log.
LEMMA HitsWithin ==
    ASSUME NEW log, IsSeq(log), NEW p \in Report!PolicyIds, NEW max
    PROVE  Report!Hits(p, log, max) \subseteq 0 .. Len(log)
  <1> DEFINE n == Len(log)
  <1>1. n \in Nat /\ DOMAIN log = 1 .. n
    BY SeqShape
  <1>2. {0} \subseteq 0 .. n /\ 1 .. n \subseteq 0 .. n /\ {} \subseteq 0 .. n
    BY <1>1
  <1>3. Report!DuplicateHits(log) \subseteq 1 .. n
    BY <1>1 DEF Report!DuplicateHits, Report!HashedCompletions
  <1>4. Report!SlowSteps(log) \subseteq 1 .. n
    BY <1>1 DEF Report!SlowSteps
  <1>5. Report!Repeats(log) \subseteq 1 .. n
    BY <1>1 DEF Report!Repeats, Report!HashedCompletions
  <1> HIDE DEF n
  <1>6. ASSUME NEW T, T \subseteq 1 .. n
        PROVE  Report!First(T) \subseteq 0 .. n
    <2>1. CASE T = {}
      BY <2>1 DEF Report!First
    <2>2. CASE T # {}
      <3>1. T \in SUBSET Nat
        BY <1>6, <1>1
      <3>2. \E m \in T : \A k \in T : m <= k
        BY <2>2, <3>1, Least
      <3>3. Report!Min(T) = CHOOSE x \in T : \A y \in T : x <= y
        BY Zenon DEF Report!Min
      <3>4. Report!Min(T) \in T
        BY <3>2, <3>3
      <3>5. Report!First(T) = {Report!Min(T)}
        BY <2>2 DEF Report!First
      <3>6. QED  BY <1>2, <1>6, <3>4, <3>5
    <2>3. QED  BY <2>1, <2>2
  <1>7. CASE PolicyOf[p].mode = "absent"
    BY <1>2, <1>7 DEF Report!Hits
  <1>8. CASE PolicyOf[p].mode # "absent"
    <2>1. p = "duplicate_tool_protection" => Report!Hits(p, log, max) = Report!DuplicateHits(log)
      BY <1>8 DEF Report!Hits
    <2>2. p = "retry_budget" => Report!Hits(p, log, max)
              = IF Report!RetriesScheduled(log) > RetryLimit THEN {0} ELSE {}
      BY <1>8 DEF Report!Hits
    <2>3. p = "cost_budget" => Report!Hits(p, log, max)
              = IF max # NoLimit /\ Report!TraceCost(log) > max THEN {0} ELSE {}
      BY <1>8 DEF Report!Hits
    <2>4. p = "stall_protection" => Report!Hits(p, log, max) = Report!First(Report!SlowSteps(log))
      BY <1>8 DEF Report!Hits
    <2>5. p = "loop_protection" => Report!Hits(p, log, max) = Report!First(Report!Repeats(log))
      BY <1>8 DEF Report!Hits
    <2>6. Report!Hits(p, log, max) \subseteq 0 .. n
      BY <1>2, <1>3, <1>4, <1>5, <1>6, <2>1, <2>2, <2>3, <2>4, <2>5 DEF Report!PolicyIds
    <2>7. QED  BY <2>6 DEF n
  <1>9. QED  BY <1>7, <1>8 DEF n

LEMMA ReportsTell ==
    ASSUME NEW log, IsSeq(log), NEW p \in Report!PolicyIds, NEW action, NEW max
    PROVE  Told(Report!Reports(p, action, log, max), Len(log))
  <1> DEFINE H == Report!Hits(p, log, max)
             n == Cardinality(H)
             m == Len(log)
             hits == Report!Ascending(H)
             tool(i) == IF i = 0 THEN NoTool ELSE log[i].tool
             pair(i) == [k \in 1 .. 2 |->
                           [event |-> Report!Intervention(p, action, tool(i))[k], at |-> i]]
             ss == [k \in DOMAIN hits |-> pair(hits[k])]
  <1>1. m \in Nat /\ H \subseteq 0 .. m /\ IsFiniteSet(H)
    BY SeqShape, HitsWithin, HitsFinite
  <1>2. hits = Ascending(H)
    BY Zenon DEF Report!Ascending, Ascending, Report!Cardinality, Cardinality
  <1>3. Report!Reports(p, action, log, max) = Report!FlattenSeq(ss)
    BY DEF Report!Reports
  <1>4. n \in Nat /\ Lists(hits, n, H)
    <2> HIDE DEF H
    <2>1. H \in SUBSET Nat
      BY <1>1
    <2>2. QED  BY <1>1, <1>2, <2>1, AscendingLists, FS_CardinalityType
  <1>5. DOMAIN hits = 1 .. n
    BY ReportNames DEF Report!Ascending
  <1> HIDE DEF n, hits, H, m
  <1>6. \A k \in 1 .. n : hits[k] \in 0 .. m
    BY <1>1, <1>4 DEF Lists
  <1>7. \A k \in 1 .. n : Told(pair(hits[k]), m)
    BY <1>1, <1>6, ToldPair
  <1> HIDE DEF pair
  <1>8. IsSeq(ss) /\ Len(ss) = n /\ \A k \in 1 .. n : ss[k] = pair(hits[k])
    <2> DEFINE f == [k \in 1 .. n |-> pair(hits[k])]
    <2>1. ss = [k \in 1 .. n |-> f[k]] /\ \A k \in 1 .. n : f[k] = pair(hits[k])
      BY <1>5
    <2> HIDE DEF ss, f
    <2>2. QED  BY <1>4, <2>1, SeqBuild
  <1> HIDE DEF ss
  <1>9. Told(Report!FlattenSeq(ss), m)
    BY <1>7, <1>8, ToldFlat
  <1>10. QED  BY <1>3, <1>9 DEF m

LEMMA EvaluationTells ==
    ASSUME NEW log, IsSeq(log), NEW max
    PROVE  Told(Report!Evaluated(log, max), Len(log)) /\ Told(Report!Observed(log), Len(log))
  <1> DEFINE n == Len(log)
  <1>1. Told(Report!Evaluated(log, max), n)
    <2> DEFINE p(k) == Report!InOrder[k]
               ss == [k \in DOMAIN Report!InOrder |->
                        Report!Reports(p(k), Report!Decide(p(k)), log, max)]
    <2>1. DOMAIN Report!InOrder = 1 .. 5 /\ \A k \in 1 .. 5 : p(k) \in Report!PolicyIds
      BY DEF Report!InOrder, Report!PolicyIds
    <2>2. Report!Evaluated(log, max) = Report!FlattenSeq(ss)
      BY DEF Report!Evaluated
    <2> HIDE DEF p
    <2>3. \A k \in 1 .. 5 : Told(Report!Reports(p(k), Report!Decide(p(k)), log, max), n)
      BY <2>1, ReportsTell
    <2> HIDE DEF n
    <2>4. IsSeq(ss) /\ Len(ss) = 5 /\ \A k \in 1 .. 5 : Told(ss[k], n)
      <3> DEFINE f == [k \in 1 .. 5 |-> Report!Reports(p(k), Report!Decide(p(k)), log, max)]
      <3>1. ss = [k \in 1 .. 5 |-> f[k]] /\ \A k \in 1 .. 5 : Told(f[k], n)
        BY <2>1, <2>3
      <3> HIDE DEF ss, f
      <3>2. QED  BY <3>1, SeqBuild
    <2> HIDE DEF ss
    <2>5. QED  BY <2>2, <2>4, ToldFlat
  <1>2. Told(Report!Observed(log), n)
    <2> DEFINE r == Report!Reports("duplicate_tool_protection", "observe", log, NoLimit)
               q == Report!Reports("retry_budget", "observe", log, NoLimit)
    <2>1. /\ "duplicate_tool_protection" \in Report!PolicyIds
          /\ "retry_budget" \in Report!PolicyIds
      BY DEF Report!PolicyIds
    <2>2. Told(r, n) /\ Told(q, n)
      BY <2>1, ReportsTell
    <2>3. Report!Observed(log) = r \o q
      BY DEF Report!Observed
    <2> HIDE DEF r, q, n
    <2>4. QED  BY <2>2, <2>3, ToldJoin
  <1>3. QED  BY <1>1, <1>2

LEMMA EvaluateKeepsView ==
    ASSUME WorkflowInv, ViewInv, EvaluateTrace
    PROVE  ViewInv'
  <1> DEFINE found == IF job.set.enforce THEN Report!Evaluated(events, job.set.limit)
                                         ELSE Report!Observed(events)
             place(i) == IF i = 0 THEN Blank
                         ELSE [Blank EXCEPT !.step = notes[i].step, !.agent = notes[i].agent]
             said == [k \in DOMAIN found |->
                        [event |-> found[k].event, note |-> place(found[k].at)]]
             n == Len(events)
             t == Trace
  <1>1. Performs("evaluate") /\ Emit(said)
    BY DEF EvaluateTrace
  <1>2. /\ job # NoJob /\ job' = job /\ past' = past /\ pc' = pc /\ pc["app"] \in {"idle", "stopped"}
        /\ frame' = frame /\ cache' = cache /\ checked' = checked
    BY <1>1 DEF Performs, Outside
  <1>3. IsLog(events, notes) /\ Tidy(t) /\ IsSeq(events)
    BY <1>2 DEF WorkflowInv, ViewInv, IsLog
  <1>4. Told(found, n)
    BY <1>3, EvaluationTells
  <1>5. \A i \in 1 .. n : t[i].step = notes[i].step /\ t[i].agent = notes[i].agent /\ Clear(t[i])
    <2>1. Len(t) = n /\ \A i \in 1 .. n : t[i] = Noted(events[i], notes[i])
      BY <1>3, TraceNow, TraceIs
    <2>2. \A i \in 1 .. n : IsEvent(events[i]) /\ IsNote(notes[i])
      BY <1>3 DEF IsLog
    <2>3. AllClear(t)
      BY <1>3 DEF Tidy
    <2> HIDE DEF t, n
    <2>4. QED  BY <2>1, <2>2, <2>3, NotedKeeps DEF AllClear
  <1>6. ASSUME NEW i \in 0 .. n
        PROVE  IsNote(place(i)) /\ (place(i).step = "" <=> place(i).agent = "")
    <2>1. CASE i = 0
      BY <2>1 DEF Blank, IsNote
    <2>2. CASE i # 0
      <3>1. place(i) = [Blank EXCEPT !.step = notes[i].step, !.agent = notes[i].agent]
        BY <2>2
      <3>2. IsNote(place(i)) /\ place(i).step = notes[i].step /\ place(i).agent = notes[i].agent
        BY <3>1 DEF Blank, IsNote
      <3>3. n \in Nat
        BY <1>3, SeqShape
      <3>4. i \in 1 .. n
        BY <2>2, <3>3
      <3>5. Clear(t[i]) /\ t[i].step = notes[i].step /\ t[i].agent = notes[i].agent
        BY <1>5, <3>4
      <3> HIDE DEF place, t
      <3>6. QED  BY <3>2, <3>5 DEF Clear
    <2>3. QED  BY <2>1, <2>2
  <1> HIDE DEF found, place, n
  <1>7. Len(found) \in Nat /\ DOMAIN found = 1 .. Len(found)
    BY <1>4, SeqShape DEF Told, Reported
  <1>8. /\ IsSeq(said) /\ Len(said) = Len(found)
        /\ \A k \in 1 .. Len(found) : said[k] = [event |-> found[k].event, note |-> place(found[k].at)]
    <2> DEFINE l == Len(found)
               f == [k \in 1 .. l |-> [event |-> found[k].event, note |-> place(found[k].at)]]
    <2>1. /\ said = [k \in 1 .. l |-> f[k]]
          /\ \A k \in 1 .. l : f[k] = [event |-> found[k].event, note |-> place(found[k].at)]
      BY <1>7
    <2> HIDE DEF f, said
    <2>2. QED  BY <1>7, <2>1, SeqBuild
  <1> HIDE DEF said
  <1>9. \A k \in 1 .. Len(said) : said[k].event = found[k].event /\ said[k].note = place(found[k].at)
    <2> TAKE k \in 1 .. Len(said)
    <2>1. said[k] = [event |-> found[k].event, note |-> place(found[k].at)]
      BY <1>8
    <2>2. QED  BY <2>1
  <1>10. ASSUME NEW k \in 1 .. Len(said)
         PROVE  Soft(said[k])
    <2> DEFINE x == said[k]
    <2>1. /\ IsEvent(found[k].event) /\ found[k].event.type \in Reporting
          /\ found[k].event.cost = 0 /\ found[k].at \in 0 .. n
      BY <1>4, <1>8 DEF Told, Reported
    <2>2. x.event = found[k].event /\ x.note = place(found[k].at)
      BY <1>9
    <2>3. IsNote(x.note) /\ (x.note.step = "" <=> x.note.agent = "")
      BY <1>6, <2>1, <2>2
    <2> HIDE DEF x
    <2>4. Soft(x)
      BY <2>1, <2>2, <2>3 DEF Soft, Reporting, Completions
    <2>5. QED  BY <2>4 DEF x
  <1>11. PairedIn(Inner(found), 1 .. Len(said))
    BY <1>4, <1>8 DEF Told
  <1>12. \A k \in 1 .. Len(said) : Inner(found)[k] = said[k].event
    BY <1>8, <1>9 DEF Inner
  <1> DEFINE f == Inner(found)
  <1> HIDE DEF f
  <1>13. IsSeq(said) /\ PairedIn(f, 1 .. Len(said)) /\ \A k \in 1 .. Len(said) : f[k] = said[k].event
    BY <1>8, <1>11, <1>12 DEF f
  <1>14. Tidy(Trace') /\ (ServedAsked(Trace) => ServedAsked(Trace'))
    BY <1>1, <1>3, <1>10, <1>13, SoftTidies DEF t
  <1>15. QED  BY <1>2, <1>14, RestKeepsView

-----------------------------------------------------------------------------
(* A step of a call.                                                       *)

\* It hands the request on,
Handed ==
    /\ DOMAIN frame' = {"app"}
    /\ pc'["app"] \in InTool \cup InModel =>
           DOMAIN frame'["app"] = Fields /\ frame'["app"].req = Code[at].req

\* and stores or serves only what was asked for.
Found(r) ==
    /\ pc["app"] = "lookup" /\ cache[CacheKey(r)] # NoResult
    /\ \A q \in checked : q.tool = r.tool /\ q.input = r.input => frame'["app"].match # "none"
    /\ Len(events') = Len(events) + 1 /\ events'[Len(events) + 1].type = "tool.requested"

Stocked(op) ==
    LET r == Code[at].req
    IN  /\ \/ cache' = cache
           \/ /\ op # "off" /\ pc["app"] \in {"execute", "model_execute"}
              /\ pc["app"] = "execute" => ~r.failed
              /\ cache' = [cache EXCEPT ![CacheKey(r)] = r]
        /\ checked \subseteq checked'
        /\ pc'["app"] = "execute" /\ op # "off" /\ ~r.failed => r \in checked'
        /\ pc'["app"] = "model_execute" /\ op # "off" => r \in checked'
        /\ pc'["app"] = "serve" => Found(r)

\* Where the step stores nothing and looks nothing up.
LEMMA PlainStocks ==
    ASSUME NEW op, cache' = cache, checked' = checked,
           pc'["app"] \notin {"execute", "model_execute", "serve"}
    PROVE  Stocked(op)
  BY DEF Stocked

\* The place in the call that a step goes to.
LEMMA GoesTo ==
    ASSUME pc \in [{"app"} -> Labels], NEW l, pc' = [pc EXCEPT !["app"] = l]
    PROVE  pc'["app"] = l
  OBVIOUS

\* The call is over, and its frame is dropped.
LEMMA DroppedHands ==
    ASSUME Framing, NEW l, l \notin InTool \cup InModel, pc'["app"] = l,
           frame' = [frame EXCEPT !["app"] = NoFrame]
    PROVE  Handed
  BY DEF Framing, Handed

\* It goes on with its frame.
LEMMA KeptHands ==
    ASSUME Framing, pc["app"] \in InTool \cup InModel, frame' = frame
    PROVE  Handed
  BY DEF Framing, Handed

\* A frame for request r.
LEMMA FrameHands ==
    ASSUME Framing, NEW r, r = Code[at].req, NEW dup, NEW hit, NEW match,
           frame' = [frame EXCEPT !["app"] =
                        [req |-> r, dup |-> dup, hit |-> hit, match |-> match]]
    PROVE  Handed
  <1> DEFINE f == [req |-> r, dup |-> dup, hit |-> hit, match |-> match]
  <1>1. DOMAIN f = Fields /\ f.req = r
    BY DEF Fields
  <1> HIDE DEF f
  <1>2. DOMAIN frame = {"app"}
    BY DEF Framing
  <1>3. DOMAIN frame' = {"app"} /\ frame'["app"] = f
    BY <1>2 DEF f
  <1>4. QED  BY <1>1, <1>3 DEF Handed

\* tool(): the steps before the lookup and the answer without running.
LEMMA CheckStocks ==
    ASSUME Framing, pc \in [{"app"} -> Labels], NEW en, NEW op, NEW ap, NEW li,
           S(en, op, ap, li)!ToolCheck("app", Code[at].req)
    PROVE  Handed /\ Stocked(op)
  <1> DEFINE r == Code[at].req
             prior == S(en, op, ap, li)!PriorOk(r)
             l == IF prior /\ S(en, op, ap, li)!Decide("duplicate_tool_protection") = "block"
                  THEN "blocked" ELSE "lookup"
  <1>1. /\ frame' = [frame EXCEPT !["app"] =
                        [req |-> r, dup |-> prior \/ r.marked, hit |-> NoResult, match |-> "none"]]
        /\ pc' = [pc EXCEPT !["app"] = l] /\ cache' = cache /\ checked' = checked
    BY DEF S!ToolCheck, S!Goto
  <1>2. l \in {"blocked", "lookup"}
    OBVIOUS
  <1>3. r = Code[at].req
    OBVIOUS
  <1> HIDE DEF l, prior, r
  <1>4. Handed
    BY <1>1, <1>3, FrameHands
  <1>5. pc'["app"] = l
    BY <1>1, GoesTo
  <1>6. QED  BY <1>1, <1>2, <1>4, <1>5, PlainStocks

LEMMA BlockedStocks ==
    ASSUME Framing, pc \in [{"app"} -> Labels], NEW en, NEW op, NEW ap, NEW li,
           \/ S(en, op, ap, li)!ToolBlocked("app")
           \/ S(en, op, ap, li)!ToolServe("app")
           \/ S(en, op, ap, li)!ToolRaise("app")
           \/ S(en, op, ap, li)!ModelRaise("app")
    PROVE  Handed /\ Stocked(op)
  <1>1. /\ frame' = [frame EXCEPT !["app"] = NoFrame]
        /\ pc' = [pc EXCEPT !["app"] = "idle"] /\ cache' = cache /\ checked' = checked
    BY DEF S!ToolBlocked, S!ToolServe, S!ToolRaise, S!ModelRaise, S!Return, S!Goto
  <1>2. pc'["app"] = "idle"
    BY <1>1, GoesTo
  <1>3. "idle" \notin InTool \cup InModel
    BY DEF InTool, InModel
  <1>4. QED  BY <1>1, <1>2, <1>3, DroppedHands, PlainStocks

\* The lookup.
LEMMA LookupStocks ==
    ASSUME Framing, pc \in [{"app"} -> Labels], IsSeq(events), NEW en, NEW op, NEW ap, NEW li,
           S(en, op, ap, li)!ToolLookup("app")
    PROVE  Handed /\ Stocked(op)
  <1> DEFINE r == Code[at].req
             looked == op # "off" /\ ~r.failed
             found == IF looked /\ r.cacheable THEN cache[CacheKey(r)] ELSE NoResult
             served == op = "active" /\ ap /\ found # NoResult
             match == IF looked THEN S(en, op, ap, li)!Match(r) ELSE "none"
             l == IF served THEN "serve" ELSE "execute"
             e == S(en, op, ap, li)!ToolEvent("tool.requested", frame["app"].req, "none",
                                              frame["app"].dup, 0)
  <1>1. pc["app"] = "lookup"
    BY DEF S!ToolLookup
  <1>2. DOMAIN frame = {"app"} /\ DOMAIN frame["app"] = Fields /\ frame["app"].req = r
    BY <1>1 DEF Framing, InTool
  <1>3. S(en, op, ap, li)!CacheKey(r) = CacheKey(r)
    BY DEF S!CacheKey, CacheKey
  <1>4. /\ frame' = [frame EXCEPT !["app"].hit = found, !["app"].match = match]
        /\ pc' = [pc EXCEPT !["app"] = l] /\ cache' = cache
        /\ checked' = IF looked THEN checked \cup {r} ELSE checked
        /\ events' = Append(events, e)
    BY <1>2, <1>3 DEF S!ToolLookup, S!Goto
  <1>5. pc'["app"] = l
    <2> HIDE DEF l
    <2>1. QED  BY <1>4, GoesTo
  <1>6. DOMAIN frame' = {"app"} /\ frame'["app"] = [frame["app"] EXCEPT !.hit = found, !.match = match]
    <2> HIDE DEF found, match
    <2>1. QED  BY <1>2, <1>4
  <1>7. DOMAIN frame'["app"] = Fields /\ frame'["app"].req = r /\ frame'["app"].match = match
    <2> HIDE DEF found, match
    <2>1. QED  BY <1>2, <1>6 DEF Fields
  <1>8. Handed
    BY <1>6, <1>7 DEF Handed
  <1>9. Len(events') = Len(events) + 1 /\ events'[Len(events) + 1].type = "tool.requested"
    <2>1. e.type = "tool.requested"
      BY DEF S!ToolEvent, S!Plain
    <2> HIDE DEF e
    <2>2. QED  BY <1>4, <2>1, OneLonger
  <1>10. l = "serve" => looked /\ cache[CacheKey(r)] # NoResult
    OBVIOUS
  <1>11. \A q \in checked : q.tool = r.tool /\ q.input = r.input =>
             S(en, op, ap, li)!Match(r) # "none"
    <2> TAKE q \in checked
    <2> HAVE q.tool = r.tool /\ q.input = r.input
    <2>1. q \in {x \in checked : x.tool = r.tool}
      OBVIOUS
    <2>2. "exact" # "none" /\ "semantic" # "none"
      OBVIOUS
    <2>3. QED  BY <2>1, <2>2 DEF S!Match
  <1>12. l = "serve" => Found(r)
    <2>1. l = "serve" => match = S(en, op, ap, li)!Match(r)
      BY <1>10
    <2> HIDE DEF match, l, looked
    <2>2. QED  BY <1>1, <1>7, <1>9, <1>10, <1>11, <2>1 DEF Found
  <1>13. l \in {"serve", "execute"}
    OBVIOUS
  <1>14. op # "off" /\ ~r.failed => r \in checked'
    BY <1>4
  <1>15. checked \subseteq checked'
    BY <1>4
  <1> HIDE DEF l, match, found, looked, served, e
  <1>16. pc'["app"] # "model_execute"
    BY <1>5, <1>13
  <1>17. Stocked(op)
    BY <1>4, <1>5, <1>12, <1>14, <1>15, <1>16 DEF Stocked, r
  <1>18. QED  BY <1>8, <1>17

\* The tool returns, and what follows.
LEMMA ReturnStocks ==
    ASSUME Framing, pc \in [{"app"} -> Labels], NEW en, NEW op, NEW ap, NEW li,
           S(en, op, ap, li)!ToolReturn("app")
    PROVE  Handed /\ Stocked(op)
  <1> DEFINE r == Code[at].req
  <1>1. pc["app"] = "execute"
    BY DEF S!ToolReturn
  <1>2. frame["app"].req = r
    BY <1>1 DEF Framing, InTool
  <1>3. S(en, op, ap, li)!CacheKey(r) = CacheKey(r)
    BY DEF S!CacheKey, CacheKey
  <1>4. S(en, op, ap, li)!Stores("app") => op # "off" /\ ~r.failed
    BY <1>2 DEF S!Stores
  <1>5. /\ frame' = frame /\ checked' = checked /\ pc' = [pc EXCEPT !["app"] = "record"]
        /\ cache' = IF S(en, op, ap, li)!Stores("app") THEN [cache EXCEPT ![CacheKey(r)] = r]
                                                       ELSE cache
    BY <1>2, <1>3 DEF S!ToolReturn, S!Goto
  <1>6. pc'["app"] = "record"
    BY <1>5, GoesTo
  <1>7. Handed
    BY <1>1, <1>5, KeptHands DEF InTool
  <1>8. Stocked(op)
    BY <1>1, <1>4, <1>5, <1>6 DEF Stocked
  <1>9. QED  BY <1>7, <1>8

LEMMA RecordStocks ==
    ASSUME Framing, pc \in [{"app"} -> Labels], NEW en, NEW op, NEW ap, NEW li,
           S(en, op, ap, li)!ToolRecord("app")
    PROVE  Handed /\ Stocked(op)
  <1>1. /\ pc["app"] = "record" /\ frame' = frame /\ checked' = checked /\ cache' = cache
        /\ pc' = [pc EXCEPT !["app"] = "guard"]
    BY DEF S!ToolRecord, S!Goto
  <1>2. pc'["app"] = "guard"
    BY <1>1, GoesTo
  <1>3. Handed
    BY <1>1, KeptHands DEF InTool
  <1>4. QED  BY <1>1, <1>2, <1>3, PlainStocks

\* The guards.
LEMMA GuardStocks ==
    ASSUME Framing, pc \in [{"app"} -> Labels], NEW en, NEW op, NEW ap, NEW li,
           S(en, op, ap, li)!ToolGuard("app") \/ S(en, op, ap, li)!RetryGuard("app")
    PROVE  Handed /\ Stocked(op)
  <1>1. PICK action :
            /\ frame' = [frame EXCEPT !["app"] = NoFrame]
            /\ pc' = [pc EXCEPT !["app"] = S(en, op, ap, li)!Continue(action, "idle")]
            /\ cache' = cache /\ checked' = checked
    <2>1. CASE S(en, op, ap, li)!ToolGuard("app")
      <3> DEFINE a == IF S(en, op, ap, li)!CostExceeded
                      THEN S(en, op, ap, li)!Decide("cost_budget") ELSE "observe"
      <3>1. /\ frame' = [frame EXCEPT !["app"] = NoFrame]
            /\ pc' = [pc EXCEPT !["app"] = S(en, op, ap, li)!Continue(a, "idle")]
            /\ cache' = cache /\ checked' = checked
        BY <2>1 DEF S!ToolGuard, S!Goto
      <3> HIDE DEF a
      <3>2. QED  BY <3>1
    <2>2. CASE S(en, op, ap, li)!RetryGuard("app")
      <3> DEFINE a == IF S(en, op, ap, li)!RetriesExhausted(frame["app"].tool)
                      THEN S(en, op, ap, li)!Decide("retry_budget") ELSE "observe"
      <3>1. /\ frame' = [frame EXCEPT !["app"] = NoFrame]
            /\ pc' = [pc EXCEPT !["app"] = S(en, op, ap, li)!Continue(a, "idle")]
            /\ cache' = cache /\ checked' = checked
        BY <2>2 DEF S!RetryGuard, S!Goto
      <3> HIDE DEF a
      <3>2. QED  BY <3>1
    <2>3. QED  BY <2>1, <2>2
  <1> DEFINE l == S(en, op, ap, li)!Continue(action, "idle")
  <1>2. l \in {"idle", "stopped", "paused"}
    BY ContinueIs
  <1> HIDE DEF l
  <1>3. pc'["app"] = l
    BY <1>1, GoesTo DEF l
  <1>4. l \notin InTool \cup InModel /\ l \notin {"execute", "model_execute", "serve"}
    BY <1>2 DEF InTool, InModel
  <1>5. Handed
    BY <1>1, <1>3, <1>4, DroppedHands
  <1>6. QED  BY <1>1, <1>3, <1>4, <1>5, PlainStocks

\* model() and retry().
LEMMA ModelStocks ==
    ASSUME Framing, pc \in [{"app"} -> Labels], NEW en, NEW op, NEW ap, NEW li,
           S(en, op, ap, li)!ModelLookup("app", Code[at].req)
    PROVE  Handed /\ Stocked(op)
  <1> DEFINE r == Code[at].req
             looked == op # "off"
             match == IF looked THEN S(en, op, ap, li)!Match(r) ELSE "none"
             found == IF match # "none" THEN cache[S(en, op, ap, li)!CacheKey(r)] ELSE NoResult
             served == /\ op = "active" /\ ap /\ r.cacheable /\ match = "exact" /\ found # NoResult
             l == IF served THEN "model_serve" ELSE "model_execute"
  <1>1. /\ frame' = [frame EXCEPT !["app"] =
                        [req |-> r, dup |-> FALSE, hit |-> found, match |-> match]]
        /\ pc' = [pc EXCEPT !["app"] = l] /\ cache' = cache
        /\ checked' = IF looked THEN checked \cup {r} ELSE checked
    BY DEF S!ModelLookup, S!Goto
  <1>2. l \in {"model_serve", "model_execute"}
    OBVIOUS
  <1>3. r = Code[at].req
    OBVIOUS
  <1>4. (op # "off" => r \in checked') /\ checked \subseteq checked'
    BY <1>1
  <1> HIDE DEF l, found, match
  <1>5. \E dup : frame' = [frame EXCEPT !["app"] =
                              [req |-> r, dup |-> dup, hit |-> found, match |-> match]]
    BY <1>1
  <1>6. Handed
    <2>1. PICK dup : frame' = [frame EXCEPT !["app"] =
                                  [req |-> r, dup |-> dup, hit |-> found, match |-> match]]
      BY <1>5
    <2> HIDE DEF r
    <2>2. QED  BY <1>3, <2>1, FrameHands
  <1>7. pc'["app"] = l
    BY <1>1, GoesTo
  <1>8. Stocked(op)
    BY <1>1, <1>2, <1>4, <1>7 DEF Stocked
  <1>9. QED  BY <1>6, <1>8

LEMMA ModelReturnStocks ==
    ASSUME Framing, pc \in [{"app"} -> Labels], NEW en, NEW op, NEW ap, NEW li,
           S(en, op, ap, li)!ModelReturn("app")
    PROVE  Handed /\ Stocked(op)
  <1> DEFINE r == Code[at].req
  <1>1. pc["app"] = "model_execute"
    BY DEF S!ModelReturn
  <1>2. frame["app"].req = r
    BY <1>1 DEF Framing, InModel
  <1>3. S(en, op, ap, li)!CacheKey(r) = CacheKey(r)
    BY DEF S!CacheKey, CacheKey
  <1>4. S(en, op, ap, li)!Stores("app") => op # "off"
    BY DEF S!Stores
  <1>5. /\ frame' = [frame EXCEPT !["app"] = NoFrame] /\ checked' = checked
        /\ pc' = [pc EXCEPT !["app"] = "idle"]
        /\ cache' = IF S(en, op, ap, li)!Stores("app") THEN [cache EXCEPT ![CacheKey(r)] = r]
                                                       ELSE cache
    BY <1>2, <1>3 DEF S!ModelReturn, S!Return, S!Goto
  <1>6. pc'["app"] = "idle" /\ "idle" \notin InTool \cup InModel
    BY <1>5, GoesTo DEF InTool, InModel
  <1>7. Handed
    BY <1>5, <1>6, DroppedHands
  <1>8. Stocked(op)
    BY <1>1, <1>4, <1>5, <1>6 DEF Stocked
  <1>9. QED  BY <1>7, <1>8

LEMMA RetryStocks ==
    ASSUME Framing, pc \in [{"app"} -> Labels], NEW en, NEW op, NEW ap, NEW li,
           \/ S(en, op, ap, li)!RetryRead("app", Code[at].req.tool)
           \/ S(en, op, ap, li)!RetryStore("app")
    PROVE  Handed /\ Stocked(op)
  <1>1. /\ \E f : frame' = [frame EXCEPT !["app"] = f] \/ frame' = frame
        /\ \E l \in {"retry_inc", "retry_guard"} : pc' = [pc EXCEPT !["app"] = l]
        /\ cache' = cache /\ checked' = checked
    BY DEF S!RetryRead, S!RetryStore, S!Goto
  <1>2. pc'["app"] \in {"retry_inc", "retry_guard"}
    BY <1>1, GoesTo
  <1>3. DOMAIN frame' = {"app"}
    BY <1>1 DEF Framing
  <1>4. Handed
    BY <1>2, <1>3 DEF Handed, InTool, InModel
  <1>5. QED  BY <1>1, <1>2, <1>4, PlainStocks

LEMMA CallStocks ==
    ASSUME Framing, pc \in [{"app"} -> Labels], IsSeq(events), NEW en, NEW op, NEW ap, NEW li,
           Begins(en, op, ap, li) \/ Proceeds(en, op, ap, li)
    PROVE  Handed /\ Stocked(op)
  <1>1. CASE Begins(en, op, ap, li)
    <2>1. \/ S(en, op, ap, li)!ToolCheck("app", Code[at].req)
          \/ S(en, op, ap, li)!ModelLookup("app", Code[at].req)
          \/ S(en, op, ap, li)!RetryRead("app", Code[at].req.tool)
      BY <1>1 DEF Begins
    <2>2. QED  BY <2>1, CheckStocks, ModelStocks, RetryStocks
  <1>2. CASE Proceeds(en, op, ap, li)
    BY <1>2, BlockedStocks, LookupStocks, ReturnStocks, RecordStocks, GuardStocks,
       ModelReturnStocks, RetryStocks DEF Proceeds
  <1>3. QED  BY <1>1, <1>2

\* The program of a run is one of those of its application, so its requests are.
LEMMA ProgramKnown ==
    ASSUME HistoryInv, job # NoJob
    PROVE  \E k \in Kinds : ProgramFor(job) = ProgramOf[k]
  <1> DEFINE f == [plan |-> job.set.plan, memory |-> job.set.memory, session |-> job.session]
             k == <<job.app, job.scenario, f>>
  <1>1. job \in Jobs /\ job.scenario \in Scenarios(job.app)
    BY DEF HistoryInv
  <1>2. job.app \in Apps /\ job.session \in BOOLEAN /\ job.set \in Settings
    BY <1>1 DEF Jobs
  <1>3. f \in Flags
    BY <1>2 DEF Settings, Flags
  <1> HIDE DEF f
  <1>4. k \in Kinds
    BY <1>1, <1>2, <1>3 DEF Kinds
  <1>5. ProgramFor(job) = ProgramOf[k]
    BY DEF ProgramFor, f
  <1>6. QED  BY <1>4, <1>5

LEMMA RequestKnown ==
    ASSUME HistoryInv, job # NoJob, part = "main", IsSeq(Code), at \in 1 .. Len(Code),
           Code[at].op \in CallOps
    PROVE  Code[at].req \in Every /\ Code[at].req \in Requests(ProgramFor(job))
  <1>1. PICK k \in Kinds : ProgramFor(job) = ProgramOf[k]
    BY ProgramKnown
  <1> DEFINE main == ProgramOf[k].main
  <1>2. Code = main /\ Code = ProgramFor(job).main
    BY <1>1 DEF Code
  <1>3. at \in DOMAIN Code
    BY SeqShape
  <1>4. Code[at].op \in {"tool", "model", "retry"}
    BY DEF CallOps
  <1>5. Code[at].req \in {Code[i].req : i \in {j \in DOMAIN Code :
                                                  Code[j].op \in {"tool", "model", "retry"}}}
    BY <1>3, <1>4
  <1>6. Code[at].req \in Requests(ProgramFor(job))
    BY <1>2, <1>5 DEF Requests
  <1> HIDE DEF main
  <1>7. Code[at].req \in {main[i].req : i \in {j \in DOMAIN main :
                                                  main[j].op \in {"tool", "model", "retry"}}}
    BY <1>2, <1>5
  <1>8. Code[at].req \in Every
    BY <1>7 DEF Every, Asked, main
  <1>9. QED  BY <1>6, <1>8

\* The events of a step of a call, with their notes.
LEMMA CallNotes ==
    ASSUME IsLog(events, notes), NEW es, CallTail(es), events' = events \o es, Annotate
    PROVE  \E ns : /\ Appends(es, ns)
                   /\ \A k \in 1 .. Len(es) : ns[k] = NoteOf(es[k])
  <1> DEFINE m == Len(events)
             n == Len(es)
             ns == [k \in 1 .. n |-> NoteOf(events'[m + k])]
  <1>1. IsSeq(events) /\ IsSeq(es) /\ m \in Nat /\ n \in Nat
    BY SeqShape DEF IsLog, CallTail
  <1>2. Len(events') = m + n /\ \A k \in 1 .. n : events'[m + k] = es[k]
    BY <1>1, SeqJoin
  <1>3. notes' = notes \o ns
    <2>1. Len(events') - m = n
      BY <1>1, <1>2
    <2>2. QED  BY <2>1 DEF Annotate
  <1>4. IsSeq(ns) /\ Len(ns) = n /\ \A k \in 1 .. n : ns[k] = NoteOf(events'[m + k])
    <2> DEFINE f == [k \in 1 .. n |-> NoteOf(events'[m + k])]
    <2>1. ns = [k \in 1 .. n |-> f[k]] /\ \A k \in 1 .. n : f[k] = NoteOf(events'[m + k])
      OBVIOUS
    <2> HIDE DEF ns, f
    <2>2. QED  BY <1>1, <2>1, SeqBuild
  <1> HIDE DEF ns
  <1>5. \A k \in 1 .. n : ns[k] = NoteOf(es[k])
    BY <1>2, <1>4
  <1>6. \A k \in 1 .. n : IsEvent(es[k]) /\ IsNote(ns[k])
    BY <1>5, NoteIs DEF CallTail, IsCallEvent
  <1>7. Appends(es, ns)
    BY <1>1, <1>3, <1>4, <1>6 DEF Appends, IsLog
  <1>8. QED  BY <1>5, <1>7

\* What is known of the call and of its request.
LEMMA CallKnown ==
    ASSUME WorkflowInv, HistoryInv, ViewInv, Call
    PROVE  /\ job # NoJob /\ job' = job /\ past' = past /\ part' = part
           /\ Framing /\ Tidy(Trace) /\ (~job.shared => Shelved /\ ServedAsked(Trace))
           /\ IsLog(events, notes) /\ IsSeq(events) /\ pc \in [{"app"} -> Labels]
           /\ Annotate /\ Extends(events, events') /\ ~Judged(Trace)
           /\ Code[at].step # "" /\ Code[at].agent # ""
           /\ Code[at].req \in Requests(ProgramFor(job))
           /\ Framed
           /\ Handed /\ Stocked(job.set.optimize)
           /\ Code' = Code /\ ProgramFor(job)' = ProgramFor(job)
           /\ pc'["app"] # "idle" => at' = at
  <1>1. /\ job # NoJob /\ Running /\ OnCourse /\ part = "main"
        /\ at \in 1 .. Len(Code) /\ Code[at].op \in CallOps
        /\ Allowed(job.app, Code[at], Now) /\ Went
    BY CallMade
  <1>2. /\ job' = job /\ past' = past /\ part' = part /\ Annotate
        /\ at' = IF pc'["app"] = "idle" /\ exc' = "none" THEN at + 1 ELSE at
    BY DEF Call
  <1>3. /\ Framing /\ Tidy(Trace) /\ (~job.shared => Shelved /\ ServedAsked(Trace))
        /\ IsLog(events, notes) /\ IsSeq(events) /\ pc \in [{"app"} -> Labels]
    BY <1>1 DEF ViewInv, WorkflowInv, IsLog
  <1>4. Extends(events, events')
    BY <1>1 DEF Went
  <1>5. ~Judged(Trace)
    <2>1. ~Now.judged
      BY <1>1 DEF Allowed
    <2>2. QED  BY <2>1 DEF Now, Stage
  <1>6. Code[at].step # "" /\ Code[at].agent # "" /\ Code[at].req.cost \in Nat
    BY <1>1 DEF Allowed, Proper
  <1>7. Code[at].req \in Every /\ Code[at].req \in Requests(ProgramFor(job))
    <2>1. IsSeq(Code)
      BY <1>1 DEF OnCourse
    <2>2. QED  BY <1>1, <2>1, RequestKnown
  <1>8. Framed
    <2>1. Code[at].req.tool \in Names
      BY <1>7 DEF Names
    <2>2. QED  BY <1>3, <1>6, <2>1 DEF Framed, Framing
  <1>9. Handed /\ Stocked(job.set.optimize)
    <2>1. PICK enforce, approved \in BOOLEAN, optimize \in {"off", "dry_run", "active"},
               limit \in {NoLimit, 1000000, 10000, 3000} :
            /\ job.set.optimize = optimize
            /\ \/ Begins(enforce, optimize, approved, limit)
               \/ pc["app"] \notin {"idle", "stopped"}
                  /\ Proceeds(enforce, optimize, approved, limit)
      BY DEF Call
    <2>2. Begins(enforce, optimize, approved, limit) \/ Proceeds(enforce, optimize, approved, limit)
      BY <2>1
    <2>3. Handed /\ Stocked(optimize)
      BY <1>3, <2>2, CallStocks
    <2>4. QED  BY <2>1, <2>3
  <1>10. Code' = Code /\ ProgramFor(job)' = ProgramFor(job)
    BY <1>2 DEF Code, ProgramFor
  <1>11. QED  BY <1>1, <1>2, <1>3, <1>4, <1>5, <1>6, <1>7, <1>8, <1>9, <1>10

\* What a call notes when it asks.
LEMMA AskNote ==
    ASSUME NEW e, e.type = "tool.requested", pc["app"] = "lookup"
    PROVE  NoteOf(e).match = frame'["app"].match
  BY DEF NoteOf, Here, Blank

\* The trace stays tidy, and what is served was asked for.
LEMMA CallTidies ==
    ASSUME WorkflowInv, HistoryInv, ViewInv, Call
    PROVE  /\ Tidy(Trace') /\ (~job.shared => ServedAsked(Trace'))
           /\ pc'["app"] = "serve" /\ ~job.shared => Len(Trace') # 0 /\ Asks(Trace', Len(Trace'))
  <1> DEFINE t == Trace
             u == Trace'
             r == Code[at].req
  <1>1. /\ job # NoJob /\ Tidy(t) /\ (~job.shared => Shelved /\ ServedAsked(t))
        /\ IsLog(events, notes) /\ IsSeq(events) /\ Annotate /\ Extends(events, events')
        /\ ~Judged(t) /\ Code[at].step # "" /\ Code[at].agent # ""
        /\ r \in Requests(ProgramFor(job)) /\ Framed /\ Stocked(job.set.optimize)
    BY CallKnown
  <1>2. PICK es : CallTail(es) /\ events' = events \o es
    BY <1>1 DEF Extends
  <1>3. PICK ns : Appends(es, ns) /\ \A k \in 1 .. Len(es) : ns[k] = NoteOf(es[k])
    BY <1>1, <1>2, CallNotes
  <1> DEFINE n == Len(es)
             m == Len(t)
  <1>4. /\ IsLog(events, notes)' /\ Grown(t, u) /\ n \in Nat /\ m \in Nat /\ Len(u) = m + n
        /\ \A k \in 1 .. n : u[m + k] = Noted(es[k], ns[k])
        /\ \A i \in New(t, u) : \E k \in 1 .. n : i = m + k
    BY <1>1, <1>3, Appended
  <1>5. ASSUME NEW k \in 1 .. n
        PROVE  LET e == Noted(es[k], ns[k])
               IN  /\ Clear(e) /\ e.type = es[k].type /\ e.match = NoteOf(es[k]).match
                   /\ e.type \in CallTypes
                   /\ e.type = "optimization.applied" => k = 1 /\ pc["app"] = "serve"
    <2> DEFINE e == Noted(es[k], ns[k])
    <2>1. IsEvent(es[k]) /\ IsNote(ns[k])
      BY <1>3 DEF Appends, IsLog
    <2>2. /\ e.type = es[k].type /\ e.tool = es[k].tool /\ e.cost = es[k].cost
          /\ e.step = ns[k].step /\ e.agent = ns[k].agent /\ e.match = ns[k].match
      BY <2>1, NotedKeeps
    <2>3. /\ es[k].type \in CallTypes /\ Costed(es[k])
          /\ es[k].type = "optimization.applied" => k = 1 /\ pc["app"] = "serve"
      BY <1>1, <1>2 DEF CallTail, IsCallEvent
    <2>4. ns[k] = NoteOf(es[k])
      BY <1>3
    <2>5. ns[k].step = Code[at].step /\ ns[k].agent = Code[at].agent
      BY <2>4, NoteIs
    <2> HIDE DEF e
    <2>6. Clear(e)
      BY <1>1, <2>2, <2>3, <2>5 DEF Clear, Costed
    <2>7. QED  BY <2>2, <2>3, <2>4, <2>6 DEF e
  <1>6. IsSeq(u) /\ AllClear(u) /\ PairedIn(u, 1 .. Len(u))
    <2>1. AllClear(Trace) /\ PairedIn(Trace, 1 .. Len(Trace))
      BY <1>1 DEF Tidy
    <2>2. \A k \in 1 .. Len(es) : Clear(Noted(es[k], ns[k]))
      BY <1>5
    <2>3. PairedIn(es, 1 .. Len(es))
      BY <1>2 DEF CallTail
    <2>4. QED  BY <1>1, <1>3, <2>1, <2>2, <2>3, StaysClear
  <1> HIDE DEF t, u, n, m
  <1>7. \A i \in New(t, u) :
            /\ u[i].type \in CallTypes
            /\ u[i].type = "optimization.applied" => i = m + 1 /\ pc["app"] = "serve"
    BY <1>4, <1>5
  <1>8. Counted(u)
    <2>1. ASSUME NEW i \in DOMAIN u
          PROVE  u[i].type # "run.completed"
      <3>1. i \in 1 .. Len(u)
        BY <1>6, SeqShape
      <3>2. CASE i \in 1 .. m
        <4>1. i \in DOMAIN t /\ u[i] = t[i]
          BY <1>4, <3>2, SeqShape DEF Grown, m
        <4>2. QED  BY <1>1, <4>1 DEF Judged, Says
      <3>3. CASE i \notin 1 .. m
        <4>1. i \in New(t, u)
          BY <1>4, <3>1, <3>3 DEF New, m
        <4>2. QED  BY <1>7, <4>1 DEF CallTypes, CallEvents, Reporting
      <3>4. QED  BY <3>2, <3>3
    <2>2. QED  BY <2>1 DEF Counted, Of
  <1>9. ~job.shared => ServedAsked(u)
    <2> SUFFICES ASSUME ~job.shared  PROVE ServedAsked(u)
      OBVIOUS
    <2>1. ServedAsked(t) /\ (pc["app"] = "serve" => Len(t) # 0 /\ Asks(t, Len(t)))
      BY <1>1 DEF Shelved, t
    <2>2. \A i \in New(t, u) : u[i].type = "optimization.applied" =>
              i = Len(t) + 1 /\ Len(t) # 0 /\ Asks(t, Len(t))
      BY <1>7, <2>1 DEF m
    <2>3. QED  BY <1>4, <2>1, <2>2, StaysServed
  <1>10. ASSUME pc'["app"] = "serve", ~job.shared
         PROVE  Len(u) # 0 /\ Asks(u, Len(u))
    <2>1. Found(r)
      BY <1>1, <1>10 DEF Stocked
    <2>2. CacheKey(r) \in DOMAIN cache /\ cache[CacheKey(r)] # NoResult
      BY <1>1, <1>10, <2>1 DEF Shelved, Found
    <2>3. PICK q \in checked : CacheKey(q) = CacheKey(r)
      BY <1>1, <1>10, <2>2 DEF Shelved
    <2>4. q.tool = r.tool /\ q.input = r.input
      BY <2>3 DEF CacheKey
    <2>5. frame'["app"].match # "none" /\ pc["app"] = "lookup"
      BY <2>1, <2>4 DEF Found
    <2>6. Len(events') = Len(events) + 1 /\ events'[Len(events) + 1].type = "tool.requested"
      BY <2>1 DEF Found
    <2>7. n = 1 /\ es[1].type = "tool.requested"
      <3>1. IsSeq(events) /\ IsSeq(es) /\ Len(events) \in Nat
        BY <1>1, <1>2, SeqShape DEF CallTail
      <3>2. /\ Len(events \o es) = Len(events) + n
            /\ \A k \in 1 .. n : (events \o es)[Len(events) + k] = es[k]
        BY <3>1, SeqJoin DEF n
      <3>3. n = 1
        BY <1>2, <1>4, <2>6, <3>1, <3>2
      <3>4. 1 \in 1 .. n
        BY <3>3
      <3>5. events'[Len(events) + 1] = es[1]
        BY <1>2, <3>2, <3>4
      <3>6. QED  BY <2>6, <3>3, <3>5
    <2>8. u[Len(u)] = Noted(es[1], ns[1]) /\ Len(u) # 0
      <3>1. Len(u) = m + 1 /\ 1 \in 1 .. n
        BY <1>4, <2>7
      <3>2. QED  BY <1>4, <3>1
    <2>9. 1 \in 1 .. n
      BY <2>7
    <2>10. u[Len(u)].type = "tool.requested" /\ u[Len(u)].match = NoteOf(es[1]).match
      BY <1>5, <2>7, <2>8, <2>9
    <2>11. NoteOf(es[1]).match = frame'["app"].match
      BY <2>5, <2>7, AskNote
    <2>12. QED  BY <2>5, <2>8, <2>10, <2>11 DEF Asks
  <1>11. QED  BY <1>6, <1>8, <1>9, <1>10 DEF Tidy, u

\* The views keep what they rely on.
LEMMA CallKeepsView ==
    ASSUME WorkflowInv, HistoryInv, ViewInv, Call
    PROVE  ViewInv'
  <1> DEFINE r == Code[at].req
  <1>1. /\ job # NoJob /\ job' = job /\ past' = past
        /\ Framing /\ (~job.shared => Shelved) /\ Handed /\ Stocked(job.set.optimize)
        /\ Code' = Code /\ ProgramFor(job)' = ProgramFor(job)
        /\ pc'["app"] # "idle" => at' = at
    BY CallKnown
  <1>2. Tidy(Trace') /\ (~job.shared => ServedAsked(Trace'))
        /\ (pc'["app"] = "serve" /\ ~job.shared => Len(Trace') # 0 /\ Asks(Trace', Len(Trace')))
    BY CallTidies
  <1>3. (past # << >> => Tidy(Latest.trace) /\ (~Latest.shared => ServedAsked(Latest.trace)))'
    BY <1>1 DEF ViewInv, Latest
  <1>4. pc'["app"] # "idle" => Code'[at'].req = r
    BY <1>1
  <1>5. Framing'
    <2>1. pc'["app"] \in InTool \cup InModel => pc'["app"] # "idle"
      BY DEF InTool, InModel
    <2>2. QED  BY <1>1, <1>4, <2>1 DEF Framing, Handed
  <1>6. ASSUME ~job.shared
        PROVE  Shelved'
    <2>1. Shelved
      BY <1>1, <1>6
    <2>2. /\ pc["app"] = "execute" /\ job.set.optimize # "off" /\ ~r.failed => r \in checked
          /\ pc["app"] = "model_execute" /\ job.set.optimize # "off" => r \in checked
      BY <2>1 DEF Shelved
    <2>3. checked \subseteq checked'
      BY <1>1 DEF Stocked
    <2>4. cache' = cache \/ (cache' = [cache EXCEPT ![CacheKey(r)] = r] /\ r \in checked)
      BY <1>1, <2>2 DEF Stocked
    <2> HIDE DEF r
    <2>5. DOMAIN cache' = DOMAIN cache
      BY <2>4
    <2>6. ASSUME NEW k \in DOMAIN cache', cache'[k] # NoResult
          PROVE  \E q \in checked' : CacheKey(q) = k
      <3>1. CASE cache'[k] = cache[k]
        BY <2>1, <2>3, <2>5, <2>6, <3>1 DEF Shelved
      <3>2. CASE cache'[k] # cache[k]
        <4>1. k = CacheKey(r) /\ r \in checked
          BY <2>4, <2>5, <2>6, <3>2
        <4>2. QED  BY <2>3, <4>1
      <3>3. QED  BY <3>1, <3>2
    <2>7. (\A k \in DOMAIN cache : cache[k] # NoResult => \E q \in checked : CacheKey(q) = k)'
      BY <2>6
    <2>8. (\A x \in Requests(ProgramFor(job)) : CacheKey(x) \in DOMAIN cache)'
      BY <1>1, <2>1, <2>5 DEF Shelved
    <2>9. /\ pc'["app"] = "execute" /\ job'.set.optimize # "off" /\ ~Code'[at'].req.failed =>
                 Code'[at'].req \in checked'
          /\ pc'["app"] = "model_execute" /\ job'.set.optimize # "off" => Code'[at'].req \in checked'
      BY <1>1, <1>4 DEF Stocked, r
    <2>10. pc'["app"] = "serve" => Len(Trace') # 0 /\ Asks(Trace', Len(Trace'))
      BY <1>2, <1>6
    <2>11. QED  BY <2>7, <2>8, <2>9, <2>10 DEF Shelved
  <1>7. QED  BY <1>1, <1>2, <1>3, <1>5, <1>6 DEF ViewInv

-----------------------------------------------------------------------------
(* Runs begin and end.                                                     *)

\* A trace without entries.
LEMMA TidyNone ==
    ASSUME NEW t, IsSeq(t), Len(t) = 0
    PROVE  Tidy(t) /\ ServedAsked(t)
  <1>1. DOMAIN t = {}
    BY SeqShape
  <1>2. \A type : Of(t, type) = {}
    BY <1>1 DEF Of
  <1>3. AllClear(t) /\ PairedIn(t, 1 .. Len(t)) /\ Counted(t)
    BY <1>2 DEF AllClear, PairedIn, Counted
  <1>4. QED  BY <1>2, <1>3 DEF Tidy, ServedAsked

\* A run begins with an empty trace, and with an empty cache unless it shares one.
LEMMA BeginKeepsView ==
    ASSUME WorkflowInv, ViewInv, NEW a \in Apps, NEW s \in Scenarios(a), NEW session \in BOOLEAN,
           NEW cross \in BOOLEAN, NEW preset \in {"none"} \cup DOMAIN FlagPresets,
           StartJob(a, s, session, preset, cross)
    PROVE  ViewInv'
  <1> DEFINE around == IF preset = "none" THEN env ELSE Flagged(env, FlagPresets[preset])
             shared == cross \/ SettingsOf(a, around).file
             j == [app |-> a, scenario |-> s, session |-> session, preset |-> preset,
                   shared |-> shared, set |-> SettingsOf(a, around), before |-> env]
             R == Requests(ProgramFor(j))
  <1>1. /\ job' = j /\ past' = past /\ NewSupervisor(R, shared)
    BY DEF StartJob
  <1>2. j.shared = shared
    OBVIOUS
  <1>4. ProgramFor(job)' = ProgramFor(j)
    BY <1>1 DEF ProgramFor
  <1> HIDE DEF j, shared
  <1>5. /\ pc' = [c \in {"app"} |-> "idle"] /\ frame' = [c \in {"app"} |-> NoFrame]
        /\ checked' = {} /\ events' = << >> /\ notes' = << >>
        /\ ~shared => cache' = [k \in {CacheKey(r) : r \in R} |-> NoResult]
    BY <1>1 DEF NewSupervisor
  <1>6. pc'["app"] = "idle" /\ DOMAIN frame' = {"app"}
    BY <1>5
  <1>7. IsSeq(Trace') /\ Len(Trace') = 0
    <2>1. Trace' = TraceOf(<< >>, << >>)
      BY <1>5 DEF Trace, TraceOf
    <2>2. IsLog(<< >>, << >>) /\ Len(<< >>) = 0
      BY NothingYet, SeqNone
    <2>3. QED  BY <2>1, <2>2, TraceIs
  <1>8. Tidy(Trace') /\ ServedAsked(Trace')
    BY <1>7, TidyNone
  <1>9. Framing'
    BY <1>6 DEF Framing, InTool, InModel
  <1>10. ASSUME ~shared
         PROVE  Shelved'
    <2>1. cache' = [k \in {CacheKey(r) : r \in R} |-> NoResult]
      BY <1>5, <1>10
    <2>2. (\A k \in DOMAIN cache : cache[k] # NoResult => \E q \in checked : CacheKey(q) = k)'
      BY <2>1
    <2>3. (\A r \in Requests(ProgramFor(job)) : CacheKey(r) \in DOMAIN cache)'
      BY <1>4, <2>1
    <2>4. QED  BY <1>6, <2>2, <2>3 DEF Shelved
  <1>11. (past # << >> => Tidy(Latest.trace) /\ (~Latest.shared => ServedAsked(Latest.trace)))'
    BY <1>1 DEF ViewInv, Latest
  <1>12. ~job'.shared => Shelved'
    BY <1>1, <1>2, <1>10
  <1>13. QED  BY <1>8, <1>9, <1>11, <1>12 DEF ViewInv

LEMMA EndKeepsView ==
    ASSUME WorkflowInv, ViewInv, EndJob
    PROVE  ViewInv'
  <1>1. job # NoJob /\ job' = NoJob
    BY DEF EndJob
  <1>2. PICK r : past' = Append(past, r) /\ r.trace = Trace /\ r.shared = job.shared
    BY EndsFair
  <1>3. Len(past') = Len(past) + 1 /\ past'[Len(past) + 1] = r
    <2>1. IsSeq(past)
      BY DEF WorkflowInv
    <2>2. QED  BY <1>2, <2>1, OneLonger
  <1>4. Latest' = r
    BY <1>3 DEF Latest
  <1>5. Tidy(Trace) /\ (~job.shared => ServedAsked(Trace))
    BY <1>1 DEF ViewInv
  <1>6. (past # << >> => Tidy(Latest.trace) /\ (~Latest.shared => ServedAsked(Latest.trace)))'
    BY <1>2, <1>4, <1>5
  <1>7. QED  BY <1>1, <1>6 DEF ViewInv

\* Nothing the views rely on changes between runs, or when nothing happens.
LEMMA IdleKeepsView ==
    ASSUME ViewInv, (\E h \in Environments : Restart(h)) \/ UNCHANGED vars
    PROVE  ViewInv'
  <1>1. /\ job' = job /\ past' = past /\ pc' = pc /\ frame' = frame /\ cache' = cache
        /\ checked' = checked /\ events' = events /\ notes' = notes /\ at' = at /\ part' = part
    BY DEF Restart, vars, app
  <1>2. Trace' = Trace
    BY <1>1 DEF Trace
  <1>3. Code' = Code /\ ProgramFor(job)' = ProgramFor(job)
    BY <1>1 DEF Code, ProgramFor
  <1>4. Framing => Framing'
    BY <1>1, <1>3 DEF Framing
  <1>5. Shelved => Shelved'
    BY <1>1, <1>2, <1>3 DEF Shelved
  <1>6. (past # << >> => Tidy(Latest.trace) /\ (~Latest.shared => ServedAsked(Latest.trace)))'
    BY <1>1 DEF ViewInv, Latest
  <1>7. QED  BY <1>1, <1>2, <1>4, <1>5, <1>6 DEF ViewInv

LEMMA ViewStep == WorkflowInv /\ HistoryInv /\ ViewInv /\ [Next]_vars => ViewInv'
  <1> SUFFICES ASSUME WorkflowInv, HistoryInv, ViewInv, [Next]_vars  PROVE ViewInv'
    OBVIOUS
  <1>1. CASE \E a \in Apps : \E s \in Scenarios(a), session, cross \in BOOLEAN,
                 preset \in {"none"} \cup DOMAIN FlagPresets :
                 StartJob(a, s, session, preset, cross)
    BY <1>1, BeginKeepsView
  <1>2. CASE EndJob
    BY <1>2, EndKeepsView
  <1>3. CASE (\E h \in Environments : Restart(h)) \/ UNCHANGED vars
    BY <1>3, IdleKeepsView
  <1>4. CASE Enter \/ Leave \/ AttachContext \/ ApplyRoute \/ Recall \/ EmitValidation
    BY <1>4, SayingKeepsView
  <1>5. CASE Start \/ FinishRun \/ EvaluateTrace
    BY <1>5, StartKeepsView, FinishKeepsView, EvaluateKeepsView
  <1>6. CASE Call
    BY <1>6, CallKeepsView
  <1>7. CASE Unwind \/ Handle
    BY <1>7, UnwindKeepsView, HandleKeepsView
  <1>8. QED  BY <1>1, <1>2, <1>3, <1>4, <1>5, <1>6, <1>7 DEF Next

LEMMA ViewInit == Init => ViewInv
  BY DEF Init, ViewInv

\* Whatever is run: each entry of a trace has both a step and an agent or
\* neither, only completions cost anything, each trigger is followed by its
\* intervention, a verdict carries the numbers of the whole trace, and without
\* a shared cache nothing is served that was not matched in the same run.
THEOREM ViewInvariant == Spec => []ViewInv
  BY ViewInit, ViewStep, HistoryInvariant, WorkflowInvariant, PTL DEF Spec

-----------------------------------------------------------------------------
(* The views of a trace.                                                   *)

\* The places of a trace are finitely many numbers.
LEMMA PlacesFinite ==
    ASSUME NEW t, IsSeq(t)
    PROVE  /\ Len(t) \in Nat /\ DOMAIN t = 1 .. Len(t) /\ DOMAIN t \in SUBSET Nat
           /\ \A T \in SUBSET (DOMAIN t) : IsFiniteSet(T) /\ T \in SUBSET Nat
  <1>1. Len(t) \in Nat /\ DOMAIN t = 1 .. Len(t)
    BY SeqShape
  <1>2. IsFiniteSet(1 .. Len(t)) /\ 1 .. Len(t) \in SUBSET Nat
    BY <1>1, FS_Interval
  <1>3. \A T \in SUBSET (1 .. Len(t)) : IsFiniteSet(T)
    BY <1>2, FS_Subset
  <1>4. QED  BY <1>1, <1>2, <1>3

\* Total is a sum over a column.
LEMMA TotalIs ==
    ASSUME NEW rows, NEW field, NEW N, DOMAIN rows = N
    PROVE  Total(rows, field) = Column(rows, field, N)
  BY Zenon DEF Total, Column

\* The steps that appear in a trace.
StepsOf(t) == {t[i].step : i \in Placed(t)}

LEMMA StepsFinite ==
    ASSUME NEW t, IsSeq(t)
    PROVE  /\ IsFiniteSet(StepsOf(t)) /\ Placed(t) \in SUBSET (DOMAIN t)
           /\ IsFiniteSet(Placed(t)) /\ Placed(t) \in SUBSET Nat
  <1> DEFINE key == [i \in DOMAIN t |-> t[i].step]
  <1>1. Placed(t) \in SUBSET (DOMAIN t)
    BY DEF Placed
  <1>2. IsFiniteSet(Placed(t)) /\ Placed(t) \in SUBSET Nat
    BY <1>1, PlacesFinite
  <1>3. IsFiniteSet({key[i] : i \in Placed(t)})
    <2> HIDE DEF key
    <2>1. QED  BY <1>2, KeysFinite
  <1>4. {key[i] : i \in Placed(t)} = StepsOf(t)
    BY <1>1 DEF StepsOf
  <1>5. QED  BY <1>1, <1>2, <1>3, <1>4

\* Rows that count what happened in each step ...
ByStep(t, rows, field, type) ==
    /\ DOMAIN rows = StepsOf(t)
    /\ \A s \in StepsOf(t) : rows[s][field] = Cardinality({i \in Of(t, type) : t[i].step = s})

\* ... add up to what happened in steps.
LEMMA RowsCount ==
    ASSUME NEW t, IsSeq(t), NEW rows, NEW field, NEW type, ByStep(t, rows, field, type),
           \A i \in Of(t, type) : t[i].step # ""
    PROVE  Total(rows, field) = Count(t, type)
  <1> DEFINE key == [i \in DOMAIN t |-> t[i].step]
             T == Of(t, type)
             N == StepsOf(t)
  <1>1. T \in SUBSET (DOMAIN t) /\ \A i \in T : key[i] = t[i].step
    BY DEF Of
  <1>2. IsFiniteSet(T) /\ IsFiniteSet(N)
    BY <1>1, PlacesFinite, StepsFinite
  <1>3. \A i \in T : key[i] \in N
    BY <1>1 DEF StepsOf, Placed, Of
  <1>4. \A s \in N : rows[s][field] = Cardinality(PartOf(T, key, s))
    <2> TAKE s \in N
    <2>1. PartOf(T, key, s) = {i \in Of(t, type) : t[i].step = s}
      BY <1>1 DEF PartOf
    <2>2. rows[s][field] = Cardinality({i \in Of(t, type) : t[i].step = s})
      BY DEF ByStep
    <2>3. QED  BY <2>1, <2>2
  <1>5. Total(rows, field) = Column(rows, field, N)
    BY TotalIs DEF ByStep
  <1>6. Count(t, type) = Cardinality(T)
    BY DEF Count
  <1> HIDE DEF key, T, N
  <1>7. Column(rows, field, N) = Cardinality(T)
    <2>1. Counting(rows, field, N, T, key)
      BY <1>2, <1>3, <1>4 DEF Counting
    <2>2. QED  BY <2>1, ColumnCounts
  <1>8. QED  BY <1>5, <1>6, <1>7

\* What is completed in a trace.
Bought(t) == Of(t, "tool.completed") \cup Of(t, "model.completed")

\* What costs nothing can be left out.
LEMMA CostOfBought ==
    ASSUME NEW t, Tidy(t)
    PROVE  /\ Costs(t, Bought(t)) /\ Costs(t, Of(t, "tool.completed"))
           /\ Costs(t, Of(t, "model.completed"))
           /\ CostOf(t, DOMAIN t) = CostOf(t, Bought(t))
           /\ CostOf(t, Bought(t))
                  = CostOf(t, Of(t, "tool.completed")) + CostOf(t, Of(t, "model.completed"))
  <1> DEFINE tools == Of(t, "tool.completed")
             models == Of(t, "model.completed")
             D == DOMAIN t
             both == Bought(t)
             rest == D \ both
  <1>1. IsSeq(t) /\ AllClear(t)
    BY DEF Tidy
  <1>2. D = 1 .. Len(t) /\ IsFiniteSet(D)
    BY <1>1, PlacesFinite
  <1>3. Costs(t, D)
    BY <1>1, <1>2 DEF Costs, AllClear, Clear, Costed
  <1>4. /\ tools \in SUBSET D /\ models \in SUBSET D /\ both \in SUBSET D /\ rest \in SUBSET D
        /\ D \cap both = both /\ D \ both = rest
        /\ both \cap tools = tools /\ both \ tools = models
    BY DEF Of, Bought
  <1>5. \A i \in rest : t[i].cost = 0
    BY <1>1, <1>2 DEF Of, Bought, AllClear, Clear, Costed, Completions
  <1> HIDE DEF D, tools, models, both, rest
  <1>6. Costs(t, tools) /\ Costs(t, models) /\ Costs(t, both) /\ Costs(t, rest)
    BY <1>3, <1>4, CostsBelow
  <1>7. IsFiniteSet(rest)
    BY <1>6 DEF Costs
  <1>8. CostOf(t, rest) = 0
    BY <1>5, <1>7, CostOfNothing
  <1>9. CostOf(t, D) = CostOf(t, D \cap both) + CostOf(t, D \ both)
    BY <1>3, CostOfSplit
  <1>10. CostOf(t, both) = CostOf(t, both \cap tools) + CostOf(t, both \ tools)
    BY <1>6, CostOfSplit
  <1>11. CostOf(t, both) \in Nat
    BY <1>6, CostOfType
  <1>12. CostOf(t, D) = CostOf(t, both)
    <2>1. CostOf(t, D) = CostOf(t, both) + 0
      BY <1>4, <1>8, <1>9
    <2>2. QED  BY <1>11, <2>1
  <1>13. CostOf(t, both) = CostOf(t, tools) + CostOf(t, models)
    BY <1>4, <1>10
  <1>14. QED  BY <1>6, <1>12, <1>13 DEF D, tools, models, both

\* The rows of the steps cost what the run costs.
LEMMA RowsCost ==
    ASSUME NEW t, Tidy(t), NEW rows, DOMAIN rows = StepsOf(t),
           \A s \in StepsOf(t) :
               rows[s].cost = CostOf(t, {i \in Of(t, "model.completed") : t[i].step = s}
                                        \cup {i \in Of(t, "tool.completed") : t[i].step = s})
    PROVE  Total(rows, "cost") = CostOf(t, DOMAIN t)
  <1> DEFINE key == [i \in DOMAIN t |-> t[i].step]
             T == Bought(t)
             N == StepsOf(t)
  <1>1. IsSeq(t) /\ AllClear(t) /\ DOMAIN t = 1 .. Len(t)
    BY SeqShape DEF Tidy
  <1>2. T \in SUBSET (DOMAIN t) /\ \A i \in T : key[i] = t[i].step
    BY DEF Of, Bought
  <1>3. \A i \in T : t[i].step # ""
    BY <1>1 DEF AllClear, Clear, Completions, Bought, Of
  <1>4. \A i \in T : key[i] \in N
    BY <1>2, <1>3 DEF StepsOf, Placed
  <1>5. \A s \in N : rows[s]["cost"] = CostOf(t, PartOf(T, key, s))
    <2> TAKE s \in N
    <2>1. PartOf(T, key, s) = {i \in Of(t, "model.completed") : t[i].step = s}
                              \cup {i \in Of(t, "tool.completed") : t[i].step = s}
      BY <1>2 DEF PartOf, Bought
    <2>2. QED  BY <2>1
  <1>6. Total(rows, "cost") = Column(rows, "cost", N)
    BY TotalIs
  <1>7. IsFiniteSet(N) /\ Costs(t, T) /\ CostOf(t, DOMAIN t) = CostOf(t, T)
    BY <1>1, StepsFinite, CostOfBought
  <1> DEFINE field == "cost"
  <1> HIDE DEF key, T, N, field
  <1>8. Column(rows, field, N) = CostOf(t, T)
    <2>1. \A s \in N : rows[s][field] = CostOf(t, PartOf(T, key, s))
      BY <1>5 DEF field
    <2>2. QED  BY <1>4, <1>7, <2>1, ColumnCosts
  <1>9. QED  BY <1>6, <1>7, <1>8 DEF field

\* So do those of the tools, or of the models, each for its kind.
LEMMA NamesCost ==
    ASSUME NEW t, NEW type, Costs(t, Of(t, type)), NEW N, IsFiniteSet(N),
           \A i \in Of(t, type) : t[i].tool \in N
    PROVE  Total([n \in N |-> Row(t, type, n)], "cost") = CostOf(t, Of(t, type))
  <1> DEFINE key == [i \in DOMAIN t |-> t[i].tool]
             T == Of(t, type)
             rows == [n \in N |-> Row(t, type, n)]
             field == "cost"
  <1>1. T \in SUBSET (DOMAIN t) /\ \A i \in T : key[i] = t[i].tool
    BY DEF Of
  <1>2. \A i \in T : key[i] \in N
    BY <1>1
  <1>3. \A n \in N : rows[n][field] = CostOf(t, PartOf(T, key, n))
    <2> TAKE n \in N
    <2>1. PartOf(T, key, n) = {i \in Of(t, type) : t[i].tool = n}
      BY <1>1 DEF PartOf
    <2>2. rows[n] = Row(t, type, n)
      OBVIOUS
    <2>3. Row(t, type, n).cost = CostOf(t, {i \in Of(t, type) : t[i].tool = n})
      BY DEF Row
    <2>4. QED  BY <2>1, <2>2, <2>3
  <1>4. DOMAIN rows = N
    OBVIOUS
  <1>5. Costs(t, T)
    OBVIOUS
  <1> HIDE DEF key, T, rows, field
  <1>6. Total(rows, field) = Column(rows, field, N)
    BY <1>4, TotalIs
  <1>7. Column(rows, field, N) = CostOf(t, T)
    BY <1>2, <1>3, <1>5, ColumnCosts
  <1>8. QED  BY <1>6, <1>7 DEF rows, field, T

\* Five things are finitely many.
LEMMA FiveFinite ==
    ASSUME NEW a, NEW b, NEW c, NEW d, NEW e
    PROVE  IsFiniteSet({a, b, c, d, e})
  <1>1. \A x : IsFiniteSet({x})
    BY FS_Singleton
  <1>2. IsFiniteSet({a} \cup {b}) /\ IsFiniteSet({c} \cup {d})
    BY <1>1, FS_Union
  <1> DEFINE ab == {a} \cup {b}
             cd == {c} \cup {d}
  <1> HIDE DEF ab, cd
  <1>3. IsFiniteSet(ab) /\ IsFiniteSet(cd) /\ IsFiniteSet({e})
    BY <1>1, <1>2 DEF ab, cd
  <1>4. IsFiniteSet(ab \cup cd)
    BY <1>3, FS_Union
  <1> DEFINE abcd == ab \cup cd
             last == {e}
  <1> HIDE DEF abcd, last
  <1>5. IsFiniteSet(abcd \cup last)
    <2>1. IsFiniteSet(abcd) /\ IsFiniteSet(last)
      BY <1>3, <1>4 DEF abcd, last
    <2>2. QED  BY <2>1, FS_Union
  <1>6. abcd \cup last = {a, b, c, d, e}
    BY DEF abcd, last, ab, cd
  <1>7. QED  BY <1>5, <1>6

\* There are finitely many settings of the flags, ...
LEMMA FlagsFinite == IsFiniteSet(Flags)
  <1> DEFINE Threes == (BOOLEAN \X BOOLEAN) \X BOOLEAN
             flags == [p \in Threes |-> [plan |-> p[1][1], memory |-> p[1][2], session |-> p[2]]]
  <1>1. IsFiniteSet(BOOLEAN)
    <2>1. BOOLEAN = {TRUE, FALSE, TRUE, FALSE, TRUE}
      OBVIOUS
    <2> DEFINE yes == TRUE
               no == FALSE
    <2> HIDE DEF yes, no
    <2>2. IsFiniteSet({yes, no, yes, no, yes})
      BY FiveFinite, Zenon
    <2>3. QED  BY <2>1, <2>2 DEF yes, no
  <1>2. IsFiniteSet(Threes)
    <2>1. IsFiniteSet(BOOLEAN \X BOOLEAN)
      BY <1>1, FS_Product
    <2>2. QED  BY <1>1, <2>1, FS_Product
  <1>3. \A f \in Flags : f \in {flags[p] : p \in Threes}
    <2> TAKE f \in Flags
    <2> DEFINE p == <<<<f.plan, f.memory>>, f.session>>
    <2>1. /\ f = [plan |-> f.plan, memory |-> f.memory, session |-> f.session]
          /\ f.plan \in BOOLEAN /\ f.memory \in BOOLEAN /\ f.session \in BOOLEAN
      BY DEF Flags
    <2>2. p \in Threes /\ p[1][1] = f.plan /\ p[1][2] = f.memory /\ p[2] = f.session
      BY <2>1
    <2> HIDE DEF p, Threes
    <2>3. flags[p] = [plan |-> p[1][1], memory |-> p[1][2], session |-> p[2]]
      BY <2>2
    <2>4. flags[p] = f
      BY <2>1, <2>2, <2>3
    <2> HIDE DEF flags
    <2>5. QED  BY <2>2, <2>4
  <1> HIDE DEF flags, Threes
  <1>4. IsFiniteSet({flags[p] : p \in Threes})
    BY <1>2, KeysFinite
  <1>5. Flags \in SUBSET {flags[p] : p \in Threes}
    BY <1>3
  <1>6. QED  BY <1>4, <1>5, FS_Subset

\* ... finitely many programs, ...
LEMMA KindsFinite == IsFiniteSet(Kinds)
  <1> DEFINE Words5 == {"success", "expensive", "failed_validation", "no_answer", "no_results"}
             Apps5 == {"cited", "langgraph", "openai", "real_world", "generic"}
             All == (Apps5 \X Words5) \X Flags
             kind == [q \in All |-> <<q[1][1], q[1][2], q[2]>>]
  <1>1. Apps \subseteq Apps5
    BY WorkflowAssumption
  <1>2. \A a \in Apps : Scenarios(a) \subseteq Words5
    BY <1>1 DEF Scenarios
  <1>3. IsFiniteSet(Words5) /\ IsFiniteSet(Apps5)
    BY FiveFinite
  <1> HIDE DEF Apps5, Words5
  <1>4. \A x \in Kinds : x \in {kind[q] : q \in All}
    <2> TAKE x \in Kinds
    <2>1. PICK a \in Apps : \E s \in Scenarios(a), f \in Flags : x = <<a, s, f>>
      BY DEF Kinds
    <2>2. PICK s \in Scenarios(a), f \in Flags : x = <<a, s, f>>
      BY <2>1
    <2> DEFINE q == <<<<a, s>>, f>>
    <2>3. a \in Apps5 /\ s \in Words5
      BY <1>1, <1>2
    <2>4. q \in All /\ q[1][1] = a /\ q[1][2] = s /\ q[2] = f
      BY <2>3
    <2> HIDE DEF q, All
    <2>5. kind[q] = x
      BY <2>2, <2>4
    <2>6. QED  BY <2>4, <2>5
  <1>5. IsFiniteSet(All)
    <2>1. IsFiniteSet(Apps5 \X Words5)
      BY <1>3, FS_Product
    <2>2. QED  BY FlagsFinite, <2>1, FS_Product
  <1> HIDE DEF All, kind
  <1>6. IsFiniteSet({kind[q] : q \in All})
    BY <1>5, KeysFinite
  <1>7. Kinds \in SUBSET {kind[q] : q \in All}
    BY <1>4
  <1>8. QED  BY <1>6, <1>7, FS_Subset

\* ... each asks for finitely many things, ...
LEMMA ProgramRequestsFinite ==
    ASSUME NEW k \in Kinds
    PROVE  IsFiniteSet({ProgramOf[k].main[i].req :
                           i \in {j \in DOMAIN ProgramOf[k].main :
                                     ProgramOf[k].main[j].op \in {"tool", "model", "retry"}}})
  <1> DEFINE main == ProgramOf[k].main
             req == [i \in DOMAIN main |-> main[i].req]
             D == {j \in DOMAIN main : main[j].op \in {"tool", "model", "retry"}}
  <1>1. PICK a \in Apps : \E s \in Scenarios(a), f \in Flags : k = <<a, s, f>>
    BY DEF Kinds
  <1>2. PICK s \in Scenarios(a), f \in Flags : k = <<a, s, f>>
    BY <1>1
  <1>3. IsSeq(main)
    <2>1. Sound(a, Program(a, s, f))
      BY ProgramSound
    <2>2. ProgramOf[k] = Program(a, s, f)
      BY <1>2 DEF ProgramOf
    <2>3. QED  BY <2>1, <2>2 DEF Sound, Leads
  <1> HIDE DEF main
  <1>4. IsFiniteSet(D)
    <2>1. D \in SUBSET (DOMAIN main)
      OBVIOUS
    <2>2. QED  BY <1>3, <2>1, PlacesFinite
  <1>5. {req[i] : i \in D} = {main[i].req : i \in D}
    OBVIOUS
  <1>6. IsFiniteSet({req[i] : i \in D})
    <2> HIDE DEF req, D
    <2>1. QED  BY <1>4, KeysFinite
  <1>7. QED  BY <1>5, <1>6 DEF main

\* ... and so there are finitely many names.
LEMMA NamesFinite == IsFiniteSet(Names)
  <1> DEFINE Rs(k) == {ProgramOf[k].main[i].req :
                           i \in {j \in DOMAIN ProgramOf[k].main :
                                     ProgramOf[k].main[j].op \in {"tool", "model", "retry"}}}
             rs == [k \in Kinds |-> Rs(k)]
             tool == [r \in Every |-> r.tool]
  <1>1. Every = UNION {rs[k] : k \in Kinds}
    BY DEF Every, Asked
  <1>2. \A k \in Kinds : IsFiniteSet(rs[k])
    BY ProgramRequestsFinite
  <1> HIDE DEF rs
  <1>3. IsFiniteSet({rs[k] : k \in Kinds})
    BY KindsFinite, KeysFinite
  <1>4. IsFiniteSet(Every)
    <2>1. \A T \in {rs[k] : k \in Kinds} : IsFiniteSet(T)
      BY <1>2
    <2>2. QED  BY <1>1, <1>3, <2>1, FS_UNION
  <1>5. Names = {tool[r] : r \in Every}
    BY DEF Names
  <1> HIDE DEF tool
  <1>6. QED  BY <1>4, <1>5, KeysFinite

\* An event has an agent if and only if it has a step, so the agents have as many
\* events as are placed, ...
LEMMA AgentsCount ==
    ASSUME NEW t, Tidy(t)
    PROVE  Total(AgentGraph(t), "events") = Cardinality(Placed(t))
  <1> DEFINE key == [i \in DOMAIN t |-> t[i].agent]
             N == {t[i].agent : i \in DOMAIN t} \ {""}
             T == Placed(t)
             rows == AgentGraph(t)
             field == "events"
  <1>1. IsSeq(t) /\ AllClear(t) /\ DOMAIN t = 1 .. Len(t)
    BY SeqShape DEF Tidy
  <1>2. T \in SUBSET (DOMAIN t) /\ IsFiniteSet(T) /\ IsFiniteSet(DOMAIN t)
    BY <1>1, StepsFinite, PlacesFinite
  <1>3. \A i \in DOMAIN t : i \in T <=> t[i].agent # ""
    BY <1>1 DEF AllClear, Clear, Placed
  <1>4. \A i \in T : key[i] \in N
    BY <1>2, <1>3
  <1>5. \A n \in N : PartOf(T, key, n) = {i \in DOMAIN t : t[i].agent = n}
    BY <1>2, <1>3 DEF PartOf
  <1>6. IsFiniteSet(N)
    <2>1. {key[i] : i \in DOMAIN t} = {t[i].agent : i \in DOMAIN t}
      OBVIOUS
    <2> DEFINE all == {key[i] : i \in DOMAIN t}
    <2>2. IsFiniteSet(all)
      <3> HIDE DEF key
      <3>1. QED  BY <1>2, KeysFinite
    <2>3. N \in SUBSET all
      BY <2>1
    <2> HIDE DEF all, N
    <2>4. QED  BY <2>2, <2>3, FS_Subset
  <1>7. \A n \in N : rows[n].events = Cardinality({i \in DOMAIN t : t[i].agent = n})
    BY DEF AgentGraph
  <1>8. DOMAIN rows = N
    BY DEF AgentGraph
  <1>9. \A n \in N : rows[n][field] = Cardinality(PartOf(T, key, n))
    BY <1>5, <1>7
  <1> HIDE DEF key, N, T, rows, field
  <1>10. Counting(rows, field, N, T, key)
    BY <1>2, <1>4, <1>6, <1>9 DEF Counting
  <1>11. Column(rows, field, N) = Cardinality(T)
    BY <1>10, ColumnCounts
  <1>12. Total(rows, field) = Column(rows, field, N)
    BY <1>8, TotalIs
  <1>13. QED  BY <1>11, <1>12 DEF rows, field, T

\* and so have the steps.
LEMMA NodesCount ==
    ASSUME NEW t, Tidy(t)
    PROVE  LET nodes == ExecutionGraph(t).nodes
           IN  Total([s \in DOMAIN nodes |-> [events |-> nodes[s]]], "events")
                   = Cardinality(Placed(t))
  <1> DEFINE nodes == ExecutionGraph(t).nodes
             rows == [s \in DOMAIN nodes |-> [events |-> nodes[s]]]
             key == [i \in DOMAIN t |-> t[i].step]
             N == StepsOf(t)
             T == Placed(t)
             field == "events"
  <1>1. IsSeq(t)
    BY DEF Tidy
  <1>2. T \in SUBSET (DOMAIN t) /\ IsFiniteSet(T) /\ IsFiniteSet(N)
    BY <1>1, StepsFinite
  <1>3. nodes = [s \in N |-> Cardinality({i \in T : t[i].step = s})]
    BY DEF ExecutionGraph, StepsOf
  <1>4. \A i \in T : key[i] \in N
    BY <1>2 DEF StepsOf
  <1>5. \A s \in N : PartOf(T, key, s) = {i \in T : t[i].step = s}
    BY <1>2 DEF PartOf
  <1>6. DOMAIN rows = N
    BY <1>3
  <1>7. \A s \in N : rows[s][field] = Cardinality(PartOf(T, key, s))
    <2> TAKE s \in N
    <2>1. rows[s] = [events |-> nodes[s]]
      BY <1>3
    <2>2. nodes[s] = Cardinality({i \in T : t[i].step = s})
      BY <1>3
    <2>3. PartOf(T, key, s) = {i \in T : t[i].step = s}
      BY <1>5
    <2> DEFINE among == {i \in T : t[i].step = s}
    <2> HIDE DEF among, rows, nodes, key, T
    <2>4. rows[s].events = nodes[s]
      BY <2>1
    <2>5. QED  BY <2>2, <2>3, <2>4 DEF among
  <1> HIDE DEF key, N, T, rows, nodes, field
  <1>8. Counting(rows, field, N, T, key)
    BY <1>2, <1>4, <1>7 DEF Counting
  <1>9. Column(rows, field, N) = Cardinality(T)
    BY <1>8, ColumnCounts
  <1>10. Total(rows, field) = Column(rows, field, N)
    BY <1>6, TotalIs
  <1>11. QED  BY <1>9, <1>10 DEF rows, nodes, field, T

\* Whatever the path, its turns join, and pass through all its steps.
LEMMA TurnsJoin ==
    ASSUME NEW path, IsSeq(path)
    PROVE  /\ \A i \in 1 .. Len(Turns(path)) - 1 : Turns(path)[i][2] = Turns(path)[i + 1][1]
           /\ Turns(path) # << >> =>
                  {Turns(path)[i][2] : i \in DOMAIN Turns(path)} \cup {Turns(path)[1][1]}
                      = {path[i].step : i \in 1 .. Len(path)}
  <1> DEFINE m == Len(path)
             f == [i \in 1 .. m |-> path[i].step]
             pairs == [i \in 1 .. m - 1 |-> <<path[i].step, path[i + 1].step>>]
             places == Changes(f, m)
             c == Ascending(places)
             n == Cardinality(places)
             edges == Entries(pairs, places)
  <1>1. m \in Nat
    BY SeqShape
  <1>2. \A i \in 1 .. m - 1 : pairs[i] = <<f[i], f[i + 1]>>
    BY <1>1
  <1>3. places = {i \in DOMAIN pairs : pairs[i][1] # pairs[i][2]}
    BY <1>1 DEF Changes
  <1>4. Turns(path) = edges
    BY <1>3 DEF Turns
  <1> HIDE DEF m, f, pairs
  <1>5. /\ places \in SUBSET Nat /\ IsFiniteSet(places) /\ n \in Nat /\ Lists(c, n, places)
    BY <1>1, ChangesListed
  <1>6. /\ IsSeq(edges) /\ Len(edges) = n /\ \A k \in 1 .. n : edges[k] = pairs[c[k]]
    BY <1>5, EntriesAre
  <1>7. \A k \in 1 .. n : c[k] \in 1 .. m - 1
    BY <1>5 DEF Lists, Changes
  <1>8. DOMAIN edges = 1 .. n
    BY <1>6, SeqShape
  <1> HIDE DEF places, c, n, edges
  <1>9. \A k \in 1 .. n : edges[k] = <<f[c[k]], f[c[k] + 1]>>
    BY <1>2, <1>6, <1>7
  <1>10. \A i \in 1 .. n - 1 : edges[i][2] = edges[i + 1][1]
    <2> TAKE i \in 1 .. n - 1
    <2>1. i \in 1 .. n /\ i + 1 \in 1 .. n
      BY <1>5
    <2>2. f[c[i] + 1] = f[c[i + 1]]
      BY <1>1, <1>5, <2>1, ChangesJoin DEF places
    <2>3. QED  BY <1>9, <2>1, <2>2
  <1>11. ASSUME edges # << >>
         PROVE  {edges[i][2] : i \in DOMAIN edges} \cup {edges[1][1]} = {path[i].step : i \in 1 .. m}
    <2>1. n # 0
      <3> SUFFICES ASSUME Len(edges) = 0  PROVE edges = << >>
        BY <1>6, <1>11
      <3>1. PICK A : edges \in Seq(A)
        BY <1>6 DEF IsSeq
      <3>2. QED  BY <3>1
    <2>2. {f[c[k] + 1] : k \in 1 .. n} \cup {f[c[1]]} = {f[i] : i \in 1 .. m}
      BY <1>1, <1>5, <2>1, ChangesCover DEF places
    <2>3. 1 \in 1 .. n
      BY <1>5, <2>1
    <2>4. {edges[i][2] : i \in DOMAIN edges} = {f[c[k] + 1] : k \in 1 .. n}
      BY <1>8, <1>9
    <2>5. edges[1][1] = f[c[1]]
      BY <1>9, <2>3
    <2>6. {f[i] : i \in 1 .. m} = {path[i].step : i \in 1 .. m}
      BY DEF f
    <2>7. QED  BY <2>2, <2>4, <2>5, <2>6
  <1>12. QED  BY <1>4, <1>6, <1>10, <1>11 DEF m

\* The placed entries of a trace pass through all its steps.
LEMMA PathSteps ==
    ASSUME NEW t, IsSeq(t)
    PROVE  /\ IsSeq(Entries(t, Placed(t)))
           /\ {Entries(t, Placed(t))[i].step : i \in 1 .. Len(Entries(t, Placed(t)))} = StepsOf(t)
  <1> DEFINE T == Placed(t)
             path == Entries(t, T)
             c == Ascending(T)
             n == Cardinality(T)
  <1>1. IsFiniteSet(T) /\ T \in SUBSET Nat
    BY StepsFinite
  <1>2. StepsOf(t) = {t[i].step : i \in T}
    BY DEF StepsOf
  <1> HIDE DEF T
  <1>3. Lists(c, n, T)
    BY <1>1, AscendingLists
  <1>4. IsSeq(path) /\ Len(path) = n /\ \A k \in 1 .. n : path[k] = t[c[k]]
    BY <1>1, EntriesAre
  <1> HIDE DEF path, c, n
  <1>5. {path[i].step : i \in 1 .. n} = {t[i].step : i \in T}
    <2>1. \A k \in 1 .. n : c[k] \in T /\ path[k].step = t[c[k]].step
      BY <1>3, <1>4 DEF Lists
    <2>2. \A i \in T : \E k \in 1 .. n : path[k].step = t[i].step
      BY <1>3, <1>4 DEF Lists
    <2>3. QED  BY <2>1, <2>2
  <1>6. QED  BY <1>2, <1>4, <1>5 DEF path, T

\* Each trigger has its intervention.
LEMMA PoliciesPaired ==
    ASSUME NEW t, Tidy(t)
    PROVE  LET view == PolicyView(t)
           IN  [i \in DOMAIN view.policy |-> view.policy[i].policy]
                   = [i \in DOMAIN view.interventions |-> view.interventions[i].policy]
  <1> DEFINE P == Of(t, "policy.triggered")
             Q == Of(t, "intervention.applied")
             p == Entries(t, P)
             q == Entries(t, Q)
             n == Cardinality(P)
             c == Ascending(P)
             d == Ascending(Q)
  <1>1. IsSeq(t) /\ DOMAIN t = 1 .. Len(t) /\ Len(t) \in Nat /\ PairedIn(t, 1 .. Len(t))
    BY SeqShape DEF Tidy
  <1>2. P \in SUBSET (DOMAIN t) /\ Q \in SUBSET (DOMAIN t)
    BY DEF Of
  <1>3. \A i \in P : i + 1 \in Q /\ t[i + 1].policy = t[i].policy
    BY <1>1 DEF Of, PairedIn, Triggers, Applies
  <1>4. \A i \in Q : i - 1 \in P /\ i = (i - 1) + 1
    BY <1>1 DEF Of, PairedIn, Triggers, Applies
  <1>5. IsFiniteSet(P) /\ P \in SUBSET Nat /\ IsFiniteSet(Q) /\ Q \in SUBSET Nat
    BY <1>1, <1>2, PlacesFinite
  <1>6. PolicyView(t).policy = p /\ PolicyView(t).interventions = q
    BY DEF PolicyView
  <1> HIDE DEF P, Q
  <1>7. Q = {i + 1 : i \in P}
    BY <1>3, <1>4
  <1>8. Cardinality(Q) = n /\ \A k \in 1 .. n : d[k] = c[k] + 1
    BY <1>5, <1>7, ListedApart
  <1>9. Lists(c, n, P)
    BY <1>5, AscendingLists
  <1>10. IsSeq(p) /\ Len(p) = n /\ \A k \in 1 .. n : p[k] = t[c[k]]
    BY <1>5, EntriesAre
  <1>11. IsSeq(q) /\ Len(q) = n /\ \A k \in 1 .. n : q[k] = t[d[k]]
    BY <1>5, <1>8, EntriesAre
  <1> HIDE DEF p, q, n, c, d
  <1>12. DOMAIN p = 1 .. n /\ DOMAIN q = 1 .. n
    BY <1>10, <1>11, SeqShape
  <1>13. \A k \in 1 .. n : p[k].policy = q[k].policy
    BY <1>3, <1>8, <1>9, <1>10, <1>11 DEF Lists
  <1>14. QED  BY <1>6, <1>12, <1>13

\* What is served was matched when it was asked for.
LEMMA ServedWithinMatched ==
    ASSUME NEW t, IsSeq(t), ServedAsked(t)
    PROVE  ~(Count(t, "optimization.applied") > Cardinality(Matched(t)))
  <1> DEFINE R == Of(t, "optimization.applied")
             M == Matched(t)
             h == [i \in R |-> i - 1]
  <1>1. R \in SUBSET (DOMAIN t) /\ M \in SUBSET (DOMAIN t)
    BY DEF Of, Matched
  <1>2. IsFiniteSet(R) /\ R \in SUBSET Nat /\ IsFiniteSet(M)
    BY <1>1, PlacesFinite
  <1>3. \A i \in R : i - 1 \in M
    BY DEF ServedAsked, Asks, Matched, Of
  <1>4. Count(t, "optimization.applied") = Cardinality(R)
    BY DEF Count
  <1> HIDE DEF R, M
  <1>5. h \in Injection(R, M)
    <2>1. h \in [R -> M] /\ DOMAIN h = R
      BY <1>3
    <2>2. \A i, j \in R : h[i] = h[j] => i = j
      BY <1>2
    <2> HIDE DEF h
    <2>3. QED  BY <2>1, <2>2 DEF Injection, IsInjective
  <1>6. Cardinality(R) <= Cardinality(M)
    BY <1>2, <1>5, FS_Injection
  <1>7. Cardinality(R) \in Nat /\ Cardinality(M) \in Nat
    BY <1>2, FS_CardinalityType
  <1>8. QED  BY <1>4, <1>6, <1>7 DEF M

\* The parts of explore() that are compared.
LEMMA ExploreShows ==
    ASSUME NEW t, NEW N, NEW known, NEW view, view = Explore(t, N, known)
    PROVE  /\ view.summary.cost = CostOf(t, DOMAIN t)
           /\ view.summary.tool_calls = Count(t, "tool.completed")
           /\ view.summary.model_calls = Count(t, "model.completed")
           /\ view.summary.retries = Count(t, "retry.scheduled")
           /\ view.summary.duplicates = Duplicates(t, Of(t, "tool.completed"))
           /\ view.summary.per_tool = [n \in N |-> Row(t, "tool.completed", n)]
           /\ view.summary.per_model = [n \in N |-> Row(t, "model.completed", n)]
           /\ view.details.per_step = [s \in StepsOf(t) |-> StepRow(t, s)]
           /\ view.execution_graph = ExecutionGraph(t)
           /\ view.agent_graph = AgentGraph(t)
           /\ view.policy = PolicyView(t)
           /\ view.cache.served = Count(t, "optimization.applied")
           /\ view.cache.hits = Cardinality(Matched(t))
  <1>1. /\ view.summary = Summarize(t, N) /\ view.details = Details(t)
        /\ view.execution_graph = ExecutionGraph(t) /\ view.agent_graph = AgentGraph(t)
        /\ view.policy = PolicyView(t) /\ view.cache = CacheView(t)
    BY DEF Explore
  <1>2. /\ Summarize(t, N).cost = CostOf(t, DOMAIN t)
        /\ Summarize(t, N).tool_calls = Count(t, "tool.completed")
        /\ Summarize(t, N).model_calls = Count(t, "model.completed")
        /\ Summarize(t, N).retries = Count(t, "retry.scheduled")
        /\ Summarize(t, N).duplicates = Duplicates(t, Of(t, "tool.completed"))
        /\ Summarize(t, N).per_tool = [n \in N |-> Row(t, "tool.completed", n)]
        /\ Summarize(t, N).per_model = [n \in N |-> Row(t, "model.completed", n)]
    BY DEF Summarize
  <1>3. Details(t).per_step = [s \in StepsOf(t) |-> StepRow(t, s)]
    BY DEF Details, StepsOf
  <1>4. /\ CacheView(t).served = Count(t, "optimization.applied")
        /\ CacheView(t).hits = Cardinality(Matched(t))
    BY DEF CacheView
  <1>5. QED  BY <1>1, <1>2, <1>3, <1>4

\* The rows of the steps, of the tools and of the models add up to the totals.
LEMMA RowsAgree ==
    ASSUME NEW t, Tidy(t), NEW rows, rows = [s \in StepsOf(t) |-> StepRow(t, s)]
    PROVE  /\ DOMAIN rows = StepsOf(t)
           /\ Total(rows, "cost") = CostOf(t, DOMAIN t)
           /\ Total(rows, "tool_calls") = Count(t, "tool.completed")
           /\ Total(rows, "model_calls") = Count(t, "model.completed")
           /\ Total(rows, "retries") = Count(t, "retry.scheduled")
  <1>1. IsSeq(t) /\ AllClear(t) /\ DOMAIN t = 1 .. Len(t)
    BY SeqShape DEF Tidy
  <1>2. DOMAIN rows = StepsOf(t)
    OBVIOUS
  <1>3. \A s \in StepsOf(t) :
            /\ rows[s].tool_calls = Cardinality({i \in Of(t, "tool.completed") : t[i].step = s})
            /\ rows[s].model_calls = Cardinality({i \in Of(t, "model.completed") : t[i].step = s})
            /\ rows[s].retries = Cardinality({i \in Of(t, "retry.scheduled") : t[i].step = s})
            /\ rows[s].cost = CostOf(t, {i \in Of(t, "model.completed") : t[i].step = s}
                                        \cup {i \in Of(t, "tool.completed") : t[i].step = s})
    <2> TAKE s \in StepsOf(t)
    <2>1. rows[s] = StepRow(t, s)
      OBVIOUS
    <2>2. QED  BY <2>1 DEF StepRow
  <1>4. \A i \in Of(t, "tool.completed") : t[i].step # ""
    BY <1>1 DEF AllClear, Clear, Completions, Of
  <1>5. \A i \in Of(t, "model.completed") : t[i].step # ""
    BY <1>1 DEF AllClear, Clear, Completions, Of
  <1>6. \A i \in Of(t, "retry.scheduled") : t[i].step # ""
    BY <1>1 DEF AllClear, Clear, Completions, Of
  <1>7. Total(rows, "cost") = CostOf(t, DOMAIN t)
    BY <1>2, <1>3, RowsCost
  <1>8. Total(rows, "tool_calls") = Count(t, "tool.completed")
    <2>1. ByStep(t, rows, "tool_calls", "tool.completed")
      BY <1>2, <1>3 DEF ByStep
    <2>2. QED  BY <1>1, <1>4, <2>1, RowsCount
  <1>9. Total(rows, "model_calls") = Count(t, "model.completed")
    <2>1. ByStep(t, rows, "model_calls", "model.completed")
      BY <1>2, <1>3 DEF ByStep
    <2>2. QED  BY <1>1, <1>5, <2>1, RowsCount
  <1>10. Total(rows, "retries") = Count(t, "retry.scheduled")
    <2>1. ByStep(t, rows, "retries", "retry.scheduled")
      BY <1>2, <1>3 DEF ByStep
    <2>2. QED  BY <1>1, <1>6, <2>1, RowsCount
  <1>11. QED  BY <1>2, <1>7, <1>8, <1>9, <1>10

LEMMA NamesAgree ==
    ASSUME NEW t, Tidy(t)
    PROVE  Total([n \in Names |-> Row(t, "tool.completed", n)], "cost")
               + Total([n \in Names |-> Row(t, "model.completed", n)], "cost")
               = CostOf(t, DOMAIN t)
  <1>1. AllClear(t) /\ DOMAIN t = 1 .. Len(t)
    BY SeqShape DEF Tidy
  <1>2. \A i \in Of(t, "tool.completed") : t[i].tool \in Names
    BY <1>1 DEF AllClear, Clear, Costed, Completions, Of
  <1>3. \A i \in Of(t, "model.completed") : t[i].tool \in Names
    BY <1>1 DEF AllClear, Clear, Costed, Completions, Of
  <1>4. Total([n \in Names |-> Row(t, "tool.completed", n)], "cost")
            = CostOf(t, Of(t, "tool.completed"))
    BY <1>2, CostOfBought, NamesFinite, NamesCost
  <1>5. Total([n \in Names |-> Row(t, "model.completed", n)], "cost")
            = CostOf(t, Of(t, "model.completed"))
    BY <1>3, CostOfBought, NamesFinite, NamesCost
  <1>6. QED  BY <1>4, <1>5, CostOfBought

\* The views of a finished run agree.
LEMMA ViewsFollow == ViewInv => ViewsAgree
  <1> SUFFICES ASSUME ViewInv, Ended  PROVE ViewsAgree
    BY DEF ViewsAgree
  <1> DEFINE t == Latest.trace
             view == Explore(t, {r.tool : r \in Every}, TRUE)
             sum == view.summary
             rows == view.details.per_step
             graph == view.execution_graph
             edges == graph.edges
             path == Entries(t, Placed(t))
  <1>1. Tidy(t) /\ (~Latest.shared => ServedAsked(t))
    BY DEF Ended, ViewInv
  <1>2. IsSeq(t) /\ Counted(t)
    BY <1>1 DEF Tidy
  <1>3. {r.tool : r \in Every} = Names
    BY DEF Names
  <1> HIDE DEF t
  <1>4. PICK known : view = Explore(t, Names, known)
    BY <1>3, Zenon
  <1> HIDE DEF view
  <1>5. /\ sum.cost = CostOf(t, DOMAIN t)
        /\ sum.tool_calls = Count(t, "tool.completed")
        /\ sum.model_calls = Count(t, "model.completed")
        /\ sum.retries = Count(t, "retry.scheduled")
        /\ sum.duplicates = Duplicates(t, Of(t, "tool.completed"))
        /\ sum.per_tool = [n \in Names |-> Row(t, "tool.completed", n)]
        /\ sum.per_model = [n \in Names |-> Row(t, "model.completed", n)]
        /\ rows = [s \in StepsOf(t) |-> StepRow(t, s)]
        /\ graph = ExecutionGraph(t)
        /\ view.agent_graph = AgentGraph(t)
        /\ view.policy = PolicyView(t)
        /\ view.cache.served = Count(t, "optimization.applied")
        /\ view.cache.hits = Cardinality(Matched(t))
    BY <1>4, ExploreShows
  <1>6. edges = Turns(path)
    <2>1. ExecutionGraph(t).edges = Turns(path)
      BY DEF ExecutionGraph
    <2> HIDE DEF path
    <2>2. QED  BY <1>5, <2>1
  <1> HIDE DEF sum, rows, graph, edges, path
  <1>7. /\ DOMAIN rows = StepsOf(t)
        /\ Total(rows, "cost") = sum.cost
        /\ Total(rows, "tool_calls") = sum.tool_calls
        /\ Total(rows, "model_calls") = sum.model_calls
        /\ Total(rows, "retries") = sum.retries
    BY <1>1, <1>5, RowsAgree
  <1>8. Total(sum.per_tool, "cost") + Total(sum.per_model, "cost") = sum.cost
    BY <1>1, <1>5, NamesAgree
  <1>9. Total(view.agent_graph, "events") =
            Total([s \in DOMAIN graph.nodes |-> [events |-> graph.nodes[s]]], "events")
    <2>1. Total(view.agent_graph, "events") = Cardinality(Placed(t))
      BY <1>1, <1>5, AgentsCount
    <2>2. Total([s \in DOMAIN graph.nodes |-> [events |-> graph.nodes[s]]], "events")
              = Cardinality(Placed(t))
      BY <1>1, <1>5, NodesCount
    <2>3. QED  BY <2>1, <2>2
  <1>10. IsSeq(path) /\ {path[i].step : i \in 1 .. Len(path)} = StepsOf(t)
    BY <1>2, PathSteps DEF path
  <1>11. \A i \in 1 .. Len(edges) - 1 : edges[i][2] = edges[i + 1][1]
    BY <1>6, <1>10, TurnsJoin
  <1>12. edges # << >> => {edges[i][2] : i \in DOMAIN edges} \cup {edges[1][1]} = DOMAIN rows
    <2>1. Turns(path) # << >> =>
              {Turns(path)[i][2] : i \in DOMAIN Turns(path)} \cup {Turns(path)[1][1]}
                  = {path[i].step : i \in 1 .. Len(path)}
      BY <1>10, TurnsJoin
    <2>2. QED  BY Zenon, <1>6, <1>7, <1>10, <2>1
  <1>13. [i \in DOMAIN view.policy.policy |-> view.policy.policy[i].policy] =
             [i \in DOMAIN view.policy.interventions |-> view.policy.interventions[i].policy]
    BY <1>1, <1>5, PoliciesPaired
  <1>14. \A i \in Of(t, "run.completed") : t[i].counts = <<sum.duplicates, sum.retries>>
    BY <1>2, <1>5 DEF Counted, Counts
  <1>15. view.cache.served > view.cache.hits => Latest.shared
    BY <1>1, <1>2, <1>5, ServedWithinMatched
  <1>16. QED
    BY Zenon, <1>7, <1>8, <1>9, <1>11, <1>12, <1>13, <1>14, <1>15
    DEF ViewsAgree, t, view, sum, rows, graph, edges

\* The views that summarize() and explore() make of a finished run agree, whatever
\* the applications, settings, policies and limits.
THEOREM ViewsAlwaysAgree == Spec => []ViewsAgree
  BY ViewInvariant, ViewsFollow, PTL
=============================================================================
