----------------------------- MODULE CodeProofs -----------------------------
(***************************************************************************)
(* What replay_workflow decides for sequential code: a decision is not     *)
(* changed by what is appended to the history meanwhile, a history written *)
(* by the code itself never diverges, and a blocked replay goes on only    *)
(* after an event that wakes it.                                           *)
(***************************************************************************)
EXTENDS WorkflowCode, FiniteSetTheorems, WellFoundedInduction, TLAPS

(***************************************************************************)
(* Numbers.                                                                *)
(***************************************************************************)

\* A set of numbers that is not empty has a least element.
LEMMA LeastOf ==
  ASSUME NEW S \in SUBSET Nat, S # {}
  PROVE  \E n \in S : \A m \in S : n <= m
<1>1. \E n \in S : \A m \in S : ~(<<m, n>> \in OpToRel(<, Nat))
  BY NatLessThanWellFounded, WFMin
<1>2. PICK n \in S : \A m \in S : ~(<<m, n>> \in OpToRel(<, Nat))
  BY <1>1
<1>3. \A m \in S : m \in Nat /\ n \in Nat /\ ~(m < n)
  BY <1>2 DEF OpToRel
<1> QED
  BY <1>3

\* Induction, for a set of numbers.
LEMMA Induct ==
  ASSUME NEW S \in SUBSET Nat, 0 \in S, \A n \in S : n + 1 \in S
  PROVE  S = Nat
<1> SUFFICES ASSUME Nat \ S # {} PROVE FALSE
  OBVIOUS
<1>1. PICK n \in Nat \ S : \A m \in Nat \ S : n <= m
  BY LeastOf
<1>2. n # 0 /\ n - 1 \in Nat /\ ~(n <= n - 1)
  BY <1>1
<1>3. n - 1 \in S
  BY <1>1, <1>2
<1> QED
  BY <1>1, <1>2, <1>3

(***************************************************************************)
(* The path of a program.                                                  *)
(***************************************************************************)

\* The equation of a path.
Unfolds(prog, H, p) ==
  p = [n \in Nat |->
         IF n = 0 THEN Entry
         ELSE CHOOSE next \in {Step(prog, H, k) : k \in {p[n - 1]}} : TRUE]

\* The first n calls.
Prefix(prog, H, n, p) == p[0] = Entry /\ \A i \in Nat : i < n => p[i + 1] = Step(prog, H, p[i])

LEMMA PrefixExists ==
  ASSUME NEW prog, NEW H
  PROVE  \A n \in Nat : \E p : Prefix(prog, H, n, p)
<1> DEFINE S == {n \in Nat : \E p : Prefix(prog, H, n, p)}
<1>1. 0 \in S
  <2> DEFINE p == [i \in {0} |-> Entry]
  <2>1. p[0] = Entry /\ \A i \in Nat : ~(i < 0)
    OBVIOUS
  <2> HIDE DEF p
  <2>2. Prefix(prog, H, 0, p)
    BY <2>1 DEF Prefix
  <2> QED
    BY <2>2
<1>2. ASSUME NEW n \in S PROVE n + 1 \in S
  <2>1. PICK p : Prefix(prog, H, n, p)
    OBVIOUS
  <2> DEFINE q == [i \in 0 .. n + 1 |-> IF i = n + 1 THEN Step(prog, H, p[n]) ELSE p[i]]
  <2>2. q[0] = Entry
    BY <2>1 DEF Prefix
  <2>3. ASSUME NEW i \in Nat, i < n + 1 PROVE q[i + 1] = Step(prog, H, q[i])
    <3>1. q[i] = p[i]
      BY <2>3
    <3>2. CASE i < n
      <4>1. q[i + 1] = p[i + 1]
        BY <3>2
      <4> QED
        BY <2>1, <3>1, <3>2, <4>1 DEF Prefix
    <3>3. CASE i = n
      <4>1. q[i + 1] = Step(prog, H, p[n])
        BY <3>3
      <4> QED
        BY <3>1, <3>3, <4>1
    <3> QED
      BY <2>3, <3>2, <3>3
  <2> HIDE DEF q
  <2>4. Prefix(prog, H, n + 1, q)
    BY <2>2, <2>3 DEF Prefix
  <2> QED
    BY <2>4
<1> HIDE DEF S
<1>3. S = Nat
  <2>1. S \subseteq Nat
    BY DEF S
  <2> QED
    BY <1>1, <1>2, <2>1, Induct
<1> QED
  BY <1>3 DEF S

LEMMA PrefixUnique ==
  ASSUME NEW prog, NEW H, NEW n \in Nat, NEW p, NEW q,
         Prefix(prog, H, n, p), Prefix(prog, H, n, q)
  PROVE  \A i \in Nat : i <= n => p[i] = q[i]
<1> DEFINE S == {i \in Nat : i <= n => p[i] = q[i]}
<1>1. 0 \in S
  BY DEF Prefix
<1>2. ASSUME NEW i \in S PROVE i + 1 \in S
  <2> SUFFICES ASSUME i + 1 <= n PROVE p[i + 1] = q[i + 1]
    OBVIOUS
  <2>1. i \in Nat /\ i < n /\ p[i] = q[i]
    OBVIOUS
  <2> QED
    BY <2>1 DEF Prefix
<1> HIDE DEF S
<1>3. S = Nat
  <2>1. S \subseteq Nat
    BY DEF S
  <2> QED
    BY <1>1, <1>2, <2>1, Induct
<1> QED
  BY <1>3 DEF S

LEMMA UnfoldsExists ==
  ASSUME NEW prog, NEW H
  PROVE  \E p : Unfolds(prog, H, p)
<1> DEFINE P(n) == CHOOSE p : Prefix(prog, H, n, p)
           q == [n \in Nat |-> P(n)[n]]
<1>1. \A n \in Nat : Prefix(prog, H, n, P(n))
  BY PrefixExists
<1> HIDE DEF P
<1>2. q[0] = Entry
  <2>1. P(0)[0] = Entry
    BY <1>1 DEF Prefix
  <2> QED
    BY <2>1
<1>3. ASSUME NEW n \in Nat, n # 0 PROVE q[n] = Step(prog, H, q[n - 1])
  <2>1. n - 1 \in Nat /\ (n - 1) + 1 = n /\ n - 1 < n
    BY <1>3
  <2>2. Prefix(prog, H, n, P(n)) /\ Prefix(prog, H, n - 1, P(n - 1))
    BY <1>1, <2>1
  <2>3. P(n)[n] = Step(prog, H, P(n)[n - 1])
    <3>1. P(n)[(n - 1) + 1] = Step(prog, H, P(n)[n - 1])
      BY <2>1, <2>2 DEF Prefix
    <3> QED
      BY <2>1, <3>1
  <2>4. Prefix(prog, H, n - 1, P(n))
    BY <2>1, <2>2 DEF Prefix
  <2>5. P(n)[n - 1] = P(n - 1)[n - 1]
    BY <2>1, <2>2, <2>4, PrefixUnique
  <2>6. q[n] = P(n)[n] /\ q[n - 1] = P(n - 1)[n - 1]
    BY <2>1
  <2> QED
    BY <2>3, <2>5, <2>6
<1>4. q = [n \in Nat |-> IF n = 0 THEN Entry
             ELSE CHOOSE next \in {Step(prog, H, k) : k \in {q[n - 1]}} : TRUE]
  <2> DEFINE r(n) == IF n = 0 THEN Entry
             ELSE CHOOSE next \in {Step(prog, H, k) : k \in {q[n - 1]}} : TRUE
  <2>1. \A n \in Nat : q[n] = r(n)
    <3> TAKE n \in Nat
    <3>1. CASE n = 0
      BY <1>2, <3>1
    <3>2. CASE n # 0
      <4>1. {Step(prog, H, k) : k \in {q[n - 1]}} = {Step(prog, H, q[n - 1])}
        OBVIOUS
      <4>2. \A x : (CHOOSE next \in {x} : TRUE) = x
        OBVIOUS
      <4> HIDE DEF q
      <4> QED
        BY <1>3, <3>2, <4>1, <4>2
    <3> QED
      BY <3>1, <3>2
  <2>2. q = [n \in Nat |-> q[n]]
    OBVIOUS
  <2> HIDE DEF q, r
  <2>3. q = [n \in Nat |-> r(n)]
    BY <2>1, <2>2
  <2> QED
    BY <2>3 DEF r
<1> HIDE DEF q
<1> QED
  BY <1>4 DEF Unfolds

\* The path starts at the entry and makes one call after the other.
LEMMA PathSteps ==
  ASSUME NEW prog, NEW H
  PROVE  /\ Path(prog, H)[0] = Entry
         /\ \A n \in Nat : Path(prog, H)[n + 1] = Step(prog, H, Path(prog, H)[n])
<1> DEFINE p == Path(prog, H)
<1>1. p = CHOOSE r : Unfolds(prog, H, r)
  BY DEF Path, Unfolds
<1>2. Unfolds(prog, H, p)
  BY <1>1, UnfoldsExists
<1> HIDE DEF p
<1>3. p[0] = Entry
  BY <1>2 DEF Unfolds
<1>4. ASSUME NEW n \in Nat PROVE p[n + 1] = Step(prog, H, p[n])
  <2>1. n + 1 \in Nat /\ n + 1 # 0 /\ (n + 1) - 1 = n
    OBVIOUS
  <2>2. p[n + 1] = CHOOSE next \in {Step(prog, H, k) : k \in {p[(n + 1) - 1]}} : TRUE
    BY <1>2, <2>1 DEF Unfolds
  <2>3. {Step(prog, H, k) : k \in {p[n]}} = {Step(prog, H, p[n])}
    OBVIOUS
  <2>4. \A x : (CHOOSE next \in {x} : TRUE) = x
    OBVIOUS
  <2> QED
    BY <2>1, <2>2, <2>3, <2>4
<1> QED
  BY <1>3, <1>4 DEF p

(***************************************************************************)
(* One call.                                                               *)
(***************************************************************************)

\* A call of a sequential program.
Plainly(call) ==
  /\ call \in Calls /\ call.op # "if_canceled"
  /\ call.op = "gather" /\ call.catches => Len(call.fps) <= 1

\* The command ids a call takes.
Span(call) ==
  CASE call.op = "gather" -> Len(call.fps)
    [] call.op = "wait_update" -> 0
    [] call.op = "wait_signal" -> IF call.timeout THEN 1 ELSE 0
    [] OTHER -> 1

LEMMA CallTypes ==
  ASSUME NEW call, Plainly(call)
  PROVE  /\ call.op \in Ops \ {"if_canceled"} /\ call.timeout \in BOOLEAN /\ call.catches \in BOOLEAN
         /\ call.fps \in Seq(STRING) /\ Len(call.fps) \in Nat /\ DOMAIN call.fps = 1 .. Len(call.fps)
         /\ Span(call) \in Nat
<1>1. /\ call.op \in Ops \ {"if_canceled"} /\ call.timeout \in BOOLEAN /\ call.catches \in BOOLEAN
      /\ call.fps \in Seq(STRING)
  BY DEF Plainly, Calls
<1>2. Len(call.fps) \in Nat /\ DOMAIN call.fps = 1 .. Len(call.fps)
  BY <1>1
<1> QED
  BY <1>1, <1>2 DEF Span

LEMMA KnownRange ==
  \A H, id, type, tag : Known(H, id, type, tag) \in {"new", "recorded", "diverged"}
  BY DEF Known

LEMMA ActivityRange ==
  \A H, id, fp : EvaluateActivity(H, id, fp) \in {"new", "diverged", "blocked", "ok", "error"}
  BY KnownRange DEF EvaluateActivity

LEMMA FirstRaisingIn ==
  ASSUME NEW H, NEW k, NEW call, Plainly(call), Raising(H, k, call) # {}
  PROVE  FirstRaising(H, k, call) \in Raising(H, k, call)
<1>1. Raising(H, k, call) \subseteq Nat
  BY CallTypes DEF Raising
<1>2. \E i \in Raising(H, k, call) : \A j \in Raising(H, k, call) : i <= j
  BY <1>1, LeastOf
<1> QED
  BY <1>2 DEF FirstRaising

LEMMA EvaluateRange ==
  ASSUME NEW H, NEW k, NEW call, Plainly(call)
  PROVE  /\ Evaluate(H, k, call) \in {"new", "diverged", "blocked", "ok", "error", "ended"}
         /\ Evaluate(H, k, call) = "error" /\ call.op = "gather" => Raising(H, k, call) # {}
<1>0. call.op \in Ops \ {"if_canceled"} /\ call.timeout \in BOOLEAN
  BY CallTypes
<1>1. EvaluateGather(H, k, call) \in {"new", "diverged", "blocked", "ok", "error"}
  BY ActivityRange DEF EvaluateGather, Each
<1>2. EvaluateGather(H, k, call) = "error" => Raising(H, k, call) # {}
  BY DEF EvaluateGather
<1>3. \A id, fp : /\ EvaluateTimer(H, id, fp) \in {"new", "diverged", "blocked", "ok", "error"}
                  /\ EvaluateChild(H, id, fp) \in {"new", "diverged", "blocked", "ok", "error"}
                  /\ EvaluateContinue(H, id, fp) \in {"new", "diverged", "ended"}
  BY KnownRange DEF EvaluateTimer, EvaluateChild, EvaluateContinue
<1>4. \A id, type, tag : EvaluateRecord(H, id, type, tag) \in {"new", "diverged", "ok"}
  BY KnownRange DEF EvaluateRecord
<1>5. \A id, fp, m : EvaluateSignalTimeout(H, id, fp, m) \in {"new", "diverged", "blocked", "ok", "error"}
  BY KnownRange DEF EvaluateSignalTimeout
<1> QED
  BY <1>0, <1>1, <1>2, <1>3, <1>4, <1>5 DEF Evaluate, Ops

\* The outcomes after which the program goes on.
Proceeds(H, k, call) ==
  \/ Evaluate(H, k, call) = "ok"
  \/ Evaluate(H, k, call) = "error" /\ call.catches

\* What a step does, by the outcome of the call.
LEMMA StepOutcomes ==
  ASSUME NEW prog, NEW H, NEW k, Going(k), k.pc <= Len(prog), k.pc \in Nat, Len(prog) \in Nat,
         Plainly(prog[k.pc])
  PROVE  LET call == prog[k.pc]
             outcome == Evaluate(H, k, call)
         IN /\ outcome = "new" => Step(prog, H, k) = Stop(k, NewCommands(CommandsOf(H, k, call)))
            /\ outcome = "ended" => Step(prog, H, k) = Stop(k, Result("completed"))
            /\ outcome = "blocked" => Step(prog, H, k) = Stop(k, Result("blocked"))
            /\ outcome = "diverged" => Step(prog, H, k) = Stop(k, Result("diverged"))
            /\ outcome = "error" /\ ~call.catches => Step(prog, H, k) = Stop(k, Result("failed"))
            /\ Proceeds(H, k, call) => Step(prog, H, k) = After(H, k, call)
<1>1. ~(k.pc > Len(prog))
  OBVIOUS
<1> QED
  BY <1>1 DEF Step, Proceeds

\* Where the program goes on.
LEMMA AfterSpan ==
  ASSUME NEW H, NEW k, NEW call, Plainly(call), Proceeds(H, k, call)
  PROVE  /\ After(H, k, call).pc = k.pc + 1
         /\ After(H, k, call).id = k.id + Span(call)
         /\ After(H, k, call).result = k.result
<1>1. Taken(H, k, call) = Span(call)
  <2>1. CASE call.op = "gather" /\ Raising(H, k, call) # {}
    <3>1. Each(H, k, call, FirstRaising(H, k, call)) \in {"diverged", "error"}
          /\ FirstRaising(H, k, call) \in DOMAIN call.fps
      BY <2>1, FirstRaisingIn DEF Raising
    <3>2. Evaluate(H, k, call) \in {"diverged", "error"}
      BY <2>1, <3>1 DEF Evaluate, EvaluateGather
    <3>3. Len(call.fps) <= 1 /\ Len(call.fps) \in Nat /\ DOMAIN call.fps = 1 .. Len(call.fps)
      BY <2>1, <3>2, CallTypes DEF Proceeds, Plainly
    <3>4. FirstRaising(H, k, call) = Len(call.fps)
      BY <3>1, <3>3
    <3> QED
      BY <2>1, <3>4 DEF Taken, Span
  <2>2. CASE ~(call.op = "gather" /\ Raising(H, k, call) # {})
    BY <2>2, CallTypes DEF Taken, Span, Ops
  <2> QED
    BY <2>1, <2>2
<1>2. call.op # "if_canceled"
  BY DEF Plainly
<1> QED
  BY <1>1, <1>2 DEF After

\* A step either proceeds or stops where it is.
LEMMA StepKindsOf ==
  ASSUME NEW prog, Sequential(prog), NEW H, NEW k, Going(k), k.pc \in Nat \ {0}
  PROVE  \/ /\ k.pc <= Len(prog) /\ k.pc \in DOMAIN prog /\ Plainly(prog[k.pc])
            /\ Proceeds(H, k, prog[k.pc])
            /\ Step(prog, H, k) = After(H, k, prog[k.pc]) /\ Going(Step(prog, H, k))
         \/ ~Going(Step(prog, H, k)) /\ Step(prog, H, k) = Stop(k, Step(prog, H, k).result)
<1>1. prog \in Seq(Calls) /\ Len(prog) \in Nat /\ DOMAIN prog = 1 .. Len(prog)
  BY DEF Sequential
<1>2. \A r : Stop(k, r).result = r
  BY DEF Stop
<1>3. CASE k.pc > Len(prog)
  <2>1. Step(prog, H, k) = Stop(k, Returned(H, k.id))
    BY <1>3 DEF Step
  <2>2. Returned(H, k.id).status # "going"
    BY DEF Returned, Result
  <2> QED
    BY <1>2, <2>1, <2>2 DEF Going
<1>4. CASE k.pc <= Len(prog)
  <2> DEFINE call == prog[k.pc]
  <2>1. k.pc \in DOMAIN prog /\ Plainly(call)
    BY <1>1, <1>4 DEF Sequential, Plainly
  <2>2. Evaluate(H, k, call) \in {"new", "diverged", "blocked", "ok", "error", "ended"}
        /\ call.catches \in BOOLEAN
    BY <2>1, EvaluateRange, CallTypes
  <2>3. CASE Proceeds(H, k, call)
    <3>1. Step(prog, H, k) = After(H, k, call)
      BY <1>1, <1>4, <2>1, <2>3, StepOutcomes
    <3>2. After(H, k, call).result = k.result
      BY <2>1, <2>3, AfterSpan
    <3> QED
      BY <1>4, <2>1, <2>3, <3>1, <3>2 DEF Going
  <2>4. CASE ~Proceeds(H, k, call)
    <3>1. \/ Evaluate(H, k, call) \in {"new", "diverged", "blocked", "ended"}
          \/ Evaluate(H, k, call) = "error" /\ ~call.catches
      BY <2>2, <2>4 DEF Proceeds
    <3>2. \E r : Step(prog, H, k) = Stop(k, r) /\ r.status # "going"
      <4>1. /\ \A cs : NewCommands(cs).status # "going"
            /\ \A s : s # "going" => Result(s).status # "going"
        BY DEF NewCommands, Result
      <4>2. CASE Evaluate(H, k, call) = "new"
        BY <1>1, <1>4, <2>1, <4>1, <4>2, StepOutcomes
      <4>3. CASE Evaluate(H, k, call) = "ended"
        BY <1>1, <1>4, <2>1, <4>1, <4>3, StepOutcomes
      <4>4. CASE Evaluate(H, k, call) = "blocked"
        BY <1>1, <1>4, <2>1, <4>1, <4>4, StepOutcomes
      <4>5. CASE Evaluate(H, k, call) = "diverged"
        BY <1>1, <1>4, <2>1, <4>1, <4>5, StepOutcomes
      <4>6. CASE Evaluate(H, k, call) = "error" /\ ~call.catches
        BY <1>1, <1>4, <2>1, <4>1, <4>6, StepOutcomes
      <4> QED
        BY <3>1, <4>2, <4>3, <4>4, <4>5, <4>6
    <3> QED
      BY <1>2, <3>2 DEF Going
  <2> QED
    BY <2>3, <2>4
<1> QED
  BY <1>1, <1>3, <1>4

(***************************************************************************)
(* Positions.                                                              *)
(***************************************************************************)

\* The run comes to position k.
Reaches(prog, H, k) == Going(k) /\ \E n \in Nat : Path(prog, H)[n] = k

LEMMA PathTypes ==
  ASSUME NEW prog, Sequential(prog), NEW H
  PROVE  \A n \in Nat : LET k == Path(prog, H)[n] IN
           k.pc \in Nat \ {0} /\ k.id \in Nat /\ (Going(k) => k.pc = n + 1)
<1> DEFINE P(n) == Path(prog, H)[n]
           OK(n) == P(n).pc \in Nat \ {0} /\ P(n).id \in Nat /\ (Going(P(n)) => P(n).pc = n + 1)
           S == {n \in Nat : OK(n)}
<1>1. 0 \in S
  BY PathSteps DEF Entry
<1>2. ASSUME NEW n \in S PROVE n + 1 \in S
  <2>1. P(n + 1) = Step(prog, H, P(n)) /\ n + 1 \in Nat
    BY PathSteps
  <2> DEFINE k == P(n)
  <2>2. k.pc \in Nat \ {0} /\ k.id \in Nat /\ (Going(k) => k.pc = n + 1)
    OBVIOUS
  <2> HIDE DEF P
  <2>3. CASE ~Going(k)
    <3>1. P(n + 1) = k
      BY <2>1, <2>3 DEF Step
    <3> QED
      BY <2>1, <2>2, <2>3, <3>1
  <2>4. CASE Going(k) /\ ~Going(P(n + 1))
    <3>1. P(n + 1).pc = k.pc /\ P(n + 1).id = k.id
      BY <2>1, <2>2, <2>4, StepKindsOf DEF Stop
    <3> QED
      BY <2>1, <2>2, <2>4, <3>1
  <2>5. CASE Going(k) /\ Going(P(n + 1))
    <3>1. /\ Plainly(prog[k.pc]) /\ Proceeds(H, k, prog[k.pc])
          /\ P(n + 1) = After(H, k, prog[k.pc])
      BY <2>1, <2>2, <2>5, StepKindsOf
    <3>2. P(n + 1).pc = k.pc + 1 /\ P(n + 1).id = k.id + Span(prog[k.pc])
          /\ Span(prog[k.pc]) \in Nat
      BY <3>1, AfterSpan, CallTypes
    <3> QED
      BY <2>1, <2>2, <2>5, <3>2
  <2> QED
    BY <2>3, <2>4, <2>5
<1> HIDE DEF S
<1>3. S = Nat
  <2>1. S \subseteq Nat
    BY DEF S
  <2> QED
    BY <1>1, <1>2, <2>1, Induct
<1> QED
  BY <1>3 DEF S

LEMMA ReachTypes ==
  ASSUME NEW prog, Sequential(prog), NEW H, NEW k, Reaches(prog, H, k)
  PROVE  k.pc \in Nat \ {0} /\ k.id \in Nat
<1>1. PICK n \in Nat : Path(prog, H)[n] = k
  BY DEF Reaches
<1> QED
  BY <1>1, PathTypes

LEMMA ReachEntry == ASSUME NEW prog, NEW H PROVE Reaches(prog, H, Entry)
<1>1. Path(prog, H)[0] = Entry
  BY PathSteps
<1> QED
  BY <1>1 DEF Reaches, Going, Entry, Result

LEMMA ReachNext ==
  ASSUME NEW prog, NEW H, NEW k, Reaches(prog, H, k), Going(Step(prog, H, k))
  PROVE  Reaches(prog, H, Step(prog, H, k))
<1>1. PICK n \in Nat : Path(prog, H)[n] = k
  BY DEF Reaches
<1>2. Path(prog, H)[n + 1] = Step(prog, H, k) /\ n + 1 \in Nat
  BY <1>1, PathSteps
<1> QED
  BY <1>2 DEF Reaches

\* A run that has stopped stays where it is.
LEMMA Settles ==
  ASSUME NEW prog, NEW H, NEW n \in Nat, ~Going(Path(prog, H)[n])
  PROVE  \A m \in Nat : n <= m => Path(prog, H)[m] = Path(prog, H)[n]
<1> DEFINE P(m) == Path(prog, H)[m]
           S == {m \in Nat : n <= m => P(m) = P(n)}
<1>1. 0 \in S
  OBVIOUS
<1>2. ASSUME NEW m \in S PROVE m + 1 \in S
  <2>1. P(m + 1) = Step(prog, H, P(m)) /\ m + 1 \in Nat
    BY PathSteps
  <2>2. CASE n <= m
    <3>1. ~Going(P(m)) /\ P(m) = P(n)
      BY <2>2
    <3> QED
      BY <2>1, <3>1 DEF Step
  <2>3. CASE n = m + 1
    BY <2>3
  <2>4. CASE ~(n <= m + 1)
    BY <2>1, <2>4
  <2> QED
    BY <2>2, <2>3, <2>4
<1> HIDE DEF S
<1>3. S = Nat
  <2>1. S \subseteq Nat
    BY DEF S
  <2> QED
    BY <1>1, <1>2, <2>1, Induct
<1> QED
  BY <1>3 DEF S

\* Len(prog) + 1 calls end the run.
LEMMA PathEnds ==
  ASSUME NEW prog, Sequential(prog), NEW H, NEW n \in Nat, Len(prog) < n
  PROVE  ~Going(Path(prog, H)[n])
<1>0. Len(prog) \in Nat
  BY DEF Sequential
<1> DEFINE P(m) == Path(prog, H)[m]
           l == Len(prog)
<1>1. ~Going(P(l + 1))
  <2>1. P(l + 1) = Step(prog, H, P(l)) /\ P(l).pc \in Nat \ {0}
        /\ (Going(P(l)) => P(l).pc = l + 1)
    BY <1>0, PathSteps, PathTypes
  <2> DEFINE k == P(l)
  <2> HIDE DEF P
  <2>2. CASE ~Going(k)
    BY <2>1, <2>2 DEF Step
  <2>3. CASE Going(k)
    <3>1. ~(k.pc <= Len(prog))
      BY <1>0, <2>1, <2>3
    <3> QED
      BY <2>1, <2>3, <3>1, StepKindsOf
  <2> QED
    BY <2>2, <2>3
<1>2. l + 1 \in Nat /\ l + 1 <= n
  BY <1>0
<1>3. P(n) = P(l + 1)
  BY <1>1, <1>2, Settles
<1> QED
  BY <1>1, <1>3

\* Where the run stops is what replay_workflow returns.
LEMMA Verdict ==
  ASSUME NEW prog, Sequential(prog), NEW H, IndexAccepts(H), NEW k, Reaches(prog, H, k),
         ~Going(Step(prog, H, k))
  PROVE  ReplayWorkflow(prog, H) = Step(prog, H, k).result
<1>0. Len(prog) \in Nat
  BY DEF Sequential
<1>1. PICK n \in Nat : Path(prog, H)[n] = k /\ Going(k)
  BY DEF Reaches
<1>2. n <= Len(prog)
  BY <1>0, <1>1, PathEnds
<1>3. Path(prog, H)[n + 1] = Step(prog, H, k)
  BY <1>1, PathSteps
<1>4. n + 1 \in Nat /\ Len(prog) + 1 \in Nat /\ n + 1 <= Len(prog) + 1
  BY <1>0, <1>2
<1>5. Path(prog, H)[Len(prog) + 1] = Path(prog, H)[n + 1]
  BY <1>3, <1>4, Settles
<1> QED
  BY <1>3, <1>5 DEF ReplayWorkflow

(***************************************************************************)
(* The commands in the history.                                            *)
(***************************************************************************)

\* Histories of the right type that HistoryIndex accepts.
Valid(H) ==
  /\ IndexAccepts(H) /\ IsFiniteSet(H)
  /\ \A e \in H : e.seq \in Nat /\ e.cmd \in Nat \cup {NoCommand}

\* No command of the call at k or of a later one is recorded.
Ahead(H, k) == \A e \in Scheduled(H) : e.cmd < k.id

\* How a call records its i-th command.
TypeFor(call) ==
  CASE call.op = "gather" -> "ActivityScheduled"
    [] call.op \in {"sleep", "wait_signal"} -> "TimerStarted"
    [] call.op = "child" -> "ChildWorkflowStarted"
    [] call.op = "marker" -> "MarkerRecorded"
    [] call.op = "resolve_update" -> "WorkflowUpdateResolved"
    [] call.op = "continue" -> "WorkflowExecutionContinuedAsNew"

TagFor(k, call, i) ==
  CASE call.op = "gather" -> call.fps[i]
    [] call.op = "resolve_update" -> k.held
    [] OTHER -> Fp(call)

\* All commands of the call at k are recorded, and none of a later one.
Made(H, k, call) ==
  /\ \A e \in Scheduled(H) : e.cmd < k.id + Span(call)
  /\ \A i \in 1 .. Span(call) :
       Known(H, k.id + i - 1, TypeFor(call), TagFor(k, call, i)) = "recorded"

\* The run has come to k, and the history holds the commands of the calls
\* before it, and all or none of those of the call at k.
AtCall(prog, H, k) ==
  /\ Reaches(prog, H, k)
  /\ Ahead(H, k) \/ (k.pc \in DOMAIN prog /\ Made(H, k, prog[k.pc]))

\* A history the program itself has written.
Consistent(prog, H) ==
  \E k : AtCall(prog, H, k) /\ ~Going(Step(prog, H, k))

LEMMA AheadNext ==
  ASSUME NEW prog, Sequential(prog), NEW H, Valid(H), NEW k, AtCall(prog, H, k),
         Going(Step(prog, H, k))
  PROVE  Reaches(prog, H, Step(prog, H, k)) /\ Ahead(H, Step(prog, H, k))
<1>0. k.pc \in Nat \ {0} /\ k.id \in Nat /\ Going(k)
  BY ReachTypes DEF AtCall, Reaches
<1> DEFINE call == prog[k.pc]
<1>1. Plainly(call) /\ Proceeds(H, k, call) /\ Step(prog, H, k) = After(H, k, call)
  BY <1>0, StepKindsOf
<1>2. Step(prog, H, k).id = k.id + Span(call) /\ Span(call) \in Nat
  BY <1>1, AfterSpan, CallTypes
<1> HIDE DEF call
<1>3. \A e \in Scheduled(H) : e.cmd \in Int
  BY DEF Valid, Scheduled, NoCommand
<1>4. \A e \in Scheduled(H) : e.cmd < k.id + Span(call)
  BY <1>0, <1>2, <1>3 DEF AtCall, Ahead, Made, call
<1> QED
  BY <1>2, <1>4, ReachNext DEF AtCall, Ahead

\* A run with no recorded command left before it stops somewhere further on.
LEMMA AheadStops ==
  ASSUME NEW prog, Sequential(prog), NEW H, Valid(H), NEW k, Reaches(prog, H, k), Ahead(H, k)
  PROVE  Consistent(prog, H)
<1> DEFINE P(m) == Path(prog, H)[m]
<1>0. Len(prog) \in Nat
  BY DEF Sequential
<1>1. PICK n \in Nat : P(n) = k /\ Going(k)
  BY DEF Reaches
<1> DEFINE S == {m \in Nat : n <= m /\ ~Going(P(m + 1))}
<1>2. S # {}
  <2> DEFINE m == n + Len(prog)
  <2>1. m \in Nat /\ n <= m /\ m + 1 \in Nat /\ Len(prog) < m + 1
    BY <1>0
  <2>2. ~Going(P(m + 1))
    BY <2>1, PathEnds
  <2> QED
    BY <2>1, <2>2
<1>3. PICK m \in S : \A i \in S : m <= i
  BY <1>2, LeastOf
<1> DEFINE T == {i \in Nat : n <= i /\ i <= m => Reaches(prog, H, P(i)) /\ Ahead(H, P(i))}
<1>4. 0 \in T
  BY <1>1
<1>5. ASSUME NEW i \in T PROVE i + 1 \in T
  <2> SUFFICES ASSUME n <= i + 1, i + 1 <= m
               PROVE  Reaches(prog, H, P(i + 1)) /\ Ahead(H, P(i + 1))
    OBVIOUS
  <2>1. CASE n = i + 1
    BY <1>1, <2>1
  <2>2. CASE n <= i
    <3>1. i \in Nat /\ Reaches(prog, H, P(i)) /\ Ahead(H, P(i))
      BY <1>3, <2>2
    <3>2. Going(P(i + 1))
      BY <1>3, <2>2, <3>1
    <3>3. P(i + 1) = Step(prog, H, P(i))
      BY <3>1, PathSteps
    <3>4. AtCall(prog, H, P(i))
      BY <3>1 DEF AtCall
    <3> QED
      BY <3>2, <3>3, <3>4, AheadNext
  <2> QED
    BY <1>1, <2>1, <2>2
<1>6. m \in T
  <2> HIDE DEF T, S
  <2>1. T \subseteq Nat
    BY DEF T
  <2>2. T = Nat
    BY <1>4, <1>5, <2>1, Induct
  <2> QED
    BY <1>3, <2>2 DEF S
<1>7. m \in Nat /\ AtCall(prog, H, P(m)) /\ ~Going(P(m + 1))
  BY <1>3, <1>6 DEF AtCall
<1>8. P(m + 1) = Step(prog, H, P(m))
  BY <1>7, PathSteps
<1> QED
  BY <1>7, <1>8 DEF Consistent

LEMMA CallStops ==
  ASSUME NEW prog, Sequential(prog), NEW H, Valid(H), NEW k, AtCall(prog, H, k)
  PROVE  Consistent(prog, H)
<1>1. CASE ~Going(Step(prog, H, k))
  BY <1>1 DEF Consistent
<1>2. CASE Going(Step(prog, H, k))
  BY <1>2, AheadNext, AheadStops
<1> QED
  BY <1>1, <1>2

(***************************************************************************)
(* A history that has grown.                                               *)
(***************************************************************************)

Extends(H, H2) == Valid(H) /\ Valid(H2) /\ H \subseteq H2

\* What was appended is numbered after what was there.
LEMMA LaterSeq ==
  ASSUME NEW H, NEW H2, Extends(H, H2)
  PROVE  /\ \A e \in H2 \ H, f \in H : f.seq < e.seq
         /\ \A e, f \in H2 : e.seq \in Nat /\ (e.seq = f.seq => e = f)
<1>1. /\ \A e \in H2 : e.seq \in Nat
      /\ \A e, f \in H2 : e.seq = f.seq => e = f
      /\ \A e \in H2 : e.seq \in 1 .. Cardinality(H2)
  BY DEF Extends, Valid, IndexAccepts, Contiguous
<1>2. Cardinality(H) \in Nat /\ Cardinality(H2) \in Nat
  BY FS_CardinalityType DEF Extends, Valid
<1>3. {e.seq : e \in H} = 1 .. Cardinality(H)
  BY DEF Extends, Valid, IndexAccepts, Contiguous
<1>4. ASSUME NEW e \in H2 \ H, NEW f \in H PROVE f.seq < e.seq
  <2>1. f.seq \in 1 .. Cardinality(H) /\ e.seq \in 1 .. Cardinality(H2) /\ e \in H2
    BY <1>1, <1>3
  <2>2. ~(e.seq \in 1 .. Cardinality(H))
    <3> SUFFICES ASSUME e.seq \in 1 .. Cardinality(H) PROVE FALSE
      OBVIOUS
    <3>1. PICK g \in H : g.seq = e.seq
      BY <1>3
    <3>2. g \in H2
      BY DEF Extends
    <3> QED
      BY <1>1, <2>1, <3>1, <3>2
  <2> QED
    BY <1>2, <2>1, <2>2
<1> QED
  BY <1>1, <1>4

\* The first of some events.
LEMMA FirstIn ==
  ASSUME NEW H, Valid(H), NEW S \in SUBSET H, S # {}
  PROVE  First(S) \in S /\ \A f \in S : First(S).seq <= f.seq
<1> DEFINE N == {e.seq : e \in S}
<1>1. N \in SUBSET Nat /\ N # {}
  BY DEF Valid
<1>2. PICK n \in N : \A m \in N : n <= m
  BY <1>1, LeastOf
<1>3. PICK e \in S : e.seq = n
  OBVIOUS
<1>4. \A f \in S : e.seq <= f.seq
  BY <1>2, <1>3
<1> QED
  BY <1>4 DEF First

\* It stays the first of its kind.
LEMMA FirstLater ==
  ASSUME NEW H, NEW H2, Extends(H, H2), NEW S \in SUBSET H, NEW S2 \in SUBSET H2,
         S = S2 \cap H, S # {}
  PROVE  First(S2) = First(S) /\ First(S) \in S
<1>1. First(S) \in S /\ \A f \in S : First(S).seq <= f.seq
  BY FirstIn DEF Extends
<1>2. First(S2) \in S2 /\ \A f \in S2 : First(S2).seq <= f.seq
  BY FirstIn DEF Extends
<1>3. First(S) \in S2 /\ First(S) \in H
  BY <1>1
<1>4. First(S2) \in H
  <2> SUFFICES ASSUME First(S2) \in H2 \ H PROVE FALSE
    BY <1>2
  <2>1. First(S).seq < First(S2).seq /\ First(S2).seq <= First(S).seq
    BY <1>2, <1>3, LaterSeq
  <2>2. First(S).seq \in Nat /\ First(S2).seq \in Nat
    BY <1>2, <1>3, LaterSeq
  <2> QED
    BY <2>1, <2>2
<1>5. First(S2) \in S
  BY <1>2, <1>4
<1>6. First(S).seq <= First(S2).seq /\ First(S2).seq <= First(S).seq
  BY <1>1, <1>2, <1>3, <1>5
<1>7. /\ First(S) \in H2 /\ First(S2) \in H2
      /\ First(S).seq \in Nat /\ First(S2).seq \in Nat
  BY <1>2, <1>3, LaterSeq
<1>8. First(S).seq = First(S2).seq
  BY <1>6, <1>7
<1> QED
  BY <1>1, <1>7, <1>8, LaterSeq

\* A recorded command stays recorded.
LEMMA KnownLater ==
  ASSUME NEW H, NEW H2, Extends(H, H2), NEW id, NEW type, NEW tag,
         Known(H, id, type, tag) = "recorded"
  PROVE  Known(H2, id, type, tag) = "recorded"
<1>1. Scheduled(H) \subseteq Scheduled(H2)
  BY DEF Extends, Scheduled
<1>2. \A e, f \in Scheduled(H2) : e.cmd = f.cmd => e = f
  BY DEF Extends, Valid, IndexAccepts, ScheduledOnce
<1>3. PICK e \in Scheduled(H) : e.cmd = id /\ e.type = type /\ e.tag = tag
  BY DEF Known
<1> QED
  BY <1>1, <1>2, <1>3 DEF Known

\* The outcome of a command is the first one.
LEMMA OutcomeLater ==
  ASSUME NEW H, NEW H2, Extends(H, H2), NEW types, NEW id, Of(H, types, id) # {}
  PROVE  /\ Of(H2, types, id) # {}
         /\ First(Of(H2, types, id)) = First(Of(H, types, id))
<1>1. /\ Of(H, types, id) = Of(H2, types, id) \cap H
      /\ Of(H, types, id) \subseteq H /\ Of(H2, types, id) \subseteq H2
  BY DEF Of, Extends
<1> QED
  BY <1>1, FirstLater

LEMMA ActivityLater ==
  ASSUME NEW H, NEW H2, Extends(H, H2), NEW id, NEW fp,
         EvaluateActivity(H, id, fp) \in {"ok", "error"}
  PROVE  EvaluateActivity(H2, id, fp) = EvaluateActivity(H, id, fp)
<1> DEFINE S(X) == {e \in Of(X, ActivityOutcomes, id) : Decides(e)}
<1>1. Known(H, id, "ActivityScheduled", fp) = "recorded" /\ S(H) # {}
  BY KnownRange DEF EvaluateActivity
<1>2. Known(H2, id, "ActivityScheduled", fp) = "recorded"
  BY <1>1, KnownLater
<1>3. S(H) = S(H2) \cap H /\ S(H) \subseteq H /\ S(H2) \subseteq H2
  BY DEF Of, Extends
<1>4. S(H2) # {} /\ First(S(H2)) = First(S(H))
  BY <1>1, <1>3, FirstLater
<1> QED
  BY <1>1, <1>2, <1>4 DEF EvaluateActivity

LEMMA TimerLater ==
  ASSUME NEW H, NEW H2, Extends(H, H2), NEW id, NEW fp,
         EvaluateTimer(H, id, fp) \in {"ok", "error"}
  PROVE  EvaluateTimer(H2, id, fp) = EvaluateTimer(H, id, fp)
<1>1. Known(H, id, "TimerStarted", fp) = "recorded" /\ Of(H, TimerOutcomes, id) # {}
  BY KnownRange DEF EvaluateTimer
<1>2. Known(H2, id, "TimerStarted", fp) = "recorded"
  BY <1>1, KnownLater
<1> QED
  BY <1>1, <1>2, OutcomeLater DEF EvaluateTimer

LEMMA ChildLater ==
  ASSUME NEW H, NEW H2, Extends(H, H2), NEW id, NEW fp,
         EvaluateChild(H, id, fp) \in {"ok", "error"}
  PROVE  EvaluateChild(H2, id, fp) = EvaluateChild(H, id, fp)
<1>1. Known(H, id, "ChildWorkflowStarted", fp) = "recorded" /\ Of(H, ChildOutcomes, id) # {}
  BY KnownRange DEF EvaluateChild
<1>2. Known(H2, id, "ChildWorkflowStarted", fp) = "recorded"
  BY <1>1, KnownLater
<1> QED
  BY <1>1, <1>2, OutcomeLater DEF EvaluateChild

\* The signal a wait consumes is the first one.
LEMMA MatchingLater ==
  ASSUME NEW H, NEW H2, Extends(H, H2), NEW k, NEW call, Matching(H, k, call) # {}
  PROVE  /\ Matching(H2, k, call) # {} /\ First(Matching(H, k, call)) \in H
         /\ First(Matching(H2, k, call)) = First(Matching(H, k, call))
<1>1. /\ Matching(H, k, call) = Matching(H2, k, call) \cap H
      /\ Matching(H, k, call) \subseteq H /\ Matching(H2, k, call) \subseteq H2
  BY DEF Matching, Extends
<1> QED
  BY <1>1, FirstLater

\* The race of a signal and a timer is decided by the history's order, once
\* either is there.
LEMMA SignalLater ==
  ASSUME NEW H, NEW H2, Extends(H, H2), NEW k, NEW call, NEW id, NEW fp,
         EvaluateSignalTimeout(H, id, fp, Matching(H, k, call)) \in {"ok", "error"}
  PROVE  EvaluateSignalTimeout(H2, id, fp, Matching(H2, k, call)) =
           EvaluateSignalTimeout(H, id, fp, Matching(H, k, call))
<1> DEFINE M(X) == Matching(X, k, call)
           T(X) == Of(X, TimerOutcomes, id)
           Wins(X) == M(X) # {} /\ (T(X) = {} \/ First(M(X)).seq < First(T(X)).seq)
           Fired(X) == \E e \in T(X) : e.type = "TimerFired"
<1>1. Known(H, id, "TimerStarted", fp) = "recorded"
      /\ EvaluateSignalTimeout(H, id, fp, M(H)) =
           IF Wins(H) THEN "ok" ELSE IF Fired(H) THEN "error" ELSE "blocked"
  BY KnownRange DEF EvaluateSignalTimeout
<1>2. EvaluateSignalTimeout(H2, id, fp, M(H2)) =
        IF Wins(H2) THEN "ok" ELSE IF Fired(H2) THEN "error" ELSE "blocked"
  BY <1>1, KnownLater DEF EvaluateSignalTimeout
<1>3. /\ T(H) = T(H2) \cap H /\ T(H2) \subseteq H2 /\ T(H) \subseteq H
      /\ M(H) = M(H2) \cap H /\ M(H2) \subseteq H2 /\ M(H) \subseteq H
  BY DEF Of, Matching, Extends
<1>4. /\ M(H) # {} => First(M(H2)) = First(M(H)) /\ First(M(H)) \in M(H) /\ M(H2) # {}
      /\ T(H) # {} => First(T(H2)) = First(T(H)) /\ First(T(H)) \in T(H) /\ T(H2) # {}
  BY <1>3, FirstLater
<1>5. /\ M(H2) # {} => First(M(H2)) \in M(H2)
      /\ T(H2) # {} => First(T(H2)) \in T(H2)
  BY <1>3, FirstIn DEF Extends
<1>6. SUFFICES (Wins(H2) <=> Wins(H)) /\ (Fired(H) => Fired(H2))
  <2>1. Wins(H) \/ Fired(H)
    BY <1>1
  <2> QED
    BY <1>1, <1>2, <2>1
<1> HIDE DEF M, T
<1>7. Fired(H) => Fired(H2)
  BY <1>3
<1>8. Wins(H) \/ T(H) # {}
  <2>1. Wins(H) \/ Fired(H)
    BY <1>1 DEF M
  <2> QED
    BY <2>1
<1>9. ASSUME Wins(H) PROVE Wins(H2)
  <2>1. T(H) # {} => Wins(H2)
    BY <1>4, <1>9
  <2>2. ASSUME T(H) = {}, T(H2) # {} PROVE Wins(H2)
    <3>1. First(M(H2)) \in H /\ First(T(H2)) \in H2 \ H
      BY <1>3, <1>4, <1>5, <1>9, <2>2
    <3> QED
      BY <1>4, <1>9, <3>1, LaterSeq
  <2>3. T(H2) = {} => Wins(H2)
    BY <1>4, <1>9
  <2> QED
    BY <2>1, <2>2, <2>3
<1>10. ASSUME ~Wins(H), Wins(H2) PROVE FALSE
  <2>1. T(H) # {} /\ M(H2) # {}
    BY <1>8, <1>10
  <2>2. M(H) = {}
    BY <1>4, <1>10, <2>1
  <2>3. First(M(H2)) \in H2 \ H /\ First(T(H2)) \in H /\ T(H2) # {}
    BY <1>3, <1>4, <1>5, <2>1, <2>2
  <2>4. First(T(H2)).seq < First(M(H2)).seq
    BY <2>3, LaterSeq
  <2>5. First(T(H2)) \in H2 /\ First(M(H2)) \in H2
    BY <2>3 DEF Extends
  <2>6. First(T(H2)).seq \in Nat /\ First(M(H2)).seq \in Nat
    BY <2>5, LaterSeq
  <2> QED
    BY <1>10, <2>3, <2>4, <2>6
<1> QED
  BY <1>7, <1>9, <1>10

LEMMA GatherLater ==
  ASSUME NEW H, NEW H2, Extends(H, H2), NEW k, NEW call, Plainly(call), call.op = "gather",
         Proceeds(H, k, call)
  PROVE  EvaluateGather(H2, k, call) = EvaluateGather(H, k, call)
<1>0. Evaluate(H, k, call) = EvaluateGather(H, k, call)
  BY DEF Evaluate
<1>1. \A i : Each(H, k, call, i) \in {"ok", "error"} => Each(H2, k, call, i) = Each(H, k, call, i)
  BY ActivityLater DEF Each
<1>2. CASE EvaluateGather(H, k, call) = "ok"
  <2>1. Raising(H, k, call) = {}
    BY <1>2, FirstRaisingIn DEF EvaluateGather, Raising
  <2>2. \A i \in DOMAIN call.fps : Each(H, k, call, i) = "ok"
    <3> TAKE i \in DOMAIN call.fps
    <3>1. Each(H, k, call, i) \in {"new", "diverged", "blocked", "ok", "error"}
      BY ActivityRange DEF Each
    <3> QED
      BY <1>2, <2>1, <3>1 DEF EvaluateGather, Raising, Missing
  <2>3. \A i \in DOMAIN call.fps : Each(H2, k, call, i) = "ok"
    BY <1>1, <2>2
  <2>4. EvaluateGather(H2, k, call) = "ok"
    BY <2>3 DEF EvaluateGather, Raising, Missing
  <2> QED
    BY <1>2, <2>4
<1>3. CASE EvaluateGather(H, k, call) = "error" /\ call.catches
  <2>1. Raising(H, k, call) # {}
    BY <1>3 DEF EvaluateGather
  <2>2. /\ FirstRaising(H, k, call) \in DOMAIN call.fps
        /\ Each(H, k, call, FirstRaising(H, k, call)) = "error"
    BY <1>3, <2>1, FirstRaisingIn DEF EvaluateGather, Raising
  <2>3. Len(call.fps) \in Nat /\ Len(call.fps) <= 1 /\ DOMAIN call.fps = 1 .. Len(call.fps)
    BY <1>3, CallTypes DEF Plainly
  <2>4. DOMAIN call.fps = {1} /\ FirstRaising(H, k, call) = 1
    BY <2>2, <2>3
  <2>5. Each(H2, k, call, 1) = "error"
    BY <1>1, <2>2, <2>4
  <2>6. Raising(H2, k, call) # {}
    BY <2>4, <2>5 DEF Raising
  <2>7. FirstRaising(H2, k, call) = 1
    BY <2>4, <2>6, FirstRaisingIn DEF Raising
  <2> QED
    BY <1>3, <2>5, <2>6, <2>7 DEF EvaluateGather
<1> QED
  BY <1>0, <1>2, <1>3 DEF Proceeds

\* A call that has returned or raised does so again.
LEMMA ProceedsLater ==
  ASSUME NEW H, NEW H2, Extends(H, H2), NEW k, NEW call, Plainly(call), Proceeds(H, k, call)
  PROVE  Evaluate(H2, k, call) = Evaluate(H, k, call)
<1>0. call.op \in Ops \ {"if_canceled"} /\ call.timeout \in BOOLEAN
      /\ Evaluate(H, k, call) \in {"ok", "error"}
  BY CallTypes DEF Proceeds
<1>1. CASE call.op = "gather"
  BY <1>1, GatherLater DEF Evaluate
<1>2. CASE call.op = "sleep"
  BY <1>0, <1>2, TimerLater DEF Evaluate
<1>3. CASE call.op = "child"
  BY <1>0, <1>3, ChildLater DEF Evaluate
<1>4. CASE call.op = "marker"
  BY <1>0, <1>4, KnownLater, KnownRange DEF Evaluate, EvaluateRecord
<1>5. CASE call.op = "resolve_update"
  BY <1>0, <1>5, KnownLater, KnownRange DEF Evaluate, EvaluateRecord
<1>6. CASE call.op = "continue"
  BY <1>0, <1>6, KnownRange DEF Evaluate, EvaluateContinue
<1>7. CASE call.op = "wait_signal" /\ call.timeout
  BY <1>0, <1>7, SignalLater DEF Evaluate
<1>8. CASE (call.op = "wait_signal" /\ ~call.timeout) \/ call.op = "wait_update"
  <2>1. Matching(H, k, call) # {}
    BY <1>0, <1>8 DEF Evaluate
  <2> QED
    BY <1>0, <1>8, <2>1, MatchingLater DEF Evaluate
<1> QED
  BY <1>0, <1>1, <1>2, <1>3, <1>4, <1>5, <1>6, <1>7, <1>8 DEF Ops

LEMMA AfterLater ==
  ASSUME NEW H, NEW H2, Extends(H, H2), NEW k, NEW call, Plainly(call), Proceeds(H, k, call)
  PROVE  Proceeds(H2, k, call) /\ After(H2, k, call) = After(H, k, call)
<1>1. Evaluate(H2, k, call) = Evaluate(H, k, call)
  BY ProceedsLater
<1>2. Proceeds(H2, k, call)
  BY <1>1 DEF Proceeds
<1>3. /\ After(H2, k, call).pc = After(H, k, call).pc
      /\ After(H2, k, call).id = After(H, k, call).id
  BY <1>2, AfterSpan
<1>4. call.op \in {"wait_signal", "wait_update"} /\ Evaluate(H, k, call) = "ok"
        => Matching(H, k, call) # {}
  <2>1. call.timeout \in BOOLEAN
    BY CallTypes
  <2>2. \A id, fp : EvaluateSignalTimeout(H, id, fp, {}) # "ok"
    BY KnownRange DEF EvaluateSignalTimeout
  <2> QED
    BY <2>1, <2>2 DEF Evaluate
<1>5. call.op = "wait_update" => Evaluate(H, k, call) = "ok"
  BY DEF Proceeds, Evaluate
<1>6. /\ After(H2, k, call).used = After(H, k, call).used
      /\ After(H2, k, call).held = After(H, k, call).held
  <2>1. Matching(H, k, call) # {} =>
          First(Matching(H2, k, call)) = First(Matching(H, k, call))
    BY MatchingLater
  <2> QED
    BY <1>1, <1>4, <1>5, <2>1 DEF After
<1>7. \A X : After(X, k, call) = [pc |-> After(X, k, call).pc, id |-> After(X, k, call).id,
        used |-> After(X, k, call).used, held |-> After(X, k, call).held, result |-> k.result]
  BY DEF After
<1> QED
  BY <1>2, <1>3, <1>6, <1>7

\* The longer history leads through the same positions.
LEMMA StepLater ==
  ASSUME NEW prog, Sequential(prog), NEW H, NEW H2, Extends(H, H2), NEW k, Going(k),
         k.pc \in Nat \ {0}, Going(Step(prog, H, k))
  PROVE  Step(prog, H2, k) = Step(prog, H, k)
<1> DEFINE call == prog[k.pc]
<1>1. /\ k.pc <= Len(prog) /\ Plainly(call) /\ Proceeds(H, k, call)
      /\ Step(prog, H, k) = After(H, k, call)
  BY StepKindsOf
<1>2. Proceeds(H2, k, call) /\ After(H2, k, call) = After(H, k, call)
  BY <1>1, AfterLater
<1>3. Len(prog) \in Nat
  BY DEF Sequential
<1>4. Step(prog, H2, k) = After(H2, k, call)
  BY <1>1, <1>2, <1>3, StepOutcomes
<1> QED
  BY <1>1, <1>2, <1>4

LEMMA ReachLater ==
  ASSUME NEW prog, Sequential(prog), NEW H, NEW H2, Extends(H, H2), NEW k, Reaches(prog, H, k)
  PROVE  Reaches(prog, H2, k)
<1> DEFINE P(n) == Path(prog, H)[n]
           Q(n) == Path(prog, H2)[n]
           S == {n \in Nat : Going(P(n)) => Q(n) = P(n)}
<1>1. 0 \in S
  BY PathSteps
<1>2. ASSUME NEW n \in S PROVE n + 1 \in S
  <2> SUFFICES ASSUME Going(P(n + 1)) PROVE Q(n + 1) = P(n + 1)
    OBVIOUS
  <2>1. /\ n \in Nat /\ P(n + 1) = Step(prog, H, P(n)) /\ Q(n + 1) = Step(prog, H2, Q(n))
        /\ P(n).pc \in Nat \ {0}
    BY PathSteps, PathTypes
  <2>2. Going(P(n))
    BY <2>1 DEF Step
  <2>3. Q(n) = P(n)
    BY <2>2
  <2> HIDE DEF P, Q
  <2> QED
    BY <2>1, <2>2, <2>3, StepLater
<1>3. S = Nat
  <2> HIDE DEF S
  <2>1. S \subseteq Nat
    BY DEF S
  <2> QED
    BY <1>1, <1>2, <2>1, Induct
<1>4. PICK n \in Nat : P(n) = k /\ Going(k)
  BY DEF Reaches
<1>5. Q(n) = k
  BY <1>3, <1>4
<1> QED
  BY <1>4, <1>5 DEF Reaches

(***************************************************************************)
(* Where a run stops.                                                      *)
(***************************************************************************)

LEMMA AheadNew ==
  ASSUME NEW H, Valid(H), NEW k, k.id \in Nat, Ahead(H, k), NEW i \in Nat \ {0}, NEW type, NEW tag
  PROVE  Known(H, k.id + i - 1, type, tag) = "new" /\ Known(H, k.id, type, tag) = "new"
<1>1. \A e \in Scheduled(H) : e.cmd \in Int /\ e.cmd < k.id
  BY DEF Valid, Scheduled, NoCommand, Ahead
<1>2. \A e \in Scheduled(H) : e.cmd # k.id + i - 1 /\ e.cmd # k.id
  BY <1>1
<1> QED
  BY <1>2 DEF Known

LEMMA AheadGather ==
  ASSUME NEW H, Valid(H), NEW k, k.id \in Nat, Ahead(H, k), NEW call, Plainly(call),
         call.op = "gather"
  PROVE  /\ Raising(H, k, call) = {} /\ Missing(H, k, call) = 1 .. Len(call.fps)
<1>1. DOMAIN call.fps = 1 .. Len(call.fps) /\ Len(call.fps) \in Nat
  BY CallTypes
<1>2. \A i \in DOMAIN call.fps : Each(H, k, call, i) = "new"
  <2> TAKE i \in DOMAIN call.fps
  <2>1. i \in Nat \ {0}
    BY <1>1
  <2> QED
    BY <2>1, AheadNew DEF Each, EvaluateActivity
<1> QED
  BY <1>1, <1>2 DEF Raising, Missing

\* A call with no recorded command issues them, if it has any.
LEMMA AheadOutcome ==
  ASSUME NEW H, Valid(H), NEW k, k.id \in Nat, Ahead(H, k), NEW call, Plainly(call)
  PROVE  /\ Span(call) # 0 => Evaluate(H, k, call) = "new"
         /\ Span(call) = 0 => Evaluate(H, k, call) \in {"blocked", "ok"}
<1>0. call.op \in Ops \ {"if_canceled"} /\ call.timeout \in BOOLEAN /\ Len(call.fps) \in Nat
  BY CallTypes
<1>1. CASE call.op = "gather"
  <2>1. Raising(H, k, call) = {} /\ Missing(H, k, call) = 1 .. Len(call.fps)
        /\ Span(call) = Len(call.fps) /\ DOMAIN call.fps = 1 .. Len(call.fps)
    BY <1>1, AheadGather, CallTypes DEF Span
  <2>2. CASE Len(call.fps) = 0
    <3>1. Missing(H, k, call) = {} /\ DOMAIN call.fps = {}
      BY <2>1, <2>2
    <3> QED
      BY <1>1, <2>1, <2>2, <3>1 DEF Evaluate, EvaluateGather
  <2>3. CASE Len(call.fps) # 0
    <3>1. 1 \in Missing(H, k, call)
      BY <1>0, <2>1, <2>3
    <3> QED
      BY <1>1, <2>1, <2>3, <3>1 DEF Evaluate, EvaluateGather
  <2> QED
    BY <2>2, <2>3
<1>2. CASE call.op # "gather"
  <2>1. 1 \in Nat \ {0}
    OBVIOUS
  <2>2. \A type, tag : Known(H, k.id, type, tag) = "new"
    BY <2>1, AheadNew
  <2> QED
    BY <1>0, <1>2, <2>2 DEF Evaluate, Span, Ops, EvaluateTimer, EvaluateChild, EvaluateRecord,
      EvaluateContinue, EvaluateSignalTimeout
<1> QED
  BY <1>1, <1>2

LEMMA MadeGather ==
  ASSUME NEW H, NEW k, NEW call, Plainly(call), call.op = "gather", Made(H, k, call)
  PROVE  \A i \in DOMAIN call.fps : Each(H, k, call, i) \in {"blocked", "ok", "error"}
<1> TAKE i \in DOMAIN call.fps
<1>1. i \in 1 .. Span(call)
  BY CallTypes DEF Span
<1>2. Known(H, k.id + i - 1, "ActivityScheduled", call.fps[i]) = "recorded"
  BY <1>1 DEF Made, TypeFor, TagFor
<1> QED
  BY <1>2 DEF Each, EvaluateActivity

\* The one command of any other call.
LEMMA MadeKnown ==
  ASSUME NEW H, NEW k, k.id \in Nat, NEW call, Plainly(call), call.op # "gather", Span(call) # 0,
         Made(H, k, call)
  PROVE  /\ Known(H, k.id, TypeFor(call), IF call.op = "resolve_update" THEN k.held ELSE Fp(call))
              = "recorded"
         /\ Span(call) = 1
<1>1. Span(call) = 1
  BY CallTypes DEF Span, Ops
<1>2. 1 \in 1 .. Span(call) /\ k.id + 1 - 1 = k.id
  BY <1>1
<1>3. Known(H, k.id, TypeFor(call), TagFor(k, call, 1)) = "recorded"
  BY <1>2 DEF Made
<1> QED
  BY <1>1, <1>3 DEF TagFor

\* A call all of whose commands are recorded issues none and does not diverge.
LEMMA MadeOutcome ==
  ASSUME NEW H, NEW k, k.id \in Nat, NEW call, Plainly(call), Made(H, k, call)
  PROVE  Evaluate(H, k, call) \in {"blocked", "ok", "error", "ended"}
<1>0. call.op \in Ops \ {"if_canceled"} /\ call.timeout \in BOOLEAN
  BY CallTypes
<1>1. CASE call.op = "gather"
  <2>1. \A i \in DOMAIN call.fps : Each(H, k, call, i) \in {"blocked", "ok", "error"}
    BY <1>1, MadeGather
  <2>2. Missing(H, k, call) = {}
    BY <2>1 DEF Missing
  <2>3. Raising(H, k, call) # {} =>
          Each(H, k, call, FirstRaising(H, k, call)) \in {"blocked", "ok", "error"}
    BY <2>1, FirstRaisingIn DEF Raising
  <2> QED
    BY <1>1, <2>2, <2>3 DEF Evaluate, EvaluateGather
<1>2. CASE call.op # "gather" /\ Span(call) # 0
  <2>1. Known(H, k.id, TypeFor(call), IF call.op = "resolve_update" THEN k.held ELSE Fp(call))
          = "recorded"
    BY <1>2, MadeKnown
  <2> QED
    BY <1>0, <1>2, <2>1 DEF Evaluate, Span, Ops, TypeFor, EvaluateTimer, EvaluateChild,
      EvaluateRecord, EvaluateContinue, EvaluateSignalTimeout
<1>3. CASE call.op # "gather" /\ Span(call) = 0
  BY <1>0, <1>3 DEF Evaluate, Span, Ops
<1> QED
  BY <1>1, <1>2, <1>3

\* The ways a run may stop at k.
AtEnd(prog, H, k) ==
  /\ Ahead(H, k) /\ k.pc > Len(prog)
  /\ Step(prog, H, k).result = Result("completed")
AtNew(prog, H, k) ==
  /\ k.pc \in DOMAIN prog /\ Plainly(prog[k.pc]) /\ Span(prog[k.pc]) # 0 /\ Ahead(H, k)
  /\ Step(prog, H, k).result = NewCommands(CommandsOf(H, k, prog[k.pc]))
AtOutcome(prog, H, k, outcome, s) ==
  /\ k.pc \in DOMAIN prog /\ Plainly(prog[k.pc]) /\ Made(H, k, prog[k.pc])
  /\ Evaluate(H, k, prog[k.pc]) = outcome
  /\ outcome = "error" => ~prog[k.pc].catches
  /\ Step(prog, H, k).result = Result(s)

LEMMA Stops ==
  ASSUME NEW prog, Sequential(prog), NEW H, Valid(H), NEW k, AtCall(prog, H, k),
         ~Going(Step(prog, H, k))
  PROVE  \/ AtEnd(prog, H, k) \/ AtNew(prog, H, k)
         \/ AtOutcome(prog, H, k, "blocked", "blocked")
         \/ AtOutcome(prog, H, k, "ended", "completed")
         \/ AtOutcome(prog, H, k, "error", "failed")
<1>0. k.pc \in Nat \ {0} /\ k.id \in Nat /\ Going(k) /\ Len(prog) \in Nat
      /\ DOMAIN prog = 1 .. Len(prog)
  BY ReachTypes DEF AtCall, Reaches, Sequential
<1>1. \A r : Stop(k, r).result = r
  BY DEF Stop
<1>2. CASE k.pc > Len(prog)
  <2>1. Ahead(H, k)
    BY <1>0, <1>2 DEF AtCall
  <2>2. \A e \in Scheduled(H) : ~(e.cmd >= k.id)
    <3>1. \A e \in Scheduled(H) : e.cmd \in Int
      BY DEF Valid, Scheduled, NoCommand
    <3> QED
      BY <1>0, <2>1, <3>1 DEF Ahead
  <2>3. Step(prog, H, k).result = Result("completed")
    BY <1>0, <1>1, <1>2, <2>2 DEF Step, Returned
  <2> QED
    BY <1>2, <2>1, <2>3 DEF AtEnd
<1>3. CASE k.pc <= Len(prog)
  <2> DEFINE call == prog[k.pc]
  <2>1. k.pc \in DOMAIN prog /\ Plainly(call)
    BY <1>0, <1>3 DEF Sequential, Plainly
  <2>2. Span(call) \in Nat /\ call.catches \in BOOLEAN
    BY <2>1, CallTypes
  <2>3. ~Proceeds(H, k, call)
    <3> SUFFICES ASSUME Proceeds(H, k, call) PROVE FALSE
      OBVIOUS
    <3>1. Step(prog, H, k) = After(H, k, call)
      BY <1>0, <1>3, <2>1, StepOutcomes
    <3>2. After(H, k, call).result = k.result
      BY <2>1, AfterSpan
    <3> QED
      BY <1>0, <3>1, <3>2 DEF Going
  <2>4. CASE Ahead(H, k) /\ Span(call) # 0
    <3>1. Evaluate(H, k, call) = "new"
      BY <1>0, <2>1, <2>4, AheadOutcome
    <3>2. Step(prog, H, k) = Stop(k, NewCommands(CommandsOf(H, k, call)))
      BY <1>0, <1>3, <2>1, <3>1, StepOutcomes
    <3> QED
      BY <1>1, <2>1, <2>4, <3>2 DEF AtNew
  <2>5. CASE Made(H, k, call)
    <3>1. Evaluate(H, k, call) \in {"blocked", "ok", "error", "ended"}
      BY <1>0, <2>1, <2>5, MadeOutcome
    <3>2. \/ Evaluate(H, k, call) \in {"blocked", "ended"}
          \/ Evaluate(H, k, call) = "error" /\ ~call.catches
      BY <2>2, <2>3, <3>1 DEF Proceeds
    <3>3. CASE Evaluate(H, k, call) = "blocked"
      <4>1. Step(prog, H, k) = Stop(k, Result("blocked"))
        BY <1>0, <1>3, <2>1, <3>3, StepOutcomes
      <4> QED
        BY <1>1, <2>1, <2>5, <3>3, <4>1 DEF AtOutcome
    <3>4. CASE Evaluate(H, k, call) = "ended"
      <4>1. Step(prog, H, k) = Stop(k, Result("completed"))
        BY <1>0, <1>3, <2>1, <3>4, StepOutcomes
      <4> QED
        BY <1>1, <2>1, <2>5, <3>4, <4>1 DEF AtOutcome
    <3>5. CASE Evaluate(H, k, call) = "error" /\ ~call.catches
      <4>1. Step(prog, H, k) = Stop(k, Result("failed"))
        BY <1>0, <1>3, <2>1, <3>5, StepOutcomes
      <4> QED
        BY <1>1, <2>1, <2>5, <3>5, <4>1 DEF AtOutcome
    <3> QED
      BY <3>2, <3>3, <3>4, <3>5
  <2>6. Ahead(H, k) /\ Span(call) = 0 => Made(H, k, call)
    BY <1>0 DEF Ahead, Made
  <2> QED
    BY <2>4, <2>5, <2>6 DEF AtCall
<1> QED
  BY <1>0, <1>2, <1>3

LEMMA StopStatus ==
  \A prog, H, k :
    /\ AtEnd(prog, H, k) => Step(prog, H, k).result.status = "completed"
    /\ AtNew(prog, H, k) => Step(prog, H, k).result.status = "commands"
    /\ \A outcome, s : AtOutcome(prog, H, k, outcome, s) => Step(prog, H, k).result.status = s
<1>1. \A s, cs : Result(s).status = s /\ NewCommands(cs).status = "commands"
  BY DEF Result, NewCommands
<1> QED
  BY <1>1 DEF AtEnd, AtNew, AtOutcome

\* A history the program has written does not diverge.
LEMMA ConsistentReplays ==
  ASSUME NEW prog, Sequential(prog), NEW H, Valid(H), Consistent(prog, H)
  PROVE  ReplayWorkflow(prog, H).status # "diverged"
<1>1. PICK k : AtCall(prog, H, k) /\ ~Going(Step(prog, H, k))
  BY DEF Consistent
<1>2. ReplayWorkflow(prog, H) = Step(prog, H, k).result
  BY <1>1, Verdict DEF AtCall, Valid
<1> QED
  BY <1>1, <1>2, Stops, StopStatus

(***************************************************************************)
(* Events from outside.                                                    *)
(***************************************************************************)

\* Nothing was appended but events that are no commands.
Outside(H, H2) == Extends(H, H2) /\ Scheduled(H2) = Scheduled(H)

\* The events a blocked call may wait for.
Rouses(e) ==
  \/ e.type \in {"SignalReceived", "WorkflowUpdateReceived"} \cup TimerOutcomes \cup ChildOutcomes
  \/ Decides(e)

LEMMA KnownOutside ==
  ASSUME NEW H, NEW H2, Outside(H, H2)
  PROVE  \A id, type, tag : Known(H2, id, type, tag) = Known(H, id, type, tag)
  BY DEF Outside, Known

LEMMA CallOutside ==
  ASSUME NEW prog, Sequential(prog), NEW H, NEW H2, Outside(H, H2), NEW k, AtCall(prog, H, k)
  PROVE  /\ AtCall(prog, H2, k)
         /\ Ahead(H2, k) <=> Ahead(H, k)
         /\ \A call : Made(H2, k, call) <=> Made(H, k, call)
<1>1. Reaches(prog, H2, k)
  BY ReachLater DEF Outside, AtCall
<1>2. Ahead(H2, k) <=> Ahead(H, k)
  BY DEF Outside, Ahead
<1>3. \A call : Made(H2, k, call) <=> Made(H, k, call)
  BY KnownOutside DEF Outside, Made
<1> QED
  BY <1>1, <1>2, <1>3 DEF AtCall

\* A failure that ends the program is not taken back.
LEMMA ErrorLater ==
  ASSUME NEW H, NEW H2, Extends(H, H2), NEW k, k.id \in Nat, NEW call, Plainly(call),
         Made(H2, k, call), Evaluate(H, k, call) = "error"
  PROVE  Evaluate(H2, k, call) = "error"
<1>0. call.op \in Ops \ {"if_canceled"} /\ call.timeout \in BOOLEAN
  BY CallTypes
<1>1. CASE call.op = "gather"
  <2>1. Raising(H, k, call) # {} /\ EvaluateGather(H, k, call) = "error"
    BY <1>1, EvaluateRange DEF Evaluate
  <2>2. PICK i \in DOMAIN call.fps : Each(H, k, call, i) = "error"
    BY <2>1, FirstRaisingIn DEF EvaluateGather, Raising
  <2>3. Each(H2, k, call, i) = "error"
    BY <2>2, ActivityLater DEF Each
  <2>4. Raising(H2, k, call) # {}
    BY <2>3 DEF Raising
  <2>5. /\ FirstRaising(H2, k, call) \in DOMAIN call.fps
        /\ Each(H2, k, call, FirstRaising(H2, k, call)) \in {"diverged", "error"}
    BY <2>4, FirstRaisingIn DEF Raising
  <2>6. Each(H2, k, call, FirstRaising(H2, k, call)) = "error"
    BY <1>1, <2>5, MadeGather
  <2> QED
    BY <1>1, <2>4, <2>6 DEF Evaluate, EvaluateGather
<1>2. CASE call.op = "sleep"
  BY <1>2, TimerLater DEF Evaluate
<1>3. CASE call.op = "child"
  BY <1>3, ChildLater DEF Evaluate
<1>4. CASE call.op = "wait_signal" /\ call.timeout
  BY <1>0, <1>4, SignalLater DEF Evaluate
<1>5. CASE call.op \in {"marker", "resolve_update", "continue", "wait_update"}
           \/ (call.op = "wait_signal" /\ ~call.timeout)
  BY <1>0, <1>5, KnownRange DEF Evaluate, EvaluateRecord, EvaluateContinue
<1>6. \/ call.op \in {"gather", "sleep", "child"}
      \/ call.op = "wait_signal" /\ call.timeout
      \/ call.op \in {"marker", "resolve_update", "continue", "wait_update"}
      \/ call.op = "wait_signal" /\ ~call.timeout
  BY <1>0 DEF Ops
<1> QED
  BY <1>1, <1>2, <1>3, <1>4, <1>5, <1>6

\* What a run stops with at k is what it stops with in the longer history,
\* unless it was blocked there.
LEMMA StopOutside ==
  ASSUME NEW prog, Sequential(prog), NEW H, NEW H2, Outside(H, H2), NEW k, AtCall(prog, H, k),
         ~Going(Step(prog, H, k)), Step(prog, H, k).result.status # "blocked"
  PROVE  Step(prog, H2, k) = Step(prog, H, k)
<1>0. /\ k.pc \in Nat \ {0} /\ k.id \in Nat /\ Going(k) /\ Len(prog) \in Nat
      /\ DOMAIN prog = 1 .. Len(prog) /\ Valid(H) /\ Valid(H2) /\ Extends(H, H2)
  BY ReachTypes DEF AtCall, Reaches, Sequential, Outside, Extends
<1> DEFINE call == prog[k.pc]
<1>1. CASE AtEnd(prog, H, k)
  <2>1. Returned(H2, k.id) = Returned(H, k.id)
    BY DEF Outside, Returned
  <2> QED
    BY <1>0, <1>1, <2>1 DEF AtEnd, Step
<1>2. CASE AtNew(prog, H, k)
  <2>1. Plainly(call) /\ Span(call) # 0 /\ Ahead(H, k) /\ Ahead(H2, k) /\ k.pc <= Len(prog)
    BY <1>0, <1>2, CallOutside DEF AtNew
  <2>2. Evaluate(H, k, call) = "new" /\ Evaluate(H2, k, call) = "new"
    BY <1>0, <2>1, AheadOutcome
  <2>3. CommandsOf(H2, k, call) = CommandsOf(H, k, call)
    <3>1. CASE call.op = "gather"
      <4> DEFINE G(new) == [j \in 1 .. Cardinality(new) |->
                  Cmd("activity", k.id + Ascending(new)[j] - 1, call.fps[Ascending(new)[j]])]
      <4>1. \A X : CommandsOf(X, k, call) = G(Missing(X, k, call))
        BY <3>1, Zenon DEF CommandsOf
      <4>2. Missing(H2, k, call) = Missing(H, k, call)
        BY <1>0, <2>1, <3>1, AheadGather
      <4> QED
        BY <4>1, <4>2, Zenon
    <3>2. CASE call.op # "gather"
      <4>1. call.op \in Ops \ {"if_canceled", "wait_update"}
        BY <2>1, CallTypes DEF Span
      <4> HIDE DEF call
      <4> QED
        BY <3>2, <4>1 DEF CommandsOf, Ops
    <3> QED
      BY <3>1, <3>2
  <2> QED
    BY <1>0, <2>1, <2>2, <2>3, StepOutcomes
<1>3. CASE AtOutcome(prog, H, k, "ended", "completed")
  <2>1. Plainly(call) /\ Evaluate(H, k, call) = "ended" /\ k.pc <= Len(prog)
    BY <1>0, <1>3 DEF AtOutcome
  <2>2. Evaluate(H2, k, call) = "ended"
    <3>1. call.op = "continue"
      <4>1. call.op \in Ops \ {"if_canceled"} /\ call.timeout \in BOOLEAN
        BY <2>1, CallTypes
      <4>2. EvaluateGather(H, k, call) # "ended"
        BY ActivityRange DEF EvaluateGather, Each
      <4> QED
        BY <2>1, <4>1, <4>2, KnownRange DEF Evaluate, Ops, EvaluateTimer, EvaluateChild,
          EvaluateRecord, EvaluateSignalTimeout
    <3>2. \A X : Evaluate(X, k, call) = EvaluateContinue(X, k.id, Fp(call))
      BY <3>1 DEF Evaluate
    <3> QED
      BY <2>1, <3>2, KnownOutside DEF EvaluateContinue
  <2> QED
    BY <1>0, <2>1, <2>2, StepOutcomes
<1>4. CASE AtOutcome(prog, H, k, "error", "failed")
  <2>1. /\ Plainly(call) /\ Evaluate(H, k, call) = "error" /\ ~call.catches /\ k.pc <= Len(prog)
        /\ Made(H2, k, call)
    BY <1>0, <1>4, CallOutside DEF AtOutcome
  <2>2. Evaluate(H2, k, call) = "error"
    BY <1>0, <2>1, ErrorLater
  <2> QED
    BY <1>0, <2>1, <2>2, StepOutcomes
<1> QED
  BY <1>0, <1>1, <1>2, <1>3, <1>4, Stops, StopStatus

\* A blocked call is not unblocked by events it does not wait for.
LEMMA StopQuiet ==
  ASSUME NEW prog, Sequential(prog), NEW H, NEW H2, Outside(H, H2), NEW k, AtCall(prog, H, k),
         ~Going(Step(prog, H, k)), Step(prog, H, k).result.status = "blocked",
         \A e \in H2 \ H : ~Rouses(e)
  PROVE  Step(prog, H2, k) = Step(prog, H, k)
<1>0. /\ k.pc \in Nat \ {0} /\ k.id \in Nat /\ Going(k) /\ Len(prog) \in Nat
      /\ DOMAIN prog = 1 .. Len(prog) /\ Valid(H) /\ H \subseteq H2
  BY ReachTypes DEF AtCall, Reaches, Sequential, Outside, Extends
<1> DEFINE call == prog[k.pc]
<1>1. AtOutcome(prog, H, k, "blocked", "blocked")
  BY <1>0, Stops, StopStatus
<1>2. Plainly(call) /\ Evaluate(H, k, call) = "blocked" /\ k.pc <= Len(prog)
  BY <1>0, <1>1 DEF AtOutcome
<1>3. \A id : {e \in Of(H2, ActivityOutcomes, id) : Decides(e)} =
              {e \in Of(H, ActivityOutcomes, id) : Decides(e)}
  BY <1>0 DEF Of, Rouses
<1>4. \A id : /\ Of(H2, TimerOutcomes, id) = Of(H, TimerOutcomes, id)
              /\ Of(H2, ChildOutcomes, id) = Of(H, ChildOutcomes, id)
  BY <1>0 DEF Of, Rouses
<1>5. Matching(H2, k, call) = Matching(H, k, call)
  BY <1>0 DEF Matching, Rouses
<1>6. \A id, fp : EvaluateActivity(H2, id, fp) = EvaluateActivity(H, id, fp)
  BY <1>3, KnownOutside DEF EvaluateActivity
<1>7. \A id, fp : /\ EvaluateTimer(H2, id, fp) = EvaluateTimer(H, id, fp)
                  /\ EvaluateChild(H2, id, fp) = EvaluateChild(H, id, fp)
                  /\ EvaluateContinue(H2, id, fp) = EvaluateContinue(H, id, fp)
  BY <1>4, KnownOutside DEF EvaluateTimer, EvaluateChild, EvaluateContinue
<1>8. \A id, type, tag : EvaluateRecord(H2, id, type, tag) = EvaluateRecord(H, id, type, tag)
  BY KnownOutside DEF EvaluateRecord
<1>9. \A id, fp, m : EvaluateSignalTimeout(H2, id, fp, m) = EvaluateSignalTimeout(H, id, fp, m)
  BY <1>4, KnownOutside DEF EvaluateSignalTimeout
<1>10. EvaluateGather(H2, k, call) = EvaluateGather(H, k, call)
  <2>1. \A i : Each(H2, k, call, i) = Each(H, k, call, i)
    BY <1>6 DEF Each
  <2>2. Raising(H2, k, call) = Raising(H, k, call) /\ Missing(H2, k, call) = Missing(H, k, call)
    BY <2>1 DEF Raising, Missing
  <2>3. FirstRaising(H2, k, call) = FirstRaising(H, k, call)
    BY <2>2 DEF FirstRaising
  <2> QED
    BY <2>1, <2>2, <2>3 DEF EvaluateGather
<1>11. Evaluate(H2, k, call) = "blocked"
  <2>1. call.op \in Ops \ {"if_canceled"} /\ call.timeout \in BOOLEAN
    BY <1>2, CallTypes
  <2> QED
    BY <1>2, <1>5, <1>7, <1>8, <1>9, <1>10, <2>1 DEF Evaluate, Ops
<1> QED
  BY <1>0, <1>2, <1>11, StepOutcomes

\* Events from outside keep a history consistent with its program.
LEMMA OutsideConsistent ==
  ASSUME NEW prog, Sequential(prog), NEW H, NEW H2, Outside(H, H2), Consistent(prog, H)
  PROVE  Consistent(prog, H2)
<1>1. PICK k : AtCall(prog, H, k)
  BY DEF Consistent
<1>2. AtCall(prog, H2, k) /\ Valid(H2)
  BY <1>1, CallOutside DEF Outside, Extends
<1> QED
  BY <1>2, CallStops

\* They do not change what the code has decided, and only an event it waits for
\* lets a blocked program go on.
LEMMA OutsideDecision ==
  ASSUME NEW prog, Sequential(prog), NEW H, NEW H2, Outside(H, H2), Consistent(prog, H),
         ReplayWorkflow(prog, H).status # "blocked" \/ \A e \in H2 \ H : ~Rouses(e)
  PROVE  ReplayWorkflow(prog, H2) = ReplayWorkflow(prog, H)
<1>1. PICK k : AtCall(prog, H, k) /\ ~Going(Step(prog, H, k))
  BY DEF Consistent
<1>2. IndexAccepts(H) /\ IndexAccepts(H2)
  BY DEF Outside, Extends, Valid
<1>3. ReplayWorkflow(prog, H) = Step(prog, H, k).result
  BY <1>1, <1>2, Verdict DEF AtCall
<1>4. Step(prog, H2, k) = Step(prog, H, k)
  BY <1>1, <1>3, StopOutside, StopQuiet
<1>5. AtCall(prog, H2, k)
  BY <1>1, CallOutside
<1>6. ReplayWorkflow(prog, H2) = Step(prog, H2, k).result
  BY <1>1, <1>2, <1>4, <1>5, Verdict DEF AtCall
<1> QED
  BY <1>3, <1>4, <1>6

(***************************************************************************)
(* The program's own commands.                                             *)
(***************************************************************************)

\* Event e records command c.
EventFor == [activity |-> "ActivityScheduled", timer |-> "TimerStarted",
  marker |-> "MarkerRecorded", child |-> "ChildWorkflowStarted",
  resolve |-> "WorkflowUpdateResolved", continue |-> "WorkflowExecutionContinuedAsNew"]

Writes(e, c) ==
  /\ e.type = EventFor[c.kind] /\ e.cmd = c.cmd
  /\ e.tag = IF c.kind = "resolve" THEN c.upd ELSE c.fp

\* The commands cs are recorded, and nothing else but the end of the execution.
Commits(H, H2, cs) ==
  /\ Extends(H, H2)
  /\ \A e \in H2 \ H : e.type \in ScheduleEvents \cup TerminalEvents
  /\ \A e \in Scheduled(H2) \ Scheduled(H) : \E i \in DOMAIN cs : Writes(e, cs[i])
  /\ \A i \in DOMAIN cs : \E e \in Scheduled(H2) : Writes(e, cs[i])

\* The kind of the commands of a call.
KindFor(call) ==
  CASE call.op = "gather" -> "activity"
    [] call.op \in {"sleep", "wait_signal"} -> "timer"
    [] call.op \in {"child", "marker", "continue"} -> call.op
    [] call.op = "resolve_update" -> "resolve"

\* c is the i-th command of the call.
Issued(k, call, i, c) ==
  /\ c.cmd = k.id + i - 1 /\ c.kind = KindFor(call)
  /\ TagFor(k, call, i) = IF c.kind = "resolve" THEN c.upd ELSE c.fp

LEMMA AscendingInterval ==
  ASSUME NEW n \in Nat
  PROVE  /\ Cardinality(1 .. n) = n
         /\ Ascending(1 .. n) \in [1 .. n -> 1 .. n]
         /\ \A s \in 1 .. n : \E i \in 1 .. n : Ascending(1 .. n)[i] = s
<1>1. Cardinality(1 .. n) = n
  BY FS_Interval
<1> DEFINE f == [i \in 1 .. n |-> i]
           Good(g) == /\ \A i, j \in 1 .. n : i < j => g[i] < g[j]
                      /\ \A s \in 1 .. n : \E i \in 1 .. n : g[i] = s
<1>2. f \in [1 .. n -> 1 .. n] /\ Good(f)
  OBVIOUS
<1>3. Ascending(1 .. n) = CHOOSE g \in [1 .. n -> 1 .. n] : Good(g)
  BY <1>1 DEF Ascending
<1> HIDE DEF f, Good
<1>4. Ascending(1 .. n) \in [1 .. n -> 1 .. n] /\ Good(Ascending(1 .. n))
  BY <1>2, <1>3
<1> QED
  BY <1>1, <1>4 DEF Good

\* A call that issues commands issues all of its commands, and no other.
LEMMA CommandsIssued ==
  ASSUME NEW H, Valid(H), NEW k, k.id \in Nat, Ahead(H, k), NEW call, Plainly(call),
         Span(call) # 0
  PROVE  LET cs == CommandsOf(H, k, call) IN
         /\ \A j \in DOMAIN cs : \E i \in 1 .. Span(call) : Issued(k, call, i, cs[j])
         /\ \A i \in 1 .. Span(call) : \E j \in DOMAIN cs : Issued(k, call, i, cs[j])
<1> DEFINE cs == CommandsOf(H, k, call)
<1> SUFFICES /\ \A j \in DOMAIN cs : \E i \in 1 .. Span(call) : Issued(k, call, i, cs[j])
             /\ \A i \in 1 .. Span(call) : \E j \in DOMAIN cs : Issued(k, call, i, cs[j])
  OBVIOUS
<1>0. call.op \in Ops \ {"if_canceled", "wait_update"} /\ call.timeout \in BOOLEAN
  BY CallTypes DEF Span
<1>1. CASE call.op = "gather"
  <2> DEFINE n == Len(call.fps)
             at == Ascending(1 .. n)
  <2>1. n \in Nat /\ Missing(H, k, call) = 1 .. n /\ Span(call) = n
    BY <1>1, AheadGather, CallTypes DEF Span
  <2>2. /\ Cardinality(1 .. n) = n /\ at \in [1 .. n -> 1 .. n]
        /\ \A s \in 1 .. n : \E i \in 1 .. n : at[i] = s
    BY <2>1, AscendingInterval
  <2>3. cs = [j \in 1 .. n |-> Cmd("activity", k.id + at[j] - 1, call.fps[at[j]])]
    BY <1>1, <2>1, <2>2 DEF CommandsOf
  <2> HIDE DEF at, n
  <2>4. \A i : Issued(k, call, i, Cmd("activity", k.id + i - 1, call.fps[i]))
    BY <1>1 DEF Issued, Cmd, KindFor, TagFor
  <2>5. DOMAIN cs = 1 .. n /\ \A j \in 1 .. n : at[j] \in 1 .. n /\ Issued(k, call, at[j], cs[j])
    BY <2>2, <2>3, <2>4
  <2> HIDE DEF cs
  <2>6. \A j \in DOMAIN cs : \E i \in 1 .. Span(call) : Issued(k, call, i, cs[j])
    BY <2>1, <2>5
  <2>7. \A i \in 1 .. Span(call) : \E j \in DOMAIN cs : Issued(k, call, i, cs[j])
    <3> TAKE i \in 1 .. Span(call)
    <3>1. PICK j \in 1 .. n : at[j] = i
      BY <2>1, <2>2
    <3> QED
      BY <2>5, <3>1
  <2> QED
    BY <2>6, <2>7
<1>2. CASE call.op # "gather"
  <2>1. Span(call) = 1
    BY <1>0, <1>2 DEF Span, Ops
  <2>2. \E c : cs = <<c>> /\ Issued(k, call, 1, c)
    <3>1. k.id + 1 - 1 = k.id
      OBVIOUS
    <3>2. CASE call.op \in {"sleep", "wait_signal"}
      <4> DEFINE c == Cmd("timer", k.id, Fp(call))
      <4>1. c.cmd = k.id /\ c.kind = "timer" /\ c.fp = Fp(call)
        BY DEF Cmd
      <4>2. cs = <<c>>
        BY <3>2 DEF CommandsOf
      <4> HIDE DEF c
      <4> QED
        BY <3>1, <3>2, <4>1, <4>2 DEF Issued, KindFor, TagFor
    <3>5. CASE call.op \in {"marker", "continue"}
      <4> DEFINE c == Cmd(call.op, k.id, Fp(call))
      <4>1. c.cmd = k.id /\ c.kind = call.op /\ c.fp = Fp(call)
        BY DEF Cmd
      <4>2. cs = <<c>>
        BY <3>5 DEF CommandsOf
      <4> HIDE DEF c
      <4> QED
        BY <3>1, <3>5, <4>1, <4>2 DEF Issued, KindFor, TagFor
    <3>3. CASE call.op = "child"
      <4> DEFINE c == [Cmd("child", k.id, Fp(call)) EXCEPT !.policy = call.policy]
      <4>1. c.cmd = k.id /\ c.kind = "child" /\ c.fp = Fp(call)
        BY DEF Cmd
      <4>2. cs = <<c>>
        BY <3>3 DEF CommandsOf
      <4> HIDE DEF c
      <4> QED
        BY <3>1, <3>3, <4>1, <4>2 DEF Issued, KindFor, TagFor
    <3>4. CASE call.op = "resolve_update"
      <4> DEFINE c == [Cmd("resolve", k.id, Fp(call)) EXCEPT !.upd = k.held,
                                                             !.accepted = call.accepted]
      <4>1. c.cmd = k.id /\ c.kind = "resolve" /\ c.upd = k.held
        BY DEF Cmd
      <4>2. cs = <<c>>
        BY <3>4 DEF CommandsOf
      <4> HIDE DEF c
      <4> QED
        BY <3>1, <3>4, <4>1, <4>2 DEF Issued, KindFor, TagFor
    <3> QED
      BY <1>0, <1>2, <3>2, <3>3, <3>4, <3>5 DEF Ops
  <2>3. PICK c : cs = <<c>> /\ Issued(k, call, 1, c)
    BY <2>2
  <2>4. DOMAIN cs = {1} /\ cs[1] = c /\ 1 .. Span(call) = {1}
    BY <2>1, <2>3
  <2> HIDE DEF cs
  <2> QED
    BY <2>3, <2>4
<1> QED
  BY <1>1, <1>2

LEMMA IssuedWrites ==
  ASSUME NEW k, NEW call, Plainly(call), Span(call) # 0, NEW i, NEW c, Issued(k, call, i, c),
         NEW e, Writes(e, c)
  PROVE  e.cmd = k.id + i - 1 /\ e.type = TypeFor(call) /\ e.tag = TagFor(k, call, i)
<1>1. call.op \in Ops \ {"if_canceled", "wait_update"}
  BY CallTypes DEF Span
<1>2. EventFor[KindFor(call)] = TypeFor(call)
  BY <1>1 DEF EventFor, KindFor, TypeFor, Ops
<1> QED
  BY <1>2 DEF Issued, Writes

\* A replay that returns commands has stopped at the call that issues them.
LEMMA StoppedNew ==
  ASSUME NEW prog, Sequential(prog), NEW H, Valid(H), Consistent(prog, H),
         ReplayWorkflow(prog, H).status = "commands"
  PROVE  \E k : /\ AtCall(prog, H, k) /\ AtNew(prog, H, k)
                /\ ReplayWorkflow(prog, H).commands = CommandsOf(H, k, prog[k.pc])
<1>1. PICK k : AtCall(prog, H, k) /\ ~Going(Step(prog, H, k))
  BY DEF Consistent
<1>2. ReplayWorkflow(prog, H) = Step(prog, H, k).result
  BY <1>1, Verdict DEF AtCall, Valid
<1>3. AtNew(prog, H, k)
  BY <1>1, <1>2, Stops, StopStatus
<1>4. \A cs : NewCommands(cs).commands = cs
  BY DEF NewCommands
<1> QED
  BY <1>1, <1>2, <1>3, <1>4 DEF AtNew

\* Committing them brings the history to the same call, all its commands made.
LEMMA CommitMade ==
  ASSUME NEW prog, Sequential(prog), NEW H, NEW H2, NEW k, AtCall(prog, H, k), AtNew(prog, H, k),
         Commits(H, H2, CommandsOf(H, k, prog[k.pc]))
  PROVE  AtCall(prog, H2, k) /\ Made(H2, k, prog[k.pc])
<1> DEFINE call == prog[k.pc]
           cs == CommandsOf(H, k, call)
<1>0. /\ k.id \in Nat /\ Extends(H, H2) /\ Valid(H) /\ Valid(H2) /\ k.pc \in DOMAIN prog
      /\ Plainly(call) /\ Span(call) # 0 /\ Span(call) \in Nat /\ Ahead(H, k)
  BY ReachTypes, CallTypes DEF AtCall, AtNew, Commits, Extends
<1>1. /\ \A j \in DOMAIN cs : \E i \in 1 .. Span(call) : Issued(k, call, i, cs[j])
      /\ \A i \in 1 .. Span(call) : \E j \in DOMAIN cs : Issued(k, call, i, cs[j])
  BY <1>0, CommandsIssued
<1>2. /\ \A e \in Scheduled(H2) \ Scheduled(H) : \E j \in DOMAIN cs : Writes(e, cs[j])
      /\ \A j \in DOMAIN cs : \E e \in Scheduled(H2) : Writes(e, cs[j])
  BY DEF Commits
<1> HIDE DEF call, cs
<1>3. ASSUME NEW e \in Scheduled(H2) PROVE e.cmd < k.id + Span(call)
  <2>1. CASE e \in Scheduled(H)
    <3>1. e.cmd \in Int /\ e.cmd < k.id
      BY <1>0, <2>1 DEF Valid, Scheduled, NoCommand, Ahead
    <3> QED
      BY <1>0, <3>1
  <2>2. CASE e \notin Scheduled(H)
    <3>1. PICK j \in DOMAIN cs : Writes(e, cs[j])
      BY <1>2, <2>2
    <3>2. PICK i \in 1 .. Span(call) : Issued(k, call, i, cs[j])
      BY <1>1
    <3>3. e.cmd = k.id + i - 1
      BY <1>0, <3>1, <3>2, IssuedWrites
    <3> QED
      BY <1>0, <3>3
  <2> QED
    BY <2>1, <2>2
<1>4. ASSUME NEW i \in 1 .. Span(call)
      PROVE  Known(H2, k.id + i - 1, TypeFor(call), TagFor(k, call, i)) = "recorded"
  <2>1. PICK j \in DOMAIN cs : Issued(k, call, i, cs[j])
    BY <1>1
  <2>2. PICK e \in Scheduled(H2) : Writes(e, cs[j])
    BY <1>2
  <2>3. e.cmd = k.id + i - 1 /\ e.type = TypeFor(call) /\ e.tag = TagFor(k, call, i)
    BY <1>0, <2>1, <2>2, IssuedWrites
  <2>4. \A f \in Scheduled(H2) : f.cmd = e.cmd => f = e
    BY <1>0 DEF Valid, IndexAccepts, ScheduledOnce
  <2> QED
    BY <2>3, <2>4 DEF Known
<1>5. Reaches(prog, H2, k)
  BY <1>0, ReachLater DEF AtCall
<1> QED
  BY <1>0, <1>3, <1>4, <1>5 DEF AtCall, Made, call

LEMMA CommitConsistent ==
  ASSUME NEW prog, Sequential(prog), NEW H, NEW H2, Consistent(prog, H),
         ReplayWorkflow(prog, H).status = "commands",
         Commits(H, H2, ReplayWorkflow(prog, H).commands)
  PROVE  Consistent(prog, H2)
<1>1. Valid(H) /\ Valid(H2)
  BY DEF Commits, Extends
<1>2. PICK k : /\ AtCall(prog, H, k) /\ AtNew(prog, H, k)
               /\ ReplayWorkflow(prog, H).commands = CommandsOf(H, k, prog[k.pc])
  BY <1>1, StoppedNew
<1>3. AtCall(prog, H2, k)
  BY <1>2, CommitMade
<1> QED
  BY <1>1, <1>3, CallStops

\* No wait of the program has a timeout.
Untimed(prog) == \A i \in DOMAIN prog : prog[i].op = "wait_signal" => ~prog[i].timeout

\* Activities, children and timers that have just been scheduled have no
\* outcome, so the program waits for them, unless the wait is for a signal.
LEMMA CommitBlocks ==
  ASSUME NEW prog, Sequential(prog), NEW H, NEW H2, Consistent(prog, H),
         ReplayWorkflow(prog, H).status = "commands",
         Commits(H, H2, ReplayWorkflow(prog, H).commands),
         \A i \in DOMAIN ReplayWorkflow(prog, H).commands :
           LET kind == ReplayWorkflow(prog, H).commands[i].kind IN
           kind \in {"activity", "child"} \/ (kind = "timer" /\ Untimed(prog))
  PROVE  ReplayWorkflow(prog, H2).status = "blocked"
<1>1. Valid(H) /\ Valid(H2) /\ H \subseteq H2
  BY DEF Commits, Extends
<1>2. PICK k : /\ AtCall(prog, H, k) /\ AtNew(prog, H, k)
               /\ ReplayWorkflow(prog, H).commands = CommandsOf(H, k, prog[k.pc])
  BY <1>1, StoppedNew
<1> DEFINE call == prog[k.pc]
           cs == CommandsOf(H, k, call)
<1>3. AtCall(prog, H2, k) /\ Made(H2, k, call)
  BY <1>2, CommitMade
<1>4. /\ k.id \in Nat /\ k.pc \in Nat \ {0} /\ k.pc \in DOMAIN prog /\ Plainly(call) /\ Going(k)
      /\ Span(call) # 0 /\ Span(call) \in Nat /\ Ahead(H, k) /\ Len(prog) \in Nat
      /\ k.pc <= Len(prog)
  BY <1>2, ReachTypes, CallTypes DEF AtCall, AtNew, Reaches, Sequential
<1>5. call.op \in {"gather", "child", "sleep"}
  <2>1. 1 \in 1 .. Span(call)
    BY <1>4
  <2>2. PICK j \in DOMAIN cs : Issued(k, call, 1, cs[j])
    BY <1>1, <1>4, <2>1, CommandsIssued
  <2>3. KindFor(call) \in {"activity", "child"} \/ (KindFor(call) = "timer" /\ Untimed(prog))
    BY <1>2, <2>2 DEF Issued
  <2>4. call.op \in Ops \ {"if_canceled", "wait_update"} /\ call.timeout \in BOOLEAN
    BY <1>4, CallTypes DEF Span
  <2>5. call.op # "wait_signal"
    <3> SUFFICES ASSUME call.op = "wait_signal" PROVE FALSE
      OBVIOUS
    <3>1. KindFor(call) = "timer"
      BY DEF KindFor
    <3>2. ~call.timeout
      BY <1>4, <2>3, <3>1 DEF Untimed
    <3> QED
      BY <1>4, <3>2 DEF Span
  <2> HIDE DEF call
  <2> QED
    BY <2>3, <2>4, <2>5 DEF KindFor, Ops
<1>6. ASSUME NEW i \in 1 .. Span(call)
      PROVE  \A types \in {ActivityOutcomes, TimerOutcomes, ChildOutcomes} :
               Of(H2, types, k.id + i - 1) = {}
  <2> SUFFICES ASSUME NEW types \in {ActivityOutcomes, TimerOutcomes, ChildOutcomes},
                      NEW e \in Of(H2, types, k.id + i - 1)
               PROVE  FALSE
    OBVIOUS
  <2>1. e \in H2 /\ e.type \in ActivityOutcomes \cup TimerOutcomes \cup ChildOutcomes
        /\ e.cmd = k.id + i - 1
    BY DEF Of
  <2>2. e \in H
    BY <2>1 DEF Commits, ScheduleEvents, TerminalEvents, ActivityOutcomes, TimerOutcomes,
      ChildOutcomes
  <2>3. \E type \in {"ActivityScheduled", "TimerStarted", "ChildWorkflowStarted"} :
          StartedBefore(H, e, type)
    BY <1>1, <2>1, <2>2 DEF Valid, IndexAccepts, OutcomesOnce
  <2>4. PICK s \in H : s.type \in {"ActivityScheduled", "TimerStarted", "ChildWorkflowStarted"}
                       /\ s.cmd = e.cmd
    BY <2>3 DEF StartedBefore
  <2>5. s \in Scheduled(H)
    BY <2>4 DEF Scheduled, ScheduleEvents
  <2>6. s.cmd < k.id
    BY <1>4, <2>5 DEF Ahead
  <2> QED
    BY <1>4, <2>1, <2>4, <2>6
<1>7. Evaluate(H2, k, call) = "blocked"
  <2>1. CASE call.op = "gather"
    <3>1. DOMAIN call.fps = 1 .. Span(call) /\ Span(call) = Len(call.fps)
      BY <1>4, <2>1, CallTypes DEF Span
    <3>2. \A i \in DOMAIN call.fps : Each(H2, k, call, i) = "blocked"
      <4> TAKE i \in DOMAIN call.fps
      <4>1. Known(H2, k.id + i - 1, "ActivityScheduled", call.fps[i]) = "recorded"
        BY <1>3, <2>1, <3>1 DEF Made, TypeFor, TagFor
      <4>2. Of(H2, ActivityOutcomes, k.id + i - 1) = {}
        BY <1>6, <3>1
      <4> QED
        BY <4>1, <4>2 DEF Each, EvaluateActivity
    <3>3. Raising(H2, k, call) = {} /\ Missing(H2, k, call) = {}
      BY <3>2 DEF Raising, Missing
    <3>4. 1 \in DOMAIN call.fps
      BY <1>4, <3>1
    <3> QED
      BY <2>1, <3>2, <3>3, <3>4 DEF Evaluate, EvaluateGather
  <2>2. CASE call.op \in {"child", "sleep"}
    <3>1. Known(H2, k.id, TypeFor(call), Fp(call)) = "recorded"
      BY <1>3, <1>4, <2>2, MadeKnown
    <3>2. 1 \in 1 .. Span(call) /\ k.id + 1 - 1 = k.id
      BY <1>4
    <3>3. Of(H2, TimerOutcomes, k.id) = {} /\ Of(H2, ChildOutcomes, k.id) = {}
      BY <1>6, <3>2
    <3> HIDE DEF call
    <3> QED
      BY <2>2, <3>1, <3>3 DEF Evaluate, TypeFor, EvaluateTimer, EvaluateChild
  <2> QED
    BY <1>5, <2>1, <2>2
<1>8. Step(prog, H2, k) = Stop(k, Result("blocked"))
  BY <1>4, <1>7, StepOutcomes
<1>9. Step(prog, H2, k).result = Result("blocked") /\ Result("blocked").status = "blocked"
  BY <1>8 DEF Stop, Result
<1>10. ReplayWorkflow(prog, H2) = Step(prog, H2, k).result
  BY <1>1, <1>3, <1>9, Verdict DEF AtCall, Going, Valid
<1> QED
  BY <1>9, <1>10

\* A recorded continuation ends the run.
LEMMA CommitEnds ==
  ASSUME NEW prog, Sequential(prog), NEW H, NEW H2, Consistent(prog, H),
         ReplayWorkflow(prog, H).status = "commands",
         Commits(H, H2, ReplayWorkflow(prog, H).commands),
         \A i \in DOMAIN ReplayWorkflow(prog, H).commands :
           ReplayWorkflow(prog, H).commands[i].kind = "continue"
  PROVE  ReplayWorkflow(prog, H2).status = "completed"
<1>1. Valid(H) /\ Valid(H2)
  BY DEF Commits, Extends
<1>2. PICK k : /\ AtCall(prog, H, k) /\ AtNew(prog, H, k)
               /\ ReplayWorkflow(prog, H).commands = CommandsOf(H, k, prog[k.pc])
  BY <1>1, StoppedNew
<1> DEFINE call == prog[k.pc]
           cs == CommandsOf(H, k, call)
<1>3. AtCall(prog, H2, k) /\ Made(H2, k, call)
  BY <1>2, CommitMade
<1>4. /\ k.id \in Nat /\ k.pc \in Nat \ {0} /\ Plainly(call) /\ Going(k)
      /\ Span(call) # 0 /\ Span(call) \in Nat /\ Ahead(H, k) /\ Len(prog) \in Nat
      /\ k.pc <= Len(prog)
  BY <1>2, ReachTypes, CallTypes DEF AtCall, AtNew, Reaches, Sequential
<1>5. call.op = "continue"
  <2>1. 1 \in 1 .. Span(call)
    BY <1>4
  <2>2. PICK j \in DOMAIN cs : Issued(k, call, 1, cs[j])
    BY <1>1, <1>4, <2>1, CommandsIssued
  <2>3. KindFor(call) = "continue"
    BY <1>2, <2>2 DEF Issued
  <2>4. call.op \in Ops \ {"if_canceled", "wait_update"}
    BY <1>4, CallTypes DEF Span
  <2> HIDE DEF call
  <2> QED
    BY <2>3, <2>4 DEF KindFor, Ops
<1>6. Known(H2, k.id, TypeFor(call), Fp(call)) = "recorded"
  BY <1>3, <1>4, <1>5, MadeKnown
<1>7. Evaluate(H2, k, call) = "ended"
  <2> HIDE DEF call
  <2> QED
    BY <1>5, <1>6 DEF Evaluate, EvaluateContinue, TypeFor
<1>8. Step(prog, H2, k) = Stop(k, Result("completed"))
  BY <1>4, <1>7, StepOutcomes
<1>9. Step(prog, H2, k).result = Result("completed") /\ Result("completed").status = "completed"
  BY <1>8 DEF Stop, Result
<1>10. ReplayWorkflow(prog, H2) = Step(prog, H2, k).result
  BY <1>1, <1>3, <1>9, Verdict DEF AtCall, Going, Valid
<1> QED
  BY <1>9, <1>10

\* A history with no command is consistent with every program.
LEMMA StartConsistent ==
  ASSUME NEW prog, Sequential(prog), NEW H, Valid(H), Scheduled(H) = {}
  PROVE  Consistent(prog, H)
<1>1. AtCall(prog, H, Entry)
  BY ReachEntry DEF AtCall, Ahead
<1> QED
  BY <1>1, CallStops

=============================================================================
