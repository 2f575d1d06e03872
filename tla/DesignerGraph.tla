---------------------------- MODULE DesignerGraph ----------------------------
(***************************************************************************)
(* The graph of a workflow that a user has drawn: what the server accepts  *)
(* (app/designer-validate.ts), what an expression decides                  *)
(* (app/designer-expression.ts) and how one tick of a run walks the graph  *)
(* (app/designer-runtime.ts).  Nothing of the walk is stored: every tick   *)
(* begins at the entry and finds its way with the results known by then.   *)
(*                                                                         *)
(* A text is a sequence of tokens.  The input of an activity is what it    *)
(* quotes of one step's result; with the name of the activity it is a key, *)
(* by which ftn.activity finds what has been scheduled.                    *)
(* A walk that "returned" is a definition that returned; whether the run   *)
(* is complete then, with waits pending, is WorkerLoop's matter.           *)
(***************************************************************************)
EXTENDS Integers, SequencesExt

CONSTANTS
  None,      \* nothing there: null, undefined
  StepIds,   \* ids of steps
  MaxTries   \* attempts of a retry step (50)

ASSUME MaxTriesAssumption == MaxTries \in Nat \ {0}

Kinds == {"activity", "sleep", "signal", "conditional", "retry", "parallel"}

(* handleAddStep; the fields of the other kinds are those a change of kind *)
(* gives the step, unless it has them already *)
Default(id) ==
  [id |-> id, kind |-> "activity", next |-> None, act |-> "", uses |-> None,
   then |-> None, else |-> None, path |-> None, op |-> "===", right |-> << >>,
   expr |-> <<"input", ">", "0">>, target |-> None, tries |-> MaxTries, backOff |-> FALSE,
   branches |-> << {} >>]

IdsOf(w) == {w.steps[i].id : i \in DOMAIN w.steps}

(* the first step of that id *)
FindStep(w, id) == w.steps[Min({i \in DOMAIN w.steps : w.steps[i].id = id})]

-----------------------------------------------------------------------------
(* Expressions.  The operators are looked for in this order, anywhere in   *)
(* the text; the shorter ones occur in the longer ones. *)

(* the shorter operators first *)
OperatorsShortFirst == <<"===", "!==", ">", "<", ">=", "<=">>

Operators == <<"===", "!==", ">=", "<=", ">", "<">>

Occurs(op, token) == token = op \/ <<op, token>> \in {<<">", ">=">>, <<"<", "<=">>}

Found(expr) == {k \in DOMAIN Operators : \E i \in DOMAIN expr : Occurs(Operators[k], expr[i])}

(* the text around the first occurrence *)
Split(expr) ==
  LET op == Operators[Min(Found(expr))]
      at == Min({i \in DOMAIN expr : Occurs(op, expr[i])})
  IN [op |-> op, left |-> SubSeq(expr, 1, at - 1),
      right |-> (IF expr[at] = op THEN << >> ELSE <<"=">>) \o SubSeq(expr, at + 1, Len(expr))]

(* parseLiteral: nothing at all is the number 0 *)
Literal(text) ==
  IF text = << >> THEN "0" ELSE IF Len(text) = 1 THEN text[1] ELSE "text"

(* getValueFromPath: a field of the input or of a result, which the result *)
(* of a failed activity does not have *)
PathValue(text, input, results) ==
  CASE Len(text) > 1          -> None
    [] text = <<"input">>     -> input
    [] text # << >> /\ text[1] \in StepIds ->
         IF results[text[1]] = "error" THEN None ELSE results[text[1]]
    [] OTHER                  -> Literal(text)

Digits == [d \in {"0", "1", "2"} |-> CASE d = "0" -> 0 [] d = "1" -> 1 [] d = "2" -> 2]

(* a comparison with what is no number is false *)
Holds(op, l, r) ==
  CASE op = "===" -> l = r
    [] op = "!==" -> l # r
    [] OTHER ->
       /\ l \in DOMAIN Digits /\ r \in DOMAIN Digits
       /\ CASE op = ">"  -> Digits[l] > Digits[r]
            [] op = "<"  -> Digits[l] < Digits[r]
            [] op = ">=" -> Digits[l] >= Digits[r]
            [] op = "<=" -> Digits[l] <= Digits[r]

EvalCondition(expr, input, results) ==
  /\ Found(expr) # {}
  /\ LET e == Split(expr) IN Holds(e.op, PathValue(e.left, input, results), Literal(e.right))

-----------------------------------------------------------------------------
(* the target of a retry step is not looked at *)
ValidStepUntargeted(w, s) ==
  CASE s.kind = "conditional" ->
         Found(s.expr) # {} /\ {s.then, s.else} \subseteq IdsOf(w) \cup {None}
    [] s.kind = "retry"    -> s.tries \in 1 .. MaxTries
    [] s.kind = "parallel" -> \A b \in Range(s.branches) : b \subseteq IdsOf(w)
    [] OTHER -> TRUE

ValidStep(w, s) ==
  CASE s.kind = "conditional" ->
         Found(s.expr) # {} /\ {s.then, s.else} \subseteq IdsOf(w) \cup {None}
    [] s.kind = "retry" ->
         /\ s.tries \in 1 .. MaxTries
         /\ s.target \in IdsOf(w) /\ FindStep(w, s.target).kind = "activity"
    [] s.kind = "parallel" -> \A b \in Range(s.branches) : b \subseteq IdsOf(w)
    [] OTHER -> TRUE

(* validateDesignerWorkflow asks neither where "next" leads, nor whether   *)
(* an id is used twice, nor whether an activity has a name *)
Valid(w) ==
  /\ w.entry \in IdsOf(w)
  /\ \A s \in Range(w.steps) : ValidStep(w, s)

-----------------------------------------------------------------------------
(* One tick.  A run has its input, the activities pending and completed,   *)
(* and the signals received; a walk where it is, the results the           *)
(* expressions see, the activities it schedules and the signals taken. *)
Walk0(w) ==
  [at |-> w.entry, results |-> [i \in StepIds |-> None], path |-> << >>,
   calls |-> << >>, taken |-> 0, seen |-> {}, outcome |-> "walking"]

(* the template of the input is resolved now *)
Key(s, c) == <<s.act, IF s.uses = None THEN None ELSE c.results[s.uses]>>

(* an activity that is pending is scheduled again *)
ScheduledIfCompleted(run, key) == \E i \in DOMAIN run.completed : run.completed[i].key = key

(* ftn.activity looks in the state the tick began with *)
Scheduled(run, key) ==
  Contains(run.pending, key) \/ \E i \in DOMAIN run.completed : run.completed[i].key = key

(* ftn.join: what is pending comes before what is completed *)
ResultOf(run, key) ==
  LET done == {i \in DOMAIN run.completed : run.completed[i].key = key} IN
  IF Contains(run.pending, key) \/ done = {} THEN None ELSE run.completed[Min(done)].result

Goes(c, next) == [c EXCEPT !.at = next]
Ends(c, how)  == [c EXCEPT !.outcome = how]

(* the step is reached: its activities are called, each as often as named, *)
(* and joined; "keep" are the steps that get each one's result *)
Joins(run, c, keys, keep, next) ==
  LET new     == SelectSeq(keys, LAMBDA k : ~Scheduled(run, k))
      waiting == \E k \in Range(keys) : ResultOf(run, k) = None
  IN
  IF waiting THEN Ends([c EXCEPT !.calls = @ \o new], "suspended")
  ELSE Goes([c EXCEPT !.results = [i \in StepIds |->
                IF i \in DOMAIN keep THEN ResultOf(run, keep[i]) ELSE @[i]]], next)

WalkActivity(run, c, s) ==
  Joins(run, c, <<Key(s, c)>>, s.id :> Key(s, c), s.next)

(* ftn.retry catches the suspension of the join: without a back-off it     *)
(* tries again at once, in the same tick *)
WalkRetry(w, run, c, s) ==
  LET t == FindStep(w, s.target)
      key == Key(t, c)
      attempts == IF s.backOff THEN 1 ELSE s.tries
  IN
  IF s.target \notin IdsOf(w) \/ t.kind # "activity" THEN Ends(c, "threw")
  ELSE Joins(run, c, [n \in 1 .. attempts |-> key],
             [i \in {s.id, s.target} |-> key], s.next)

(* the ids in the branches of a parallel step *)
Named(s) == FoldLeft(LAMBDA q, b : q \o SetToSeq(b), << >>, s.branches)

(* the branches are not waited for *)
WalkParallelOn(w, run, c, s) ==
  LET calls == SelectSeq(Named(s), LAMBDA id : FindStep(w, id).kind = "activity")
      keys  == [n \in DOMAIN calls |-> Key(FindStep(w, calls[n]), c)]
      new   == SelectSeq(keys, LAMBDA k : ~Scheduled(run, k))
  IN
  Goes([c EXCEPT !.calls = @ \o new,
                 !.results = [i \in StepIds |->
                    IF \E n \in DOMAIN calls : calls[n] = i
                    THEN ResultOf(run, keys[CHOOSE n \in DOMAIN calls : calls[n] = i])
                    ELSE @[i]]], s.next)

(* every step of every branch at once; those that are no activities are    *)
(* passed over *)
WalkParallel(w, run, c, s) ==
  LET calls == SelectSeq(Named(s), LAMBDA id : FindStep(w, id).kind = "activity")
      keys  == [n \in DOMAIN calls |-> Key(FindStep(w, calls[n]), c)]
  IN
  IF \E id \in Range(Named(s)) : id \notin IdsOf(w) THEN Ends(c, "threw")
  ELSE Joins(run, c, keys,
             [i \in Range(calls) |-> keys[CHOOSE n \in DOMAIN calls : calls[n] = i]], s.next)

(* the k-th wait of a tick takes the k-th signal *)
WalkSignal(run, c, s) ==
  IF c.taken < run.signals
  THEN Goes([c EXCEPT !.results[s.id] = "1", !.taken = @ + 1], s.next)
  ELSE Ends(c, "suspended")

(* ftn.sleep suspends every time it is called *)
WalkStep(w, run, c, s) ==
  CASE s.kind = "activity"    -> WalkActivity(run, c, s)
    [] s.kind = "sleep"       -> Ends(c, "suspended")
    [] s.kind = "signal"      -> WalkSignal(run, c, s)
    [] s.kind = "conditional" ->
         Goes(c, IF EvalCondition(s.expr, run.input, c.results) THEN s.then ELSE s.else)
    [] s.kind = "retry"       -> WalkRetry(w, run, c, s)
    [] s.kind = "parallel"    -> WalkParallel(w, run, c, s)

RECURSIVE Walk(_, _, _)

(* The loop of the definition.  A walk that is again where it has been,    *)
(* knowing no more, never ends. *)
Walk(w, run, c) ==
  LET here == <<c.at, c.results, c.taken>>
      seen == [c EXCEPT !.path = Append(@, c.at), !.seen = @ \cup {here}]
  IN
  IF c.outcome # "walking" THEN c
  ELSE IF c.at = None THEN Ends(c, "returned")
  ELSE IF here \in c.seen THEN Ends(c, "endless")
  ELSE IF c.at \notin IdsOf(w) THEN Ends(c, "threw")
  ELSE Walk(w, run, WalkStep(w, run, seen, FindStep(w, c.at)))

TickOf(w, run) == Walk(w, run, Walk0(w))
=============================================================================
