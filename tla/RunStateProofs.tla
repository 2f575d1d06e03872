--------------------------- MODULE RunStateProofs ---------------------------
(***************************************************************************)
(* The facts that make Replay the replay loop of the engine: it is the     *)
(* identity on no event, one more event is one more ApplyEvent, it can be  *)
(* cut at any version (a snapshot) and it does not depend on later events. *)
(* With them, the closed form of Replay is the loop of the engine, for     *)
(* events of any kind, in any order and number, and a snapshot at any      *)
(* version: what is proved of Replay elsewhere is proved of the loop.      *)
(***************************************************************************)
EXTENDS EngineReplay, SequenceTheorems, WellFoundedInduction, TLAPS

(* An activity known to a state was scheduled at or before its version.    *)
KnownIds(st) ==
  /\ \A a \in st.pending \cup st.completed : a.id <= st.version
  /\ \A i \in st.timers : i <= st.version

(* Every non-empty set of naturals has a least element, which is how an    *)
(* induction is written here.                                              *)
LEMMA LeastNat ==
  ASSUME NEW S \in SUBSET Nat, S # {}
  PROVE  \E x \in S : \A y \in S : x <= y
<1> DEFINE R == {ss \in Nat \X Nat : ss[1] < ss[2]}
<1>1. OpToRel(<, Nat) = R
  BY DEF OpToRel
<1>2. IsWellFoundedOn(R, Nat)
  BY NatLessThanWellFounded, <1>1
<1>3. PICK x \in S : \A y \in S : <<y, x>> \notin R
  <2> HIDE DEF R
  <2> QED BY <1>2, WFMin
<1>4. \A y \in S : ~(y < x)
  BY <1>3
<1>5. \A y \in S : x <= y
  BY <1>4
<1> QED BY <1>5

(* ... and one with an upper bound a greatest element.                     *)
LEMMA GreatestNat ==
  ASSUME NEW b \in Nat, NEW S \in SUBSET (0 .. b), S # {}
  PROVE  \E x \in S : \A y \in S : y <= x
<1> DEFINE U == {n \in Nat : \A y \in S : y <= n}
<1>1. U \in SUBSET Nat /\ b \in U
  OBVIOUS
<1>2. PICK n \in U : \A m \in U : n <= m
  BY <1>1, LeastNat
<1>3. n \in S
  <2> SUFFICES ASSUME n \notin S PROVE FALSE
    OBVIOUS
  <2>1. n \in Nat /\ \A y \in S : y \in Nat /\ y <= n /\ y # n
    OBVIOUS
  <2>2. \A y \in S : y <= n - 1
    BY <2>1
  <2>3. n - 1 \in Nat
    <3>1. PICK y \in S : TRUE OBVIOUS
    <3> QED BY <2>1, <3>1
  <2>4. n - 1 \in U
    BY <2>2, <2>3
  <2> QED BY <1>2, <2>4
<1> QED BY <1>2, <1>3

(* The initial state is a state of version 1.                              *)
LEMMA InitialStateType == InitialState \in RunStates /\ KnownIds(InitialState)
  BY DEF InitialState, RunStates, Status, KnownIds

(* A record of RunStates is determined by its fields.                      *)
LEMMA StateEta ==
  ASSUME NEW st \in RunStates
  PROVE  st = [version |-> st.version, status |-> st.status,
               pending |-> st.pending, completed |-> st.completed,
               waits |-> st.waits, timers |-> st.timers]
  BY DEF RunStates

(* Replaying no event changes nothing.                                     *)
THEOREM ReplayNone ==
  ASSUME NEW st \in RunStates, NEW log
  PROVE  Replay(st, log, st.version) = st
<1> DEFINE v == st.version
<1>0. v \in Nat BY DEF RunStates
<1>1. v + 1 .. v = {} BY <1>0
<1>2. ReplayStatus(st, log, v) = st.status
  BY <1>1 DEF ReplayStatus, ClosedAs
<1>3. Seen(st, log, v) = st.pending
  BY <1>1 DEF Seen
<1>4. ReplayPending(st, log, v) = st.pending
  BY <1>1, <1>3 DEF ReplayPending, StillPending
<1>5. ReplayCompleted(st, log, v) = st.completed
  BY <1>1 DEF ReplayCompleted
<1>6. st.waits \subseteq Signals BY DEF RunStates
<1>7. ReplayWaits(st, log, v) = st.waits
  BY <1>0, <1>1, <1>6 DEF ReplayWaits
<1>8. ReplayTimers(st, log, v) = st.timers
  BY <1>1 DEF ReplayTimers
<1> QED
  BY <1>2, <1>4, <1>5, <1>7, <1>8, StateEta DEF Replay

(* Replay depends only on the events it applies.                           *)
LEMMA ReplayAgree ==
  ASSUME NEW st \in RunStates, NEW l, NEW m, NEW v \in Nat,
         \A i \in st.version + 1 .. v : l[i] = m[i]
  PROVE  Replay(st, l, v) = Replay(st, m, v)
<1>0. st.version \in Nat BY DEF RunStates
<1>1. ReplayStatus(st, l, v) = ReplayStatus(st, m, v)
  <2>1. \A t : ClosedAs(st, l, v, t) <=> ClosedAs(st, m, v, t)
    BY <1>0 DEF ClosedAs
  <2> QED BY <2>1 DEF ReplayStatus
<1>2. Seen(st, l, v) = Seen(st, m, v)
  BY <1>0 DEF Seen
<1>3. ASSUME NEW u \in Nat, u <= v, NEW a
      PROVE  StillPending(st, l, u, a) <=> StillPending(st, m, u, a)
  BY <1>0, <1>3 DEF StillPending
<1>4. ReplayPending(st, l, v) = ReplayPending(st, m, v)
  BY <1>2, <1>3 DEF ReplayPending
<1>5. ReplayCompleted(st, l, v) = ReplayCompleted(st, m, v)
  <2>1. ASSUME NEW a, NEW j \in st.version + 1 .. v
        PROVE  StillPending(st, l, j - 1, a) <=> StillPending(st, m, j - 1, a)
    BY <1>0, <1>3
  <2> QED BY <1>2, <2>1 DEF ReplayCompleted
<1>6. ReplayWaits(st, l, v) = ReplayWaits(st, m, v)
  BY <1>0 DEF ReplayWaits
<1>7. ReplayTimers(st, l, v) = ReplayTimers(st, m, v)
  BY <1>0 DEF ReplayTimers
<1> QED
  BY <1>1, <1>4, <1>5, <1>6, <1>7 DEF Replay

(* Replay gives a state, whose activities were known to the base state or  *)
(* are among the events applied.                                           *)
LEMMA ReplayType ==
  ASSUME NEW st \in RunStates, KnownIds(st), NEW log \in Seq(Event),
         NEW v \in Nat, st.version <= v, v <= Len(log)
  PROVE  Replay(st, log, v) \in RunStates /\ KnownIds(Replay(st, log, v))
<1>0. st.version \in Nat /\ st.pending \subseteq ActivityRef
      /\ st.completed \subseteq ActivityRef /\ st.timers \subseteq Nat
      /\ st.status \in Status
  BY DEF RunStates
<1>1. \A i \in st.version + 1 .. v :
        i \in Nat /\ (log[i].type = "ActivityScheduled" => log[i].activity \in Activities)
  <2> SUFFICES ASSUME NEW i \in st.version + 1 .. v
               PROVE  i \in Nat /\ (log[i].type = "ActivityScheduled" => log[i].activity \in Activities)
    OBVIOUS
  <2>1. i \in 1 .. Len(log) BY <1>0
  <2>2. log[i] \in Event BY <2>1, LenProperties
  <2> QED
    BY <2>1, <2>2 DEF Event, EventWith, WorkflowStarted, StepRecorded, TimerScheduled,
       WorkflowCancelRequested, WorkflowCompleted, WorkflowFailed, WorkflowCancelled
<1>2. Seen(st, log, v) \subseteq ActivityRef
      /\ \A a \in Seen(st, log, v) : a.id <= v
  BY <1>0, <1>1 DEF Seen, ActivityRef, KnownIds
<1>3. ReplayStatus(st, log, v) \in Status
  BY <1>0 DEF ReplayStatus, Status
<1>4. ReplayPending(st, log, v) \subseteq Seen(st, log, v)
      /\ ReplayCompleted(st, log, v) \subseteq st.completed \cup Seen(st, log, v)
      /\ ReplayWaits(st, log, v) \subseteq Signals
      /\ ReplayTimers(st, log, v) \subseteq st.timers \cup (st.version + 1 .. v)
  BY DEF ReplayPending, ReplayCompleted, ReplayWaits, ReplayTimers
<1>5. Replay(st, log, v) \in RunStates
  <2>1. ReplayPending(st, log, v) \in SUBSET ActivityRef BY <1>2, <1>4
  <2>2. ReplayCompleted(st, log, v) \in SUBSET ActivityRef BY <1>0, <1>2, <1>4
  <2>3. ReplayTimers(st, log, v) \in SUBSET Nat BY <1>0, <1>4
  <2>4. ReplayWaits(st, log, v) \in SUBSET Signals BY <1>4
  <2> QED BY <1>3, <2>1, <2>2, <2>3, <2>4 DEF Replay, RunStates
<1>6. KnownIds(Replay(st, log, v))
  <2> DEFINE r == Replay(st, log, v)
  <2>1. r.version = v /\ r.pending = ReplayPending(st, log, v)
        /\ r.completed = ReplayCompleted(st, log, v) /\ r.timers = ReplayTimers(st, log, v)
    BY DEF Replay
  <2>2. \A a \in ReplayPending(st, log, v) : a.id <= v BY <1>2, <1>4
  <2>3. \A a \in ReplayCompleted(st, log, v) : a.id <= v
    <3>1. \A a \in st.completed : a.id \in Nat /\ a.id <= st.version
      BY <1>0 DEF KnownIds, ActivityRef
    <3> QED BY <1>0, <1>2, <1>4, <3>1
  <2>4. \A i \in ReplayTimers(st, log, v) : i <= v
    BY <1>0, <1>4 DEF KnownIds
  <2> HIDE DEF r
  <2>5. KnownIds(r) BY <2>1, <2>2, <2>3, <2>4 DEF KnownIds
  <2> QED BY <2>5 DEF r
<1> QED BY <1>5, <1>6

(* Of the events that close a run the last one decides: there is one type  *)
(* it can have, ...                                                        *)
LEMMA ClosedAsOne ==
  ASSUME NEW st, st.version \in Nat, NEW log, NEW v \in Nat,
         NEW t \in Terminal, NEW s \in Terminal,
         ClosedAs(st, log, v, t), ClosedAs(st, log, v, s)
  PROVE  t = s
<1>1. PICK i \in st.version + 1 .. v :
        log[i].type = t /\ \A j \in i + 1 .. v : ~Closes(log[j])
  BY DEF ClosedAs
<1>2. PICK k \in st.version + 1 .. v :
        log[k].type = s /\ \A j \in k + 1 .. v : ~Closes(log[j])
  BY DEF ClosedAs
<1>3. Closes(log[i]) /\ Closes(log[k])
  BY <1>1, <1>2 DEF Closes
<1>4. ~(i < k) /\ ~(k < i)
  BY <1>1, <1>2, <1>3
<1> QED BY <1>1, <1>2, <1>4

(* ... and there is one if any event closes the run.                       *)
LEMMA LastClose ==
  ASSUME NEW st, st.version \in Nat, NEW log, NEW w \in Nat,
         \E i \in st.version + 1 .. w : Closes(log[i])
  PROVE  \E t \in Terminal : ClosedAs(st, log, w, t)
<1> DEFINE S == {i \in st.version + 1 .. w : Closes(log[i])}
<1>1. S \in SUBSET (0 .. w) /\ S # {}
  OBVIOUS
<1>2. PICK i \in S : \A y \in S : y <= i
  BY <1>1, GreatestNat
<1>3. i \in st.version + 1 .. w /\ log[i].type \in Terminal
  BY DEF Closes
<1>4. \A j \in i + 1 .. w : ~Closes(log[j])
  BY <1>2, <1>3
<1> QED BY <1>3, <1>4 DEF ClosedAs

(* A snapshot is a cut: replaying up to version u and then, from the state *)
(* this gives, up to version v, is replaying up to v.                      *)
THEOREM ReplayCompose ==
  ASSUME NEW st \in RunStates, NEW log \in Seq(Event),
         NEW u \in Nat, NEW v \in Nat,
         st.version <= u, u <= v, v <= Len(log)
  PROVE  Replay(Replay(st, log, u), log, v) = Replay(st, log, v)
<1> DEFINE mid == Replay(st, log, u)
<1>0. st.version \in Nat /\ st.pending \subseteq ActivityRef
  BY DEF RunStates
<1>1. mid.version = u /\ mid.status = ReplayStatus(st, log, u)
      /\ mid.pending = ReplayPending(st, log, u)
      /\ mid.completed = ReplayCompleted(st, log, u)
      /\ mid.waits = ReplayWaits(st, log, u) /\ mid.timers = ReplayTimers(st, log, u)
  BY DEF Replay
<1> HIDE DEF mid
<1>2. ReplayStatus(mid, log, v) = ReplayStatus(st, log, v)
  <2>1. ASSUME NEW w \in Nat, st.version <= w, w <= v,
               \E i \in st.version + 1 .. w : Closes(log[i])
        PROVE  \E t \in Terminal : ClosedAs(st, log, w, t)
    BY <1>0, <2>1, LastClose
  <2>2. \A t \in Terminal : ClosedAs(mid, log, v, t) => ClosedAs(st, log, v, t)
    BY <1>0, <1>1 DEF ClosedAs
  <2>3. \A t \in Terminal : ClosedAs(st, log, v, t) =>
          ClosedAs(mid, log, v, t)
            \/ (ClosedAs(st, log, u, t) /\ \A j \in u + 1 .. v : ~Closes(log[j]))
    <3> SUFFICES ASSUME NEW t \in Terminal, ClosedAs(st, log, v, t)
                 PROVE  ClosedAs(mid, log, v, t)
                          \/ (ClosedAs(st, log, u, t) /\ \A j \in u + 1 .. v : ~Closes(log[j]))
      OBVIOUS
    <3>1. PICK i \in st.version + 1 .. v :
            log[i].type = t /\ \A j \in i + 1 .. v : ~Closes(log[j])
      BY DEF ClosedAs
    <3>2. CASE i > u
      <4>1. i \in u + 1 .. v BY <1>0, <3>2
      <4>2. mid.version = u BY <1>1
      <4>3. ClosedAs(mid, log, v, t) BY <3>1, <4>1, <4>2 DEF ClosedAs
      <4> QED BY <4>3
    <3>3. CASE i <= u
      <4>1. i \in st.version + 1 .. u BY <1>0, <3>3
      <4>2. \A j \in i + 1 .. u : ~Closes(log[j]) BY <1>0, <3>1
      <4>3. \A j \in u + 1 .. v : ~Closes(log[j]) BY <1>0, <3>1, <3>3
      <4> QED BY <3>1, <4>1, <4>2, <4>3 DEF ClosedAs
    <3> QED BY <1>0, <3>2, <3>3
  <2>4. \A t, s \in Terminal :
          ClosedAs(st, log, v, t) /\ ClosedAs(st, log, v, s) => t = s
    BY <1>0, ClosedAsOne
  <2>5. \A t, s \in Terminal :
          ClosedAs(st, log, u, t) /\ ClosedAs(st, log, u, s) => t = s
    BY <1>0, ClosedAsOne
  <2>6. \A t \in Terminal : ClosedAs(mid, log, v, t) => \E j \in u + 1 .. v : Closes(log[j])
    BY <1>0, <1>1 DEF ClosedAs, Closes
  <2>7. \A t \in Terminal : ClosedAs(st, log, u, t) =>
          \E i \in st.version + 1 .. v : Closes(log[i])
    BY <1>0 DEF ClosedAs, Closes
  <2>8. (\E i \in st.version + 1 .. v : Closes(log[i])) =>
          \E t \in Terminal : ClosedAs(st, log, v, t)
    BY <1>0, <2>1
  <2>9. /\ "WorkflowCompleted" \in Terminal /\ "WorkflowFailed" \in Terminal
        /\ "WorkflowCancelled" \in Terminal
        /\ Terminal = {"WorkflowCompleted", "WorkflowFailed", "WorkflowCancelled"}
    BY DEF Terminal
  <2> QED
    BY <1>1, <2>2, <2>3, <2>4, <2>5, <2>6, <2>7, <2>8, <2>9 DEF ReplayStatus
<1>3. ASSUME NEW w \in Nat, u <= w, w <= v, NEW a \in Seen(st, log, u),
             StillPending(st, log, u, a)
      PROVE  StillPending(mid, log, w, a) <=> StillPending(st, log, w, a)
  BY <1>0, <1>1, <1>3 DEF StillPending
<1>4. ASSUME NEW w \in Nat, u <= w, w <= v, NEW a, a.id \in Nat, a.id > u
      PROVE  StillPending(mid, log, w, a) <=> StillPending(st, log, w, a)
  BY SMTT(30), <1>0, <1>1, <1>4 DEF StillPending
<1>5. ASSUME NEW w \in Nat, u <= w, w <= v, NEW a, StillPending(st, log, w, a)
      PROVE  StillPending(st, log, u, a)
  BY <1>0, <1>5 DEF StillPending
<1> DEFINE New == {[id |-> i, activity |-> log[i].activity] :
                     i \in {k \in u + 1 .. v : log[k].type = "ActivityScheduled"}}
<1>6. Seen(mid, log, v) = ReplayPending(st, log, u) \cup New
  BY <1>1 DEF Seen
<1>7. Seen(st, log, v) = Seen(st, log, u) \cup New
  BY <1>0 DEF Seen
<1>8. \A a \in New : a.id \in Nat /\ a.id > u
  OBVIOUS
<1>9. \A a \in Seen(st, log, u) : a.id \in Nat
  BY <1>0 DEF Seen, ActivityRef
<1> HIDE DEF New
<1>10. ReplayPending(mid, log, v) = ReplayPending(st, log, v)
  BY <1>3, <1>4, <1>5, <1>6, <1>7, <1>8 DEF ReplayPending
<1>11. ReplayCompleted(mid, log, v) = ReplayCompleted(st, log, v)
  <2> DEFINE Ends(s, a, j) == /\ j > a.id
                              /\ log[j] \in ResultsOf(a.id)
                              /\ StillPending(s, log, j - 1, a)
  <2>1. ASSUME NEW c \in ReplayCompleted(mid, log, v)
        PROVE  c \in ReplayCompleted(st, log, v)
    <3>1. CASE c \in ReplayCompleted(st, log, u)
      <4>1. CASE c \in st.completed BY <4>1 DEF ReplayCompleted
      <4>2. CASE c \in Seen(st, log, u) /\ \E j \in st.version + 1 .. u : Ends(st, c, j)
        BY <1>0, <1>7, <4>2 DEF ReplayCompleted
      <4> QED BY <3>1, <4>1, <4>2 DEF ReplayCompleted
    <3>2. CASE c \in Seen(mid, log, v) /\ \E j \in u + 1 .. v : Ends(mid, c, j)
      <4>1. PICK j \in u + 1 .. v : Ends(mid, c, j) BY <3>2
      <4>2. StillPending(st, log, j - 1, c)
        <5>1. CASE c \in ReplayPending(st, log, u)
          BY <1>3, <4>1, <5>1 DEF ReplayPending
        <5>2. CASE c \in New BY <1>4, <1>8, <4>1, <5>2
        <5> QED BY <1>6, <3>2, <5>1, <5>2
      <4>3. c \in Seen(st, log, v) BY <1>6, <1>7, <3>2 DEF ReplayPending
      <4>4. j \in st.version + 1 .. v BY <1>0
      <4> QED BY <4>1, <4>2, <4>3, <4>4 DEF ReplayCompleted
    <3> QED BY <1>1, <2>1, <3>1, <3>2 DEF ReplayCompleted
  <2>2. ASSUME NEW c \in ReplayCompleted(st, log, v)
        PROVE  c \in ReplayCompleted(mid, log, v)
    <3>1. CASE c \in st.completed BY <1>1, <3>1 DEF ReplayCompleted
    <3>2. CASE c \in Seen(st, log, v) /\ \E j \in st.version + 1 .. v : Ends(st, c, j)
      <4>1. PICK j \in st.version + 1 .. v : Ends(st, c, j) BY <3>2
      <4>2. CASE j <= u
        <5>1. c \notin New BY <1>8, <4>1, <4>2
        <5>2. c \in Seen(st, log, u) BY <1>7, <3>2, <5>1
        <5>3. j \in st.version + 1 .. u BY <1>0, <4>2
        <5> QED BY <1>1, <4>1, <5>2, <5>3 DEF ReplayCompleted
      <4>3. CASE j > u
        <5>1. j - 1 \in Nat /\ u <= j - 1 /\ j - 1 <= v /\ j \in u + 1 .. v BY <1>0, <4>3
        <5>2. CASE c \in New
          <6>1. StillPending(mid, log, j - 1, c) BY <1>4, <1>8, <4>1, <5>1, <5>2
          <6> QED BY <1>1, <1>6, <4>1, <5>1, <5>2, <6>1 DEF ReplayCompleted
        <5>3. CASE c \in Seen(st, log, u)
          <6>1. StillPending(st, log, u, c) BY <1>5, <4>1, <5>1
          <6>2. StillPending(mid, log, j - 1, c) BY <1>3, <4>1, <5>1, <5>3, <6>1
          <6>3. c \in Seen(mid, log, v) BY <1>6, <5>3, <6>1 DEF ReplayPending
          <6> QED BY <1>1, <4>1, <5>1, <6>2, <6>3 DEF ReplayCompleted
        <5> QED BY <1>7, <3>2, <5>2, <5>3
      <4> QED BY <1>0, <4>2, <4>3
    <3> QED BY <3>1, <3>2 DEF ReplayCompleted
  <2> QED BY <2>1, <2>2
<1>12. ReplayWaits(mid, log, v) = ReplayWaits(st, log, v)
  <2>1. ASSUME NEW n \in ReplayWaits(mid, log, v)
        PROVE  n \in ReplayWaits(st, log, v)
    BY <1>0, <1>1, <2>1 DEF ReplayWaits
  <2>2. ASSUME NEW n \in ReplayWaits(st, log, v)
        PROVE  n \in ReplayWaits(mid, log, v)
    <3>1. PICK i \in st.version .. v :
            /\ IF i = st.version THEN n \in st.waits ELSE log[i] = SignalWaitStarted(n)
            /\ \A j \in i + 1 .. v : ~Answers(log[j], n)
      BY <2>2 DEF ReplayWaits
    <3>2. n \in Signals BY <2>2 DEF ReplayWaits
    <3>3. CASE i <= u
      <4>1. n \in mid.waits BY <1>0, <1>1, <3>1, <3>2, <3>3 DEF ReplayWaits
      <4>2. \A j \in u + 1 .. v : ~Answers(log[j], n) BY <1>0, <3>1, <3>3
      <4>3. u \in u .. v OBVIOUS
      <4> QED BY <1>1, <3>2, <4>1, <4>2, <4>3 DEF ReplayWaits
    <3>4. CASE i > u
      <4>1. i \in u .. v /\ i # u /\ i # st.version BY <1>0, <3>4
      <4> QED BY <1>1, <3>1, <3>2, <4>1 DEF ReplayWaits
    <3> QED BY <1>0, <3>3, <3>4
  <2> QED BY <2>1, <2>2
<1>13. ReplayTimers(mid, log, v) = ReplayTimers(st, log, v)
  BY <1>0, <1>1 DEF ReplayTimers
<1>14. Replay(mid, log, v) = Replay(st, log, v)
  BY <1>2, <1>10, <1>11, <1>12, <1>13 DEF Replay
<1> QED BY <1>14 DEF mid

(* An event is told by its type and its data.                              *)
LEMMA EventFacts ==
  ASSUME NEW e \in Event
  PROVE  /\ \A id : e \in ResultsOf(id) <=>
                     /\ e.type \in {"ActivityCompleted", "ActivityFailed"}
                     /\ e.activityId = id
         /\ \A n : e = SignalWaitStarted(n) <=>
                     e.type = "SignalWaitStarted" /\ e.signal = n
         /\ \A n : e = SignalReceived(n) <=>
                     e.type = "SignalReceived" /\ e.signal = n
         /\ e = WorkflowCancelled <=> e.type = "WorkflowCancelled"
         /\ e = WorkflowCompleted <=> e.type = "WorkflowCompleted"
         /\ e = WorkflowFailed <=> e.type = "WorkflowFailed"
         /\ e = TimerScheduled <=> e.type = "TimerScheduled"
         /\ e = WorkflowCancelRequested <=> e.type = "WorkflowCancelRequested"
         /\ e.type = "ActivityScheduled" => e.activity \in Activities
         /\ e.type \in {"SignalWaitStarted", "SignalReceived"} => e.signal \in Signals
  BY DEF Event, EventWith, ResultsOf,
         WorkflowStarted, StepRecorded, TimerScheduled, WorkflowCancelRequested,
         WorkflowCompleted, WorkflowFailed, WorkflowCancelled,
         ActivityCompleted, ActivityFailed, SignalWaitStarted, SignalReceived

(* Replaying one event is applying it, whatever the event is.              *)
THEOREM ReplayOne ==
  ASSUME NEW st \in RunStates, KnownIds(st), NEW log,
         log[st.version + 1] \in Event
  PROVE  Replay(st, log, st.version + 1) = ApplyEvent(st, log[st.version + 1])
<1> DEFINE v == st.version + 1
           e == log[v]
           Result == {"ActivityCompleted", "ActivityFailed"}
           done == {a \in st.pending : a.id = e.activityId}
           new == [id |-> v, activity |-> e.activity]
<1>0. /\ v \in Nat /\ st.version \in Nat /\ st.pending \subseteq ActivityRef
      /\ st.completed \subseteq ActivityRef /\ st.timers \subseteq Nat
      /\ st.waits \subseteq Signals /\ st.status \in Status
  BY DEF RunStates
<1>1. v .. v = {v} /\ v + 1 .. v = {} /\ st.version .. v = {st.version, v}
      /\ v - 1 = st.version
  BY <1>0
<1>2. \A a \in st.pending \cup st.completed : a.id \in Nat /\ a.id < v
  BY <1>0 DEF KnownIds, ActivityRef
<1>3. \A i \in st.timers : i \in Nat /\ i < v
  BY <1>0 DEF KnownIds
<1>4. ReplayStatus(st, log, v) =
        CASE e.type = "WorkflowCompleted" -> "completed"
          [] e.type = "WorkflowFailed" -> "failed"
          [] e.type = "WorkflowCancelled" -> "cancelled"
          [] OTHER -> st.status
  BY <1>1 DEF ReplayStatus, ClosedAs
<1>5. Seen(st, log, v) =
        IF e.type = "ActivityScheduled" THEN st.pending \cup {new} ELSE st.pending
  BY <1>1 DEF Seen
<1>6. ReplayPending(st, log, v) =
        IF e.type = "ActivityScheduled" THEN st.pending \cup {new}
        ELSE IF e.type \in Result THEN st.pending \ done
        ELSE IF e.type = "WorkflowCancelled" THEN {} ELSE st.pending
  <2>1. \A a : Drops(e, a.id) <=> \/ e.type \in Result /\ e.activityId = a.id
                                 \/ e.type = "WorkflowCancelled"
    BY EventFacts DEF Drops
  <2>2. \A a \in st.pending : StillPending(st, log, v, a) <=> ~Drops(e, a.id)
    BY <1>1, <1>2 DEF StillPending
  <2>3. e.type = "ActivityScheduled" => StillPending(st, log, v, new)
    BY <1>0, <1>1 DEF StillPending
  <2> QED BY <1>5, <2>1, <2>2, <2>3 DEF ReplayPending
<1>7. ReplayCompleted(st, log, v) =
        IF e.type \in Result THEN st.completed \cup done ELSE st.completed
  <2>1. \A a : StillPending(st, log, st.version, a)
    BY <1>0 DEF StillPending
  <2>2. ReplayCompleted(st, log, v) =
          st.completed \cup {a \in Seen(st, log, v) : v > a.id /\ e \in ResultsOf(a.id)}
    BY <1>1, <2>1 DEF ReplayCompleted
  <2>3. ~(v > new.id) BY <1>0
  <2>4. \A a : e \in ResultsOf(a.id) <=> e.type \in Result /\ e.activityId = a.id
    BY EventFacts
  <2> QED BY <1>2, <1>5, <2>2, <2>3, <2>4
<1>8. ReplayWaits(st, log, v) =
        IF e.type = "SignalWaitStarted" THEN st.waits \cup {e.signal}
        ELSE IF e.type = "SignalReceived" THEN st.waits \ {e.signal}
        ELSE IF e.type = "WorkflowCancelled" THEN {} ELSE st.waits
  <2>1. ReplayWaits(st, log, v) =
          {n \in Signals : \/ n \in st.waits /\ ~Answers(e, n)
                           \/ e = SignalWaitStarted(n)}
    BY <1>0, <1>1 DEF ReplayWaits
  <2>2. \A n : Answers(e, n) <=> \/ e.type = "SignalReceived" /\ e.signal = n
                                \/ e.type = "WorkflowCancelled"
    BY EventFacts DEF Answers
  <2>3. \A n : e = SignalWaitStarted(n) <=> e.type = "SignalWaitStarted" /\ e.signal = n
    BY EventFacts
  <2>4. e.type = "SignalWaitStarted" => e.signal \in Signals
    BY EventFacts
  <2> QED BY <1>0, <2>1, <2>2, <2>3, <2>4
<1>9. ReplayTimers(st, log, v) =
        IF e.type = "TimerScheduled" THEN st.timers \cup {v}
        ELSE IF e.type = "WorkflowCancelled" THEN {} ELSE st.timers
  <2>1. ReplayTimers(st, log, v) =
          {i \in st.timers : e # WorkflowCancelled} \cup {i \in {v} : e = TimerScheduled}
    BY <1>1, <1>3, EventFacts DEF ReplayTimers, WorkflowCancelled, TimerScheduled
  <2>2. /\ e = WorkflowCancelled <=> e.type = "WorkflowCancelled"
        /\ e = TimerScheduled <=> e.type = "TimerScheduled"
    BY EventFacts
  <2> QED BY <2>1, <2>2
<1> DEFINE S(vs, vp, vc, vw, vt) ==
             [version |-> v, status |-> vs, pending |-> vp, completed |-> vc,
              waits |-> vw, timers |-> vt]
<1>10. st = [version |-> st.version, status |-> st.status, pending |-> st.pending,
             completed |-> st.completed, waits |-> st.waits, timers |-> st.timers]
  BY StateEta
<1>11. /\ e = WorkflowCompleted <=> e.type = "WorkflowCompleted"
       /\ e = WorkflowFailed <=> e.type = "WorkflowFailed"
  BY EventFacts
<1>12. Replay(st, log, v) =
         S(ReplayStatus(st, log, v), ReplayPending(st, log, v),
           ReplayCompleted(st, log, v), ReplayWaits(st, log, v),
           ReplayTimers(st, log, v))
  BY DEF Replay
<1>13. CASE e.type = "ActivityScheduled"
  <2>1. ApplyEvent(st, e) =
          S(st.status, st.pending \cup {new}, st.completed, st.waits, st.timers)
    BY <1>10, <1>13 DEF ApplyEvent
  <2> QED BY <1>4, <1>6, <1>7, <1>8, <1>9, <1>12, <1>13, <2>1
<1>14. CASE e.type \in Result
  <2>1. ApplyEvent(st, e) =
          S(st.status, st.pending \ done, st.completed \cup done, st.waits, st.timers)
    BY <1>10, <1>14 DEF ApplyEvent
  <2> QED BY <1>4, <1>6, <1>7, <1>8, <1>9, <1>12, <1>14, <2>1
<1>15. CASE e.type = "WorkflowCompleted"
  <2>1. StatusOf(e) = "completed"
    BY <1>11, <1>15 DEF StatusOf, WorkflowCompleted, WorkflowFailed, WorkflowCancelled
  <2>2. ApplyEvent(st, e) =
          S(StatusOf(e), st.pending, st.completed, st.waits, st.timers)
    BY <1>10, <1>15 DEF ApplyEvent
  <2> QED BY <1>4, <1>6, <1>7, <1>8, <1>9, <1>12, <1>15, <2>1, <2>2
<1>16. CASE e.type = "WorkflowFailed"
  <2>1. StatusOf(e) = "failed"
    BY <1>11, <1>16 DEF StatusOf, WorkflowCompleted, WorkflowFailed, WorkflowCancelled
  <2>2. ApplyEvent(st, e) =
          S(StatusOf(e), st.pending, st.completed, st.waits, st.timers)
    BY <1>10, <1>16 DEF ApplyEvent
  <2> QED BY <1>4, <1>6, <1>7, <1>8, <1>9, <1>12, <1>16, <2>1, <2>2
<1>17. CASE e.type = "WorkflowCancelled"
  <2>1. ApplyEvent(st, e) = S("cancelled", {}, st.completed, {}, {})
    BY <1>10, <1>17 DEF ApplyEvent
  <2> QED BY <1>4, <1>6, <1>7, <1>8, <1>9, <1>12, <1>17, <2>1
<1>18. CASE e.type = "TimerScheduled"
  <2>1. ApplyEvent(st, e) =
          S(st.status, st.pending, st.completed, st.waits, st.timers \cup {v})
    BY <1>10, <1>18 DEF ApplyEvent
  <2> QED BY <1>4, <1>6, <1>7, <1>8, <1>9, <1>12, <1>18, <2>1
<1>19. CASE e.type = "SignalWaitStarted"
  <2>1. ApplyEvent(st, e) =
          S(st.status, st.pending, st.completed, st.waits \cup {e.signal}, st.timers)
    BY <1>10, <1>19 DEF ApplyEvent
  <2> QED BY <1>4, <1>6, <1>7, <1>8, <1>9, <1>12, <1>19, <2>1
<1>20. CASE e.type = "SignalReceived"
  <2>1. ApplyEvent(st, e) =
          S(st.status, st.pending, st.completed, st.waits \ {e.signal}, st.timers)
    BY <1>10, <1>20 DEF ApplyEvent
  <2> QED BY <1>4, <1>6, <1>7, <1>8, <1>9, <1>12, <1>20, <2>1
<1>21. CASE e.type \notin {"ActivityScheduled", "ActivityCompleted", "ActivityFailed",
                           "WorkflowCompleted", "WorkflowFailed", "WorkflowCancelled",
                           "TimerScheduled", "SignalWaitStarted", "SignalReceived"}
  <2>1. ApplyEvent(st, e) =
          S(st.status, st.pending, st.completed, st.waits, st.timers)
    BY <1>10, <1>21 DEF ApplyEvent
  <2> QED BY <1>4, <1>6, <1>7, <1>8, <1>9, <1>12, <1>21, <2>1
<1> QED
  BY <1>13, <1>14, <1>15, <1>16, <1>17, <1>18, <1>19, <1>20, <1>21

(* Rehydrating an exact state up to the end of the log is exact.           *)
LEMMA RehydrateExact ==
  ASSUME NEW l \in Seq(Event), NEW st, st.version \in DOMAIN l,
         st = StateAt(l, st.version)
  PROVE  Replay(st, l, Len(l)) = Current(l) /\ Current(l) \in RunStates
         /\ KnownIds(Current(l)) /\ Current(l).version = Len(l)
<1>1. Len(l) \in Nat /\ st.version \in 1 .. Len(l) /\ InitialState.version = 1
      /\ st.version \in Nat
  BY DEF InitialState
<1>2. st = Replay(InitialState, l, st.version) BY DEF StateAt
<1>3. Replay(Replay(InitialState, l, st.version), l, Len(l)) = Replay(InitialState, l, Len(l))
  BY <1>1, InitialStateType, ReplayCompose
<1>4. Current(l) = Replay(InitialState, l, Len(l)) BY DEF Current, StateAt
<1>5. Current(l) \in RunStates /\ KnownIds(Current(l))
  BY <1>1, <1>4, InitialStateType, ReplayType
<1>6. Current(l).version = Len(l) BY <1>4 DEF Replay
<1> QED BY <1>2, <1>3, <1>4, <1>5, <1>6

(* An event applied to the state a log leads to is that event at the end   *)
(* of the log: the turn of the engine's loop.                              *)
LEMMA ReplayStep ==
  ASSUME NEW l \in Seq(Event), Len(l) \in DOMAIN l, NEW e \in Event
  PROVE  StateAt(Append(l, e), Len(l) + 1) = ApplyEvent(StateAt(l, Len(l)), e)
<1> DEFINE n == Len(l)
           m == Append(l, e)
           st == StateAt(l, n)
<1>1. /\ n \in Nat /\ 1 <= n /\ m \in Seq(Event) /\ Len(m) = n + 1
      /\ m[n + 1] = e /\ \A i \in 1 .. n : l[i] = m[i]
  OBVIOUS
<1>2. InitialState \in RunStates /\ KnownIds(InitialState) /\ InitialState.version = 1
  BY InitialStateType DEF InitialState
<1>3. st = Replay(InitialState, m, n)
  <2>1. \A i \in InitialState.version + 1 .. n : l[i] = m[i]
    BY <1>1, <1>2
  <2> HIDE DEF m, n
  <2>2. Replay(InitialState, l, n) = Replay(InitialState, m, n)
    BY <1>1, <1>2, <2>1, ReplayAgree
  <2> QED BY <2>2 DEF StateAt
<1>4. st \in RunStates /\ KnownIds(st) /\ st.version = n
  <2>1. st \in RunStates /\ KnownIds(st)
    BY <1>1, <1>2, ReplayType DEF StateAt
  <2>2. st.version = n
    BY DEF StateAt, Replay
  <2> QED BY <2>1, <2>2
<1>5. Replay(st, m, n + 1) = ApplyEvent(st, e)
  BY <1>1, <1>4, ReplayOne
<1>6. Replay(Replay(InitialState, m, n), m, n + 1) = Replay(InitialState, m, n + 1)
  <2> HIDE DEF m, n
  <2>1. n + 1 \in Nat /\ n <= n + 1 /\ n + 1 <= Len(m) BY <1>1
  <2> QED BY <1>1, <1>2, <2>1, ReplayCompose
<1> QED BY <1>3, <1>5, <1>6 DEF StateAt

(* A longer log leads through the same states.                             *)
LEMMA EarlierState ==
  ASSUME NEW l \in Seq(Event), NEW e \in Event, NEW v \in DOMAIN l
  PROVE  StateAt(Append(l, e), v) = StateAt(l, v)
<1>1. v \in Nat /\ \A i \in 1 .. v : l[i] = Append(l, e)[i]
  OBVIOUS
<1>2. InitialState \in RunStates /\ InitialState.version = 1
  BY InitialStateType DEF InitialState
<1>3. \A i \in InitialState.version + 1 .. v : l[i] = Append(l, e)[i]
  BY <1>1, <1>2
<1>4. Replay(InitialState, l, v) = Replay(InitialState, Append(l, e), v)
  BY <1>1, <1>2, <1>3, ReplayAgree
<1> QED BY <1>4 DEF StateAt

-----------------------------------------------------------------------------
(* What the engine reached is the replay of the log, and so is the         *)
(* snapshot, up to the version at which it was taken.                      *)
EngineInv ==
  /\ applied \in Seq(Event) /\ Len(applied) \in DOMAIN applied
  /\ reached = StateAt(applied, Len(applied))
  /\ kept.version \in DOMAIN applied
  /\ kept = StateAt(applied, kept.version)

(* The engine, started on a first event, has replayed it.                  *)
LEMMA EngineStarts == EngineInit => EngineInv
<1> SUFFICES ASSUME EngineInit PROVE EngineInv
  OBVIOUS
<1>1. InitialState \in RunStates /\ InitialState.version = 1
  BY InitialStateType DEF InitialState
<1>2. WorkflowStarted \in Event
  BY DEF Event, EventWith
<1>3. applied = <<WorkflowStarted>> /\ reached = InitialState /\ kept = InitialState
  BY DEF EngineInit
<1>4. applied \in Seq(Event) /\ Len(applied) = 1 /\ DOMAIN applied = {1}
  BY <1>2, <1>3
<1>5. StateAt(applied, 1) = InitialState
  BY <1>1, ReplayNone DEF StateAt
<1> QED BY <1>1, <1>3, <1>4, <1>5 DEF EngineInv

(* Each turn of the loop, and each snapshot, keeps it so.                  *)
LEMMA EngineStep == EngineInv /\ [EngineNext]_engineVars => EngineInv'
<1> SUFFICES ASSUME EngineInv, [EngineNext]_engineVars PROVE EngineInv'
  OBVIOUS
<1>0. applied \in Seq(Event) /\ Len(applied) \in DOMAIN applied /\ kept.version \in DOMAIN applied
  BY DEF EngineInv
<1>1. CASE Apply
  <2>1. PICK e \in EventWith(DOMAIN applied) :
          applied' = Append(applied, e) /\ reached' = ApplyEvent(reached, e)
    BY <1>1 DEF Apply
  <2>2. e \in Event
    BY <1>0 DEF Event, EventWith
  <2>3. applied' \in Seq(Event) /\ Len(applied') = Len(applied) + 1 /\ Len(applied') \in DOMAIN applied'
        /\ DOMAIN applied \subseteq DOMAIN applied'
    BY <1>0, <2>1, <2>2
  <2>4. reached' = StateAt(applied', Len(applied'))
    BY <1>0, <2>1, <2>2, <2>3, ReplayStep DEF EngineInv
  <2>5. kept' = kept /\ kept = StateAt(applied', kept.version)
    BY <1>0, <1>1, <2>1, <2>2, EarlierState DEF EngineInv, Apply
  <2> QED BY <1>0, <2>3, <2>4, <2>5 DEF EngineInv
<1>2. CASE Snapshot
  <2>1. reached.version = Len(applied)
    BY DEF EngineInv, StateAt, Replay
  <2> QED BY <1>2, <2>1 DEF Snapshot, EngineInv
<1>3. CASE UNCHANGED engineVars
  BY <1>3 DEF engineVars, EngineInv
<1> QED BY <1>1, <1>2, <1>3 DEF EngineNext

(* Replaying a history and replaying the events after a snapshot over it   *)
(* both give what the loop of DefaultWorkflowEngine.replay gives, for      *)
(* every log of any length.                                                *)
THEOREM EngineReplayAgrees == EngineSpec => []ReplayAgrees
<1>1. EngineInv => ReplayAgrees
  BY RehydrateExact DEF EngineInv, ReplayAgrees, Current
<1> QED BY <1>1, EngineStarts, EngineStep, PTL DEF EngineSpec
=============================================================================
