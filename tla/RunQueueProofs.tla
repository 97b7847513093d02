--------------------------- MODULE RunQueueProofs ---------------------------
(***************************************************************************)
(* Proofs about RunQueue, for every build graph, every queue and every     *)
(* number of steps kept running.                                           *)
(*                                                                         *)
(* Exclusive says nothing of two members of the queue that are far apart:  *)
(* no edge joins them.  The inductive invariant carries the argument along *)
(* the chain of edges: InOrder extends by one position each time a member  *)
(* starts, because the edge to its predecessor asks for a success and the  *)
(* predecessor, having started, already has InOrder behind it.             *)
(***************************************************************************)
EXTENDS RunQueue, TLAPS

\* `last` is the step appended last.
LastIsTail == last = IF appended = 0 THEN NoStep ELSE Queue[appended]

\* Each step appended has an edge to the one appended before it.
Chained == \A j \in 2..appended : Queue[j - 1] \in deps[Queue[j]]

\* When build() has returned everything is appended and the queue's step has
\* its edge to the last member.
Linked ==
    phase # "configure" =>
        /\ appended = Len(Queue)
        /\ Len(Queue) > 0 => Queue[Len(Queue)] \in deps[QueueStep]

\* Nothing starts before the runner has its plan.
Idle == phase # "make" => \A s \in Steps : state[s] = "precheck_unstarted"

\* The queue's step starts after every member has succeeded.
QueueStepLast ==
    HasStarted(QueueStep) =>
        \A i \in DOMAIN Queue : state[Queue[i]] = "success"

IInv ==
    /\ TypeOK
    /\ LastIsTail
    /\ Chained
    /\ Linked
    /\ Idle
    /\ InOrder
    /\ QueueStepLast

-----------------------------------------------------------------------------
(* Lemmas.                                                                 *)

\* The members of the queue are steps, and DOMAIN Queue is an interval.
LEMMA QueueFacts ==
    /\ Len(Queue) \in Nat
    /\ DOMAIN Queue = 1..Len(Queue)
    /\ \A i \in 1..Len(Queue) : Queue[i] \in Steps /\ Queue[i] # QueueStep
BY QueueAssumption DEF Members

\* Every step of the specification keeps the type invariant.
LEMMA TypeInductive == TypeOK /\ [Next]_vars => TypeOK'
<1> SUFFICES ASSUME TypeOK, [Next]_vars PROVE TypeOK'
    OBVIOUS
<1>1. CASE AppendNext
    <2>1. Queue[appended + 1] \in Steps /\ appended + 1 \in 0..Len(Queue)
        BY <1>1, QueueFacts DEF TypeOK, AppendNext
    <2> QED BY <1>1, <2>1 DEF TypeOK, AppendNext, Enqueue, DependOn
<1>2. CASE Finalize
    BY <1>2 DEF TypeOK, Finalize, DependOn, Phases
<1>3. CASE Plan
    BY <1>3 DEF TypeOK, Plan, Phases, States
<1>4. ASSUME NEW s \in Steps, StepAction(s) PROVE TypeOK'
    BY <1>4 DEF TypeOK, StepAction, Start, Succeed, Fail, GiveUp, States
<1>5. CASE Done
    BY <1>5 DEF TypeOK, Done, vars
<1>6. CASE UNCHANGED vars
    BY <1>6 DEF TypeOK, vars
<1> QED BY <1>1, <1>2, <1>3, <1>4, <1>5, <1>6 DEF Next

\* When member j of the queue starts, the members before it have all
\* succeeded and those from j on have not started.
LEMMA AtStart ==
    ASSUME IInv, NEW j \in DOMAIN Queue, Start(Queue[j])
    PROVE  /\ \A i \in DOMAIN Queue : i < j => state[Queue[i]] = "success"
           /\ \A k \in DOMAIN Queue : k >= j => ~HasStarted(Queue[k])
<1>1. ~HasStarted(Queue[j])
    BY DEF Start, HasStarted
<1>2. ASSUME NEW i \in DOMAIN Queue, i < j PROVE state[Queue[i]] = "success"
    <2>1. j \in 2..Len(Queue) /\ j - 1 \in DOMAIN Queue
        BY <1>2, QueueFacts
    <2>2. j \in 2..appended
        BY <2>1, QueueFacts DEF IInv, Linked, Start
    <2>3. Queue[j - 1] \in deps[Queue[j]]
        BY <2>2 DEF IInv, Chained
    <2>4. state[Queue[j - 1]] = "success"
        BY <2>3 DEF Start, Ready
    <2>5. i < j - 1 => state[Queue[i]] = "success"
        BY <2>1, <2>4, <1>2 DEF IInv, InOrder, HasStarted
    <2> QED BY <2>4, <2>5, <1>2, QueueFacts
<1>3. ASSUME NEW k \in DOMAIN Queue, k >= j PROVE ~HasStarted(Queue[k])
    <2>1. CASE k = j
        BY <2>1, <1>1
    <2>2. CASE k # j
        <3>1. j < k
            BY <2>2, <1>3, QueueFacts
        <3>2. state[Queue[j]] # "success"
            BY DEF Start
        <3> QED BY <3>1, <3>2 DEF IInv, InOrder
    <2> QED BY <2>1, <2>2
<1> QED BY <1>2, <1>3

-----------------------------------------------------------------------------
(* The invariant.                                                          *)

LEMMA InvInit == Init => IInv
<1> SUFFICES ASSUME Init PROVE IInv
    OBVIOUS
<1>1. TypeOK
    BY QueueFacts, GraphAssumption DEF Init, TypeOK, Phases, States
<1>2. LastIsTail /\ Chained /\ Linked /\ Idle
    BY DEF Init, LastIsTail, Chained, Linked, Idle
<1>3. InOrder /\ QueueStepLast
    BY QueueFacts, QueueAssumption DEF Init, InOrder, QueueStepLast, HasStarted
<1> QED BY <1>1, <1>2, <1>3 DEF IInv

\* `append` extends the chain by one edge and keeps the edges there are.
LEMMA InvAppend == IInv /\ AppendNext => IInv'
<1> SUFFICES ASSUME IInv, AppendNext PROVE IInv'
    OBVIOUS
<1>0. /\ appended \in Nat /\ appended < Len(Queue)
      /\ appended + 1 \in 1..Len(Queue)
      /\ deps \in [Steps -> SUBSET Steps]
      /\ phase = "configure" /\ UNCHANGED <<phase, state>>
      /\ appended' = appended + 1
      /\ last' = Queue[appended + 1]
    BY QueueFacts DEF IInv, TypeOK, AppendNext, Enqueue
<1>1. TypeOK'
    BY TypeInductive DEF IInv, Next
<1>2. LastIsTail'
    BY <1>0 DEF LastIsTail
<1>3. \A s \in Steps : deps[s] \subseteq deps'[s]
    BY <1>0 DEF AppendNext, Enqueue, DependOn
<1>4. Chained'
    <2> SUFFICES ASSUME NEW j \in 2..(appended + 1)
                 PROVE  Queue[j - 1] \in deps'[Queue[j]]
        BY <1>0 DEF Chained
    <2>0. Queue[j] \in Steps /\ Queue[j - 1] \in Steps
        BY <1>0, QueueFacts
    <2>1. CASE j <= appended
        BY <2>0, <2>1, <1>0, <1>3 DEF IInv, Chained
    <2>2. CASE j = appended + 1
        <3>1. last = Queue[j - 1] /\ last # NoStep
            BY <2>0, <2>2, <1>0, QueueAssumption DEF IInv, LastIsTail
        <3> QED BY <3>1, <2>0, <2>2, <1>0 DEF AppendNext, Enqueue, DependOn
    <2> QED BY <2>1, <2>2, <1>0
<1>5. Linked' /\ Idle' /\ InOrder' /\ QueueStepLast'
    BY <1>0 DEF IInv, Linked, Idle, InOrder, QueueStepLast, HasStarted
<1> QED BY <1>1, <1>2, <1>4, <1>5 DEF IInv

\* `finalize` links the queue's step to the last member.
LEMMA InvFinalize == IInv /\ Finalize => IInv'
<1> SUFFICES ASSUME IInv, Finalize PROVE IInv'
    OBVIOUS
<1>0. /\ appended = Len(Queue) /\ deps \in [Steps -> SUBSET Steps]
      /\ UNCHANGED <<appended, last, state>>
      /\ phase = "configure" /\ phase' = "configured"
    BY DEF IInv, TypeOK, Finalize
<1>1. TypeOK'
    BY TypeInductive DEF IInv, Next
<1>2. \A s \in Steps : deps[s] \subseteq deps'[s]
    BY <1>0 DEF Finalize, DependOn
<1>3. Chained'
    <2> SUFFICES ASSUME NEW j \in 2..appended
                 PROVE  Queue[j - 1] \in deps'[Queue[j]]
        BY <1>0 DEF Chained
    <2> QED BY <1>0, <1>2, QueueFacts DEF IInv, Chained
<1>4. Linked'
    <2> SUFFICES ASSUME Len(Queue) > 0
                 PROVE  Queue[Len(Queue)] \in deps'[QueueStep]
        BY <1>0 DEF Linked
    <2>1. last = Queue[Len(Queue)] /\ last # NoStep
        BY <1>0, QueueFacts, QueueAssumption DEF IInv, LastIsTail
    <2> QED BY <2>1, <1>0, QueueAssumption DEF Finalize, DependOn
<1>5. LastIsTail' /\ Idle' /\ InOrder' /\ QueueStepLast'
    BY <1>0 DEF IInv, LastIsTail, Idle, InOrder, QueueStepLast, HasStarted
<1> QED BY <1>1, <1>3, <1>4, <1>5 DEF IInv

LEMMA InvPlan == IInv /\ Plan => IInv'
<1> SUFFICES ASSUME IInv, Plan PROVE IInv'
    OBVIOUS
<1>1. TypeOK'
    BY TypeInductive DEF IInv, Next
<1>2. \A s \in Steps : ~HasStarted(s)'
    BY DEF IInv, Plan, Idle, HasStarted, TypeOK
<1>3. LastIsTail' /\ Chained' /\ Linked' /\ Idle'
    BY DEF IInv, Plan, LastIsTail, Chained, Linked, Idle
<1>4. InOrder' /\ QueueStepLast'
    BY <1>2, QueueFacts, QueueAssumption DEF InOrder, QueueStepLast
<1> QED BY <1>1, <1>3, <1>4 DEF IInv

\* What the runner does to one step.
LEMMA InvStep == ASSUME IInv, NEW s \in Steps, StepAction(s) PROVE IInv'
<1>0. /\ UNCHANGED <<phase, appended, last, deps>>
      /\ state \in [Steps -> States]
      /\ \A t \in Steps : t # s => state'[t] = state[t]
      /\ state[s] # "success"
    BY DEF IInv, TypeOK, StepAction, Start, Succeed, Fail, GiveUp
<1>1. TypeOK'
    BY TypeInductive DEF IInv, Next
<1>2. LastIsTail' /\ Chained' /\ Linked'
    BY <1>0 DEF IInv, LastIsTail, Chained, Linked
<1>3. Idle'
    BY <1>0 DEF IInv, Idle, StepAction, Start, Succeed, Fail, GiveUp
<1>4. \A t \in Steps : state[t] = "success" => state'[t] = "success"
    BY <1>0
<1>5. InOrder'
    <2> SUFFICES ASSUME NEW i \in DOMAIN Queue, NEW j \in DOMAIN Queue,
                        i < j, HasStarted(Queue[j])'
                 PROVE  state'[Queue[i]] = "success"
        BY DEF InOrder
    <2>0. Queue[i] \in Steps /\ Queue[j] \in Steps
        BY QueueFacts
    <2>1. CASE HasStarted(Queue[j])
        BY <2>0, <2>1, <1>4 DEF IInv, InOrder
    <2>2. CASE ~HasStarted(Queue[j])
        <3>1. Queue[j] = s /\ Start(s)
            BY <2>0, <2>2, <1>0 DEF HasStarted, StepAction, Succeed, Fail,
                                    GiveUp, Start
        <3>2. state[Queue[i]] = "success"
            BY <3>1, AtStart
        <3> QED BY <3>2, <2>0, <1>4
    <2> QED BY <2>1, <2>2
<1>6. QueueStepLast'
    <2> SUFFICES ASSUME HasStarted(QueueStep)', NEW i \in DOMAIN Queue
                 PROVE  state'[Queue[i]] = "success"
        BY DEF QueueStepLast
    <2>0. Queue[i] \in Steps /\ QueueStep \in Steps
        BY QueueFacts, QueueAssumption
    <2>1. CASE HasStarted(QueueStep)
        BY <2>0, <2>1, <1>4 DEF IInv, QueueStepLast
    <2>2. CASE ~HasStarted(QueueStep)
        <3>1. QueueStep = s /\ Start(s)
            BY <2>0, <2>2, <1>0 DEF HasStarted, StepAction, Succeed, Fail,
                                    GiveUp, Start
        <3>2. i <= Len(Queue) /\ Len(Queue) \in DOMAIN Queue
            BY QueueFacts
        <3>3. state[Queue[Len(Queue)]] = "success"
            BY <3>1, <3>2, QueueFacts DEF Start, Ready, IInv, Linked
        <3>4. state[Queue[i]] = "success"
            BY <3>2, <3>3, QueueFacts DEF IInv, InOrder, HasStarted
        <3> QED BY <3>4, <2>0, <1>4
    <2> QED BY <2>1, <2>2
<1> QED BY <1>1, <1>2, <1>3, <1>5, <1>6 DEF IInv

LEMMA InvNext == IInv /\ [Next]_vars => IInv'
<1> SUFFICES ASSUME IInv, [Next]_vars PROVE IInv'
    OBVIOUS
<1>1. CASE AppendNext
    BY <1>1, InvAppend
<1>2. CASE Finalize
    BY <1>2, InvFinalize
<1>3. CASE Plan
    BY <1>3, InvPlan
<1>4. ASSUME NEW s \in Steps, StepAction(s) PROVE IInv'
    BY <1>4, InvStep
<1>5. CASE UNCHANGED vars
    BY <1>5 DEF vars, IInv, TypeOK, LastIsTail, Chained, Linked, Idle, InOrder,
                QueueStepLast, HasStarted
<1> QED BY <1>1, <1>2, <1>3, <1>4, <1>5 DEF Next, Done

LEMMA Invariant == Spec => []IInv
BY InvInit, InvNext, PTL DEF Spec

-----------------------------------------------------------------------------
(* The results.                                                            *)

\* The variables of RunQueue keep their types.
THEOREM TypeCorrect == Spec => []TypeOK
<1>1. IInv => TypeOK
    BY DEF IInv
<1> QED BY <1>1, Invariant, PTL

\* A member starts only when all members before it have succeeded.
THEOREM StartsInOrder == Spec => []InOrder
<1>1. IInv => InOrder
    BY DEF IInv
<1> QED BY <1>1, Invariant, PTL

\* No two members of the queue ever run at the same time.
THEOREM NeverTogether == Spec => []Exclusive
<1>1. IInv => Exclusive
    <2> SUFFICES ASSUME IInv, NEW i \in DOMAIN Queue, NEW j \in DOMAIN Queue,
                        state[Queue[i]] = "running", state[Queue[j]] = "running"
                 PROVE  i = j
        BY DEF Exclusive
    <2>1. ~(i < j) /\ ~(j < i)
        BY DEF IInv, InOrder, HasStarted
    <2> QED BY <2>1, QueueFacts
<1> QED BY <1>1, Invariant, PTL

\* When the queue's step succeeds every member has succeeded.
THEOREM QueueStepMeansAll == Spec => []StandsForAll
<1>1. IInv => StandsForAll
    BY DEF IInv, QueueStepLast, StandsForAll, HasStarted
<1> QED BY <1>1, Invariant, PTL
-----------------------------------------------------------------------------
(* RunQueue implements RunInOrder: every step of the build is a step of    *)
(* the abstract queue or leaves it as it is.                               *)

LEMMA RefinesInit == Init => Order!Init
BY QueueFacts DEF Init, Order!Init, InStates

\* A start of member j is Begin(j): nothing of the queue runs or has failed,
\* and what has finished is exactly 1..(j - 1).
LEMMA RefinesStart ==
    ASSUME IInv, NEW j \in DOMAIN Queue, Start(Queue[j])
    PROVE  Order!Begin(j)
<1>0. /\ state \in [Steps -> States] /\ Queue[j] \in Steps
      /\ state' = [state EXCEPT ![Queue[j]] = "running"]
      /\ state[Queue[j]] = "precheck_done"
    BY QueueFacts DEF IInv, TypeOK, Start
<1>1. /\ \A i \in DOMAIN Queue : i < j => state[Queue[i]] = "success"
      /\ \A k \in DOMAIN Queue : k >= j => ~HasStarted(Queue[k])
    BY AtStart
<1>2. \A i \in DOMAIN Queue : i # j => state'[Queue[i]] = state[Queue[i]]
    BY <1>0, QueueFacts, QueueAssumption
<1>3. \A i \in DOMAIN Queue : i < j \/ i >= j
    BY QueueFacts
<1>4. InStates({"running"}) = {} /\ InStates({"failure"}) = {}
    BY <1>1, <1>3 DEF InStates, HasStarted
<1>5. InStates({"success"}) = 1..(j - 1)
    BY <1>1, <1>3, QueueFacts DEF InStates, HasStarted
<1>6. InStates({"running"})' = {j}
    BY <1>0, <1>2, <1>4 DEF InStates
<1>7. UNCHANGED InStates({"success"}) /\ UNCHANGED InStates({"failure"})
    BY <1>0, <1>2 DEF InStates
<1> QED BY <1>4, <1>5, <1>6, <1>7 DEF Order!Begin

\* While member j runs, no other member does and none has failed.
LEMMA AtEnd ==
    ASSUME IInv, NEW j \in DOMAIN Queue, state[Queue[j]] = "running"
    PROVE  InStates({"running"}) = {j} /\ InStates({"failure"}) = {}
<1>1. \A i \in DOMAIN Queue : i # j => state[Queue[i]] \notin {"running", "failure"}
    <2> SUFFICES ASSUME NEW i \in DOMAIN Queue, i # j
                 PROVE  state[Queue[i]] \notin {"running", "failure"}
        OBVIOUS
    <2>1. CASE i < j
        BY <2>1 DEF IInv, InOrder, HasStarted
    <2>2. CASE j < i
        BY <2>2 DEF IInv, InOrder, HasStarted
    <2> QED BY <2>1, <2>2, QueueFacts
<1> QED BY <1>1 DEF InStates

\* The end of member j is Succeed(j) or Fail(j).
LEMMA RefinesEnd ==
    ASSUME IInv, NEW j \in DOMAIN Queue, Succeed(Queue[j]) \/ Fail(Queue[j])
    PROVE  Order!Succeed(j) \/ Order!Fail(j)
<1>0. /\ state \in [Steps -> States] /\ Queue[j] \in Steps
      /\ state[Queue[j]] = "running"
    BY QueueFacts DEF IInv, TypeOK, Succeed, Fail
<1>1. InStates({"running"}) = {j} /\ InStates({"failure"}) = {}
    BY <1>0, AtEnd
<1>2. \A i \in DOMAIN Queue : i # j => state'[Queue[i]] = state[Queue[i]]
    BY <1>0, QueueFacts, QueueAssumption DEF Succeed, Fail
<1>3. CASE Succeed(Queue[j])
    <2>1. state'[Queue[j]] = "success"
        BY <1>0, <1>3 DEF Succeed
    <2>2. InStates({"running"})' = {} /\ InStates({"failure"})' = {}
        BY <1>1, <1>2, <2>1 DEF InStates
    <2>3. InStates({"success"})' = InStates({"success"}) \cup {j}
        BY <1>2, <2>1 DEF InStates
    <2> QED BY <1>1, <2>2, <2>3 DEF Order!Succeed
<1>4. CASE Fail(Queue[j])
    <2>1. state'[Queue[j]] = "failure"
        BY <1>0, <1>4 DEF Fail
    <2>2. InStates({"running"})' = {} /\ InStates({"failure"})' = {j}
        BY <1>1, <1>2, <2>1 DEF InStates
    <2>3. InStates({"success"})' = InStates({"success"})
        BY <1>0, <1>2, <2>1 DEF InStates
    <2> QED BY <1>1, <2>2, <2>3 DEF Order!Fail
<1> QED BY <1>3, <1>4

\* A step of the build that changes no member between running, success and
\* failure leaves the abstract queue as it is.
LEMMA RefinesStutter ==
    ASSUME \A i \in DOMAIN Queue :
               \/ state'[Queue[i]] = state[Queue[i]]
               \/ ~HasStarted(Queue[i]) /\ ~HasStarted(Queue[i])'
    PROVE  UNCHANGED Order!vars
BY DEF Order!vars, InStates, HasStarted

LEMMA RefinesStep ==
    ASSUME IInv, NEW s \in Steps, StepAction(s)
    PROVE  [Order!Next]_(Order!vars)
<1>0. /\ state \in [Steps -> States]
      /\ \A t \in Steps : t # s => state'[t] = state[t]
    BY DEF IInv, TypeOK, StepAction, Start, Succeed, Fail, GiveUp
<1>1. CASE \A i \in DOMAIN Queue : Queue[i] # s
    <2>1. \A i \in DOMAIN Queue : state'[Queue[i]] = state[Queue[i]]
        BY <1>0, <1>1, QueueFacts
    <2> QED BY <2>1, RefinesStutter
<1>2. ASSUME NEW j \in DOMAIN Queue, Queue[j] = s PROVE [Order!Next]_(Order!vars)
    <2>1. j \in 1..Len(Queue)
        BY QueueFacts
    <2>2. CASE Start(s)
        BY <1>2, <2>1, <2>2, RefinesStart DEF Order!Next, Order!Jobs
    <2>3. CASE Succeed(s) \/ Fail(s)
        BY <1>2, <2>1, <2>3, RefinesEnd DEF Order!Next, Order!Jobs
    <2>4. CASE GiveUp(s)
        <3>1. ~HasStarted(s) /\ ~HasStarted(s)'
            BY <2>4, <1>0 DEF GiveUp, HasStarted
        <3>2. \A i \in DOMAIN Queue :
                  \/ state'[Queue[i]] = state[Queue[i]]
                  \/ ~HasStarted(Queue[i]) /\ ~HasStarted(Queue[i])'
            BY <1>0, <3>1, QueueFacts DEF HasStarted
        <3> QED BY <3>2, RefinesStutter
    <2> QED BY <2>2, <2>3, <2>4 DEF StepAction
<1> QED BY <1>1, <1>2

LEMMA RefinesNext == IInv /\ [Next]_vars => [Order!Next]_(Order!vars)
<1> SUFFICES ASSUME IInv, [Next]_vars PROVE [Order!Next]_(Order!vars)
    OBVIOUS
<1>1. ASSUME UNCHANGED state PROVE UNCHANGED Order!vars
    BY <1>1, RefinesStutter
<1>2. CASE AppendNext \/ Finalize \/ Done
    BY <1>1, <1>2 DEF AppendNext, Finalize, Done, vars
<1>3. CASE Plan
    <2>1. \A i \in DOMAIN Queue :
              ~HasStarted(Queue[i]) /\ ~HasStarted(Queue[i])'
        BY <1>3, QueueFacts DEF IInv, Idle, Plan, HasStarted
    <2> QED BY <2>1, RefinesStutter
<1>4. ASSUME NEW s \in Steps, StepAction(s) PROVE [Order!Next]_(Order!vars)
    BY <1>4, RefinesStep
<1>5. CASE UNCHANGED vars
    BY <1>1, <1>5 DEF vars
<1> QED BY <1>2, <1>3, <1>4, <1>5 DEF Next

\* The dependency edges keep the promise of the queue: one at a time, in the
\* order of the calls to append, and nothing after a failure.
THEOREM QueueImplementsOrder == Spec => RunsInOrder
<1>1. Init /\ [][Next]_vars /\ []IInv => Order!Init /\ [][Order!Next]_(Order!vars)
    BY RefinesInit, RefinesNext, PTL
<1> QED BY <1>1, Invariant, PTL DEF Spec, RunsInOrder, Order!Spec
=============================================================================
