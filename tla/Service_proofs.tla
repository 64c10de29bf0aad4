--------------------------- MODULE Service_proofs ---------------------------
(***************************************************************************)
(* Proofs about the MCP service for any number of calls, threads, slots,   *)
(* names, contents, publications per call and failures.                    *)
(***************************************************************************)
EXTENDS Service, FiniteSetTheorems, SequenceTheorems, TLAPS

Futures == {"none", "pending", "running", "done", "cancelled", "lost"}
Clients == {"new", "busy", "waiting", "insisting", "answered", "cancelled", "abandoned", "lost"}

\* The executor's own invariant: the slots are exact because a call that was not
\* submitted has no future, and because a service that is down has no callback.
Slots ==
  /\ ExecutorTypeOK
  /\ SlotsAreExact
  /\ \A c \in Calls : client[c] = "new" => future[c] = "none"
  /\ service = "down" => Unfinished = {}

\* Any part of the calls is a finite set.
LEMMA CallsAreFinite ==
  ASSUME NEW S \in SUBSET Calls
  PROVE  IsFiniteSet(S) /\ Cardinality(S) \in Nat
BY FS_Subset, FS_CardinalityType, ExecutorAssumption

LEMMA CardinalityOfDifference ==
  ASSUME NEW S, IsFiniteSet(S), NEW T \in SUBSET S
  PROVE  Cardinality(S \ T) = Cardinality(S) - Cardinality(T)
<1>1. S \cap T = T
  OBVIOUS
<1>2. Cardinality(S \ T) = Cardinality(S) - Cardinality(S \cap T)
  BY FS_Difference
<1> QED BY <1>1, <1>2

LEMMA SubmitSlots ==
  ASSUME Slots, NEW c \in Calls, Submit(c)
  PROVE  Slots'
<1>1. CASE admission = 0
  BY <1>1 DEF Slots, Submit, ExecutorTypeOK, SlotsAreExact, Unfinished
<1>2. CASE admission # 0
  <2>1. future[c] = "none" /\ c \notin Unfinished
    BY DEF Slots, Submit, Unfinished
  <2>2. future' = [future EXCEPT ![c] = "pending"] /\ admission' = admission - 1
    BY <1>2 DEF Submit
  <2>3. Unfinished' = Unfinished \cup {c}
    BY <2>2 DEF Unfinished, Slots, ExecutorTypeOK
  <2>4. Cardinality(Unfinished') = Cardinality(Unfinished) + 1
    BY <2>1, <2>3, CallsAreFinite, FS_AddElement DEF Unfinished
  <2>5. SlotsAreExact'
    BY <2>2, <2>4, CallsAreFinite, ExecutorAssumption
       DEF SlotsAreExact, Slots, ExecutorTypeOK, Unfinished
  <2>6. ExecutorTypeOK'
    BY SMTT(30), <1>2, ExecutorAssumption DEF Slots, Submit, ExecutorTypeOK
  <2> QED BY <1>2, <2>5, <2>6 DEF Slots, Submit, ExecutorTypeOK
<1> QED BY <1>1, <1>2

\* Giving one slot back when one call ends keeps the slots exact.
LEMMA SlotGivenBack ==
  ASSUME Slots, NEW c \in Unfinished, NEW f \in Futures \ {"pending", "running"},
         future' = [future EXCEPT ![c] = f], admission' = admission + 1
  PROVE  SlotsAreExact' /\ admission' \in 0..Limit
<1>1. c \in Calls /\ future \in [Calls -> Futures] /\ admission \in 0..Limit /\ Limit \in Nat
  BY ExecutorAssumption DEF Unfinished, Slots, ExecutorTypeOK, Futures
<1>2. Unfinished' = Unfinished \ {c}
  BY <1>1 DEF Unfinished
<1>3. Cardinality(Unfinished') = Cardinality(Unfinished) - 1
  BY <1>2, CallsAreFinite, FS_RemoveElement DEF Unfinished
<1>4. SlotsAreExact'
  BY <1>1, <1>3, CallsAreFinite DEF SlotsAreExact, Slots, Unfinished
<1>5. Cardinality(Unfinished') \in Nat
  BY <1>1, CallsAreFinite DEF Unfinished
<1> QED BY <1>1, <1>4, <1>5 DEF SlotsAreExact

\* When no future starts or ends, the slots stay as they are.
LEMMA SlotsUntouched ==
  ASSUME Slots, UNCHANGED admission, Unfinished' = Unfinished
  PROVE  SlotsAreExact'
BY DEF Slots, SlotsAreExact

LEMMA CancelSlots ==
  ASSUME Slots, NEW c \in Calls, Cancel(c)
  PROVE  Slots'
<1>1. CASE future[c] = "pending"
  <2>1. SlotsAreExact' /\ admission' \in 0..Limit
    BY <1>1, SlotGivenBack DEF Cancel, Unfinished, Futures
  <2>2. ExecutorTypeOK'
    BY <1>1, <2>1 DEF Slots, Cancel, ExecutorTypeOK
  <2> QED BY <1>1, <2>1, <2>2 DEF Slots, Cancel, ExecutorTypeOK, Unfinished
<1>2. CASE future[c] # "pending"
  <2>1. Unfinished' = Unfinished
    BY <1>2 DEF Cancel, Unfinished
  <2>2. ExecutorTypeOK'
    BY <1>2 DEF Slots, Cancel, ExecutorTypeOK
  <2> QED BY <1>2, <2>1, <2>2, SlotsUntouched DEF Slots, Cancel, ExecutorTypeOK
<1> QED BY <1>1, <1>2

LEMMA ReturnSlots ==
  ASSUME Slots, NEW c \in Calls, Return(c)
  PROVE  Slots'
<1>1. SlotsAreExact' /\ admission' \in 0..Limit
  BY SlotGivenBack DEF Return, Unfinished, Futures
<1>2. ExecutorTypeOK'
  BY <1>1 DEF Slots, Return, ExecutorTypeOK
<1> QED BY <1>1, <1>2 DEF Slots, Return, ExecutorTypeOK, Unfinished

LEMMA TakeSlots ==
  ASSUME Slots, Take
  PROVE  Slots'
<1>1. queue \in Seq(Calls) /\ queue # <<>> /\ Head(queue) \in Calls /\ Tail(queue) \in Seq(Calls)
  BY DEF Slots, ExecutorTypeOK, Take
<1>2. Unfinished' = Unfinished
  BY <1>1 DEF Slots, ExecutorTypeOK, Take, Unfinished
<1>3. ExecutorTypeOK'
  BY <1>1 DEF Slots, ExecutorTypeOK, Take
<1> QED BY <1>1, <1>2, <1>3, SlotsUntouched DEF Slots, Take, ExecutorTypeOK

\* A shutdown gives the slots of all queued calls back at once.
LEMMA ShutdownSlots ==
  ASSUME Slots, Shutdown
  PROVE  Slots'
<1> DEFINE queued == {c \in Calls : future[c] = "pending"}
<1>1. Unfinished' = Unfinished \ queued
  BY DEF Shutdown, Unfinished, Slots, ExecutorTypeOK
<1>2. queued \in SUBSET Unfinished /\ IsFiniteSet(Unfinished)
  BY CallsAreFinite DEF Unfinished
<1>3. Cardinality(Unfinished') = Cardinality(Unfinished) - Cardinality(queued)
  <2> HIDE DEF queued
  <2>1. Cardinality(Unfinished \ queued) = Cardinality(Unfinished) - Cardinality(queued)
    BY <1>2, CardinalityOfDifference
  <2> QED BY <1>1, <2>1
<1>4. Cardinality(queued) \in Nat /\ Cardinality(Unfinished) \in Nat /\ Cardinality(Unfinished') \in Nat
  BY CallsAreFinite DEF Unfinished
<1>5. admission' = admission + Cardinality(queued) /\ admission \in Nat /\ Limit \in Nat
  BY ExecutorAssumption DEF Shutdown, Slots, ExecutorTypeOK
<1> HIDE DEF queued
<1>6. SlotsAreExact' /\ admission' \in 0..Limit
  BY <1>3, <1>4, <1>5 DEF SlotsAreExact, Slots
<1>7. ExecutorTypeOK'
  BY <1>6 DEF Shutdown, Slots, ExecutorTypeOK
<1> QED BY <1>6, <1>7 DEF Shutdown, Slots, ExecutorTypeOK

LEMMA ExecutorLostSlots ==
  ASSUME Slots, ExecutorLost
  PROVE  Slots'
<1>1. Unfinished' = {}
  BY DEF ExecutorLost, Unfinished, Slots, ExecutorTypeOK
<1>2. SlotsAreExact'
  BY <1>1, FS_EmptySet, ExecutorAssumption DEF ExecutorLost, SlotsAreExact
<1>3. ExecutorTypeOK'
  BY ExecutorAssumption DEF ExecutorLost, Slots, ExecutorTypeOK
<1> QED BY <1>1, <1>2, <1>3 DEF ExecutorLost, Slots, ExecutorTypeOK, Awaiting, Unfinished

\* The operations that move neither a future nor a slot.
LEMMA QuietSlots ==
  ASSUME Slots,
         \/ \E c \in Calls : CancelAgain(c) \/ Deliver(c)
         \/ Exit \/ Restart
         \/ UNCHANGED executor
  PROVE  Slots'
<1>1. ASSUME NEW c \in Calls, CancelAgain(c) \/ Deliver(c) PROVE Slots'
  BY <1>1 DEF CancelAgain, Deliver, Slots, ExecutorTypeOK, SlotsAreExact, Unfinished
<1>2. CASE Exit
  BY <1>2 DEF Exit, Slots, ExecutorTypeOK, SlotsAreExact, Unfinished
<1>3. CASE Restart
  <2>1. Unfinished' = {} /\ Unfinished = {}
    BY <1>3 DEF Restart, Slots, Unfinished
  <2>2. SlotsAreExact'
    BY <1>3, <2>1, FS_EmptySet, ExecutorAssumption DEF Restart, SlotsAreExact
  <2> QED BY <1>3, <2>1, <2>2, ExecutorAssumption DEF Restart, Slots, ExecutorTypeOK
<1>4. CASE UNCHANGED executor
  BY <1>4 DEF executor, Slots, ExecutorTypeOK, SlotsAreExact, Unfinished
<1> QED BY <1>1, <1>2, <1>3, <1>4

LEMMA SlotsInitially == Init => Slots
<1> SUFFICES ASSUME ExecutorInit PROVE Slots
  BY DEF Init
<1>1. Unfinished = {}
  BY DEF ExecutorInit, Unfinished
<1>2. SlotsAreExact
  BY <1>1, FS_EmptySet, ExecutorAssumption DEF ExecutorInit, SlotsAreExact
<1> QED BY <1>1, <1>2, ExecutorAssumption DEF ExecutorInit, Slots, ExecutorTypeOK

LEMMA SlotsStep == Slots /\ [Next]_vars => Slots'
<1> SUFFICES ASSUME Slots, [Next]_vars PROVE Slots'
  OBVIOUS
<1>1. CASE StartCallback
  BY <1>1, TakeSlots DEF StartCallback
<1>2. ASSUME NEW c \in Calls, Submit(c) \/ Cancel(c) \/ CancelAgain(c) \/ Deliver(c)
      PROVE  Slots'
  BY <1>2, SubmitSlots, CancelSlots, QuietSlots
<1>3. ASSUME NEW c \in Calls, Callback(c)
      PROVE  Slots'
  <2>1. CASE EndCallback(c)
    BY <2>1, ReturnSlots DEF EndCallback
  <2>2. CASE ~ EndCallback(c)
    <3>1. UNCHANGED executor
      BY <1>3, <2>2 DEF Callback, Checkpoint, Select, Link, SyncLink, Cleanup, AcceptReference,
                        Recheck, Lock, Compose, Replace, Settle
    <3> QED BY <3>1, QuietSlots
  <2> QED BY <2>1, <2>2
<1>4. ASSUME NEW c \in Calls, Fail(c) \/ Cleanup(c, FALSE)
      PROVE  Slots'
  BY <1>4, QuietSlots DEF Fail, Cleanup
<1>5. CASE Elsewhere /\ (Shutdown \/ Exit \/ Restart)
  BY <1>5, ShutdownSlots, QuietSlots
<1>6. CASE Die \/ PowerLoss
  BY <1>6, ExecutorLostSlots DEF Die, PowerLoss
<1>7. CASE UNCHANGED vars
  BY <1>7, QuietSlots DEF vars
<1> QED BY <1>1, <1>2, <1>3, <1>4, <1>5, <1>6, <1>7 DEF Next

\* However calls are submitted, cancelled, left or lost, the free slots and the
\* unfinished callbacks add up to the limit (BoundedExecutor, mcp/execution.py:511).
THEOREM ExactSlots == Spec => []SlotsAreExact
<1>1. Slots => SlotsAreExact
  BY DEF Slots
<1> QED BY <1>1, SlotsInitially, SlotsStep, PTL DEF Spec
-----------------------------------------------------------------------------
Surfaces == {"immutable_artifact", "ledger"}
Deciding == {"checkpoint", "selecting", "linking", "rechecking"}
Publishing == {"selecting", "linking", "syncing", "accepting", "rechecking"}
Steps == {"none", "returning", "cleaning", "checkpoint"} \cup Publishing \cup Refreshing
Results == {"nothing yet", "result", "error", "cancelled"}

CallbackTypeOK ==
  /\ todo \in [Calls -> Seq(Publications) \ {<<>>}]
  /\ step \in [Calls -> Steps]
  /\ surfaces \in [Calls -> SUBSET Surfaces]
  /\ did \in [Calls -> SUBSET Surfaces]
  /\ said \in [Calls -> Results]

\* A call none of whose effects has begun.
Untouched(c) ==
  said[c] = "nothing yet" /\ c \notin created /\ surfaces[c] = {} /\ did[c] = {}

\* How far a call is in the executor, and how far its callback is.
Stage(c) ==
  /\ step[c] # "none" => future[c] = "running"
  /\ future[c] \in {"none", "pending", "cancelled"} => Untouched(c)
  /\ step[c] = "checkpoint" => Untouched(c)
  /\ step[c] \in Publishing => said[c] = "nothing yet"
  /\ step[c] = "cleaning" => said[c] # "cancelled"
  /\ client[c] = "answered" => future[c] = "done"
  /\ client[c] = "cancelled" => future[c] = "cancelled"

\* What a call has changed is what it has collected for its result and, until its
\* reference is accepted, the file it has linked.
Honest(c) ==
  /\ said[c] = "nothing yet" => did[c] = surfaces[c] \cup Created(c)
  /\ said[c] = "result" => did[c] = surfaces[c]
  /\ said[c] = "cancelled" => did[c] = {}
  /\ step[c] \in Deciding => c \notin created

Told == Slots /\ CallbackTypeOK /\ \A c \in Calls : Stage(c) /\ Honest(c)

LEMMA ToldInitially == Init => Told
BY ZenonT(40), SlotsInitially, ServiceAssumption
   DEF Init, ExecutorInit, Told, CallbackTypeOK, Stage, Honest, Created, Untouched, Steps,
       Results, Publishing, Deciding

\* What does not concern a call leaves it as it is.
LEMMA ToldElsewhere ==
  ASSUME Told, NEW c \in Calls,
         step'[c] = step[c], said'[c] = said[c], surfaces'[c] = surfaces[c], did'[c] = did[c],
         c \in created' <=> c \in created,
         future'[c] = future[c], client'[c] = client[c]
  PROVE  Stage(c)' /\ Honest(c)'
BY DEF Told, Stage, Honest, Untouched, Created

\* One step of one callback moves that call only.
LEMMA ToldHere ==
  ASSUME Told, NEW c \in Calls, Slots', CallbackTypeOK', Stage(c)', Honest(c)',
         \A d \in Calls \ {c} :
           /\ step'[d] = step[d] /\ said'[d] = said[d]
           /\ surfaces'[d] = surfaces[d] /\ did'[d] = did[d]
           /\ d \in created' <=> d \in created
           /\ future'[d] = future[d] /\ client'[d] = client[d]
  PROVE  Told'
<1>1. ASSUME NEW d \in Calls \ {c}
      PROVE  Stage(d)' /\ Honest(d)'
  BY ToldElsewhere
<1> QED BY <1>1 DEF Told

\* The functions of the callbacks, their domains and their ranges.
LEMMA Typed ==
  ASSUME Told, NEW c \in Calls
  PROVE  /\ todo[c] \in Seq(Publications) /\ todo[c] # <<>> /\ Head(todo[c]) \in Publications
         /\ step[c] \in Steps /\ said[c] \in Results
         /\ surfaces[c] \subseteq Surfaces /\ did[c] \subseteq Surfaces /\ Created(c) \subseteq Surfaces
BY DEF Told, CallbackTypeOK, Created, Surfaces

LEMMA TailOfLonger ==
  ASSUME NEW S, NEW s \in Seq(S), Len(s) > 1
  PROVE  Tail(s) \in Seq(S) /\ Tail(s) # <<>>
<1>1. s # <<>>
  BY EmptySeq
<1>2. Tail(s) \in Seq(S) /\ Len(Tail(s)) = Len(s) - 1 /\ Len(s) \in Nat
  BY <1>1, HeadTailProperties
<1>3. Len(Tail(s)) # 0
  BY <1>2
<1> QED BY <1>2, <1>3, EmptySeq

LEMMA ToldStarted ==
  ASSUME Told, Slots', NEW c \in Calls, Checkpoint(c) \/ Select(c) \/ Recheck(c)
  PROVE  Told'
<1> USE Typed, ToldHere
<1>1. CASE Checkpoint(c)
  <2>1. CallbackTypeOK'
    BY <1>1 DEF Checkpoint, Goto, Say, First, Told, CallbackTypeOK, Steps, Publishing, Results
  <2>2. Stage(c)' /\ Honest(c)'
    BY ZenonT(40), <1>1 DEF Checkpoint, Goto, Say, First, Told, CallbackTypeOK, Steps, Publishing, Results,
                Stage, Honest, Deciding, Untouched, Created, executor, artifacts, view, counters
  <2> QED BY <1>1, <2>1, <2>2 DEF Checkpoint, Goto, Say, Told, CallbackTypeOK, executor
<1>2. CASE Select(c)
  <2>1. todo' \in [Calls -> Seq(Publications) \ {<<>>}]
    <3> DEFINE kept == [kind |-> "collision", name |-> Head(todo[c]).other,
                        bytes |-> Head(todo[c]).bytes, other |-> Head(todo[c]).other]
    <3>1. kept \in Publications
      BY DEF Publications, Kinds
    <3>2. <<kept>> \in Seq(Publications) \ {<<>>}
      BY <3>1
    <3>3. todo' = todo \/ todo' = [todo EXCEPT ![c] = <<kept>>]
      BY <1>2 DEF Select
    <3> HIDE DEF kept
    <3> QED BY <3>2, <3>3 DEF Told, CallbackTypeOK
  <2>2. CallbackTypeOK'
    BY <1>2, <2>1 DEF Select, Goto, Told, CallbackTypeOK, Steps, Publishing, Results
  <2>3. Stage(c)' /\ Honest(c)'
    BY <1>2 DEF Select, Goto, Told, CallbackTypeOK, Steps, Publishing, Results,
                Stage, Honest, Deciding, Untouched, Created, executor, artifacts, view, counters
  <2> QED BY <1>2, <2>2, <2>3 DEF Select, Goto, Told, CallbackTypeOK, executor
<1>3. CASE Recheck(c)
  <2>1. todo' \in [Calls -> Seq(Publications) \ {<<>>}]
    <3>1. Len(todo[c]) > 1 => Tail(todo[c]) \in Seq(Publications) \ {<<>>}
      BY TailOfLonger
    <3> QED BY <1>3, <3>1 DEF Recheck, Told, CallbackTypeOK
  <2>2. \E target \in {"selecting", "linking", "locking", "returning"} :
          /\ step' = [step EXCEPT ![c] = target]
          /\ IF target \in {"selecting", "linking"} THEN UNCHANGED said
                                                   ELSE said' = [said EXCEPT ![c] = "result"]
    BY <1>3 DEF Recheck, Goto, Say, First, Final
  <2>3. step[c] = "rechecking" /\ UNCHANGED <<executor, created, surfaces, did>>
    BY <1>3 DEF Recheck
  <2>4. CallbackTypeOK'
    BY <2>1, <2>2, <2>3 DEF Told, CallbackTypeOK, Steps, Publishing, Refreshing, Results
  <2>5. Stage(c)' /\ Honest(c)'
    <3>1. /\ step[c] = "rechecking" /\ step'[c] \in {"selecting", "linking", "locking", "returning"}
          /\ IF step'[c] \in {"selecting", "linking"} THEN UNCHANGED said ELSE said'[c] = "result"
          /\ UNCHANGED <<future, client, created, surfaces, did>>
      BY <2>2, <2>3 DEF Told, CallbackTypeOK, executor
    <3> QED BY <3>1 DEF Told, Publishing, Stage, Honest, Deciding, Untouched, Created
  <2> QED BY <2>2, <2>3, <2>4, <2>5 DEF Told, CallbackTypeOK, executor
<1> QED BY <1>1, <1>2, <1>3

LEMMA ToldPublished ==
  ASSUME Told, Slots', NEW c \in Calls,
         Link(c) \/ SyncLink(c) \/ (\E synced \in BOOLEAN : Cleanup(c, synced)) \/ AcceptReference(c)
  PROVE  Told'
<1> USE Typed, ToldHere
<1>1. ASSUME Link(c), CanLink(Head(todo[c]).name)
      PROVE  Told'
  <2>1. /\ step[c] = "linking" /\ created' = created \cup {c}
        /\ did' = [did EXCEPT ![c] = @ \cup {"immutable_artifact"}]
        /\ step' = [step EXCEPT ![c] = "syncing"]
        /\ UNCHANGED <<executor, todo, surfaces, said>>
    BY <1>1 DEF Link, Goto, Did
  <2>2. CallbackTypeOK'
    BY <2>1 DEF Told, CallbackTypeOK, Steps, Publishing, Surfaces
  <2>3. Stage(c)' /\ Honest(c)'
    BY <2>1 DEF Told, CallbackTypeOK, Publishing, Stage, Honest, Deciding, Untouched, Created,
                executor
  <2> QED BY <2>1, <2>2, <2>3 DEF Told, CallbackTypeOK, executor
<1>5. ASSUME Link(c), ~ CanLink(Head(todo[c]).name)
      PROVE  Told'
  <2>1. /\ step[c] = "linking" /\ step' = [step EXCEPT ![c] = "cleaning"]
        /\ said' = said \/ said' = [said EXCEPT ![c] = "error"]
        /\ UNCHANGED <<executor, todo, created, surfaces, did>>
    BY <1>5 DEF Link, Goto, Say
  <2>2. CallbackTypeOK'
    BY <2>1 DEF Told, CallbackTypeOK, Steps, Results
  <2>3. Stage(c)' /\ Honest(c)'
    BY <2>1 DEF Told, CallbackTypeOK, Publishing, Stage, Honest, Deciding, Untouched, Created,
                executor
  <2> QED BY <2>1, <2>2, <2>3 DEF Told, CallbackTypeOK, executor
<1>2. CASE SyncLink(c)
  <2>1. CallbackTypeOK'
    BY <1>2 DEF SyncLink, Goto, Told, CallbackTypeOK, Steps, Publishing
  <2>2. Stage(c)' /\ Honest(c)'
    BY <1>2 DEF SyncLink, Goto, Told, CallbackTypeOK, Steps, Publishing, Results,
                Stage, Honest, Deciding, Untouched, Created, executor, view, counters
  <2> QED BY <1>2, <2>1, <2>2 DEF SyncLink, Goto, Told, CallbackTypeOK, executor
<1>3. ASSUME NEW synced \in BOOLEAN, Cleanup(c, synced)
      PROVE  Told'
  <2>1. said[c] \in {"nothing yet", "result", "error"}
    BY <1>3 DEF Cleanup, Told, Stage, Results
  <2>2. \E target \in {"accepting", "returning", "locking"} :
          /\ Goto(c, target)
          /\ target = "accepting" => said[c] = "nothing yet"
    BY <1>3, <2>1 DEF Cleanup, Final
  <2>3. CallbackTypeOK'
    BY <1>3, <2>2 DEF Cleanup, Goto, Told, CallbackTypeOK, Steps, Publishing, Refreshing
  <2>4. Stage(c)' /\ Honest(c)'
    BY <1>3, <2>2 DEF Cleanup, Goto, Told, CallbackTypeOK, Steps, Publishing, Results,
                      Stage, Honest, Deciding, Untouched, Created, executor, view, counters
  <2> QED BY <1>3, <2>2, <2>3, <2>4 DEF Cleanup, Goto, Told, CallbackTypeOK, executor
<1>4. CASE AcceptReference(c)
  <2> DEFINE changes == IF reference[Head(todo[c]).name] = NoFile THEN {"ledger"} ELSE {}
  <2>1. CASE Acceptable(Head(todo[c]).name, Head(todo[c]).bytes)
    <3>1. /\ step[c] = "accepting" /\ created' = created \ {c}
          /\ did' = [did EXCEPT ![c] = @ \cup changes]
          /\ surfaces' = [surfaces EXCEPT ![c] = @ \cup (changes \cup Created(c))]
          /\ UNCHANGED <<executor, todo>>
      BY <1>4, <2>1 DEF AcceptReference, Did, Report
    <3>2. \E target \in {"locking", "returning", "rechecking"} :
            /\ step' = [step EXCEPT ![c] = target]
            /\ IF target = "rechecking" THEN UNCHANGED said
                                        ELSE said' = [said EXCEPT ![c] = "result"]
      BY <1>4, <2>1 DEF AcceptReference, Accepted, Goto, Say, Final
    <3>3. changes \subseteq Surfaces
      BY DEF Surfaces
    <3> HIDE DEF changes
    <3>4. CallbackTypeOK'
      BY <3>1, <3>2, <3>3 DEF Told, CallbackTypeOK, Steps, Publishing, Refreshing, Results
    <3>5. Stage(c)' /\ Honest(c)'
      BY ZenonT(40), <3>1, <3>2 DEF Told, CallbackTypeOK, Publishing, Stage, Honest, Deciding, Untouched,
                        Created, executor
    <3> QED BY <3>1, <3>2, <3>4, <3>5 DEF Told, CallbackTypeOK, executor
  <2>2. CASE ~ Acceptable(Head(todo[c]).name, Head(todo[c]).bytes)
    <3>1. /\ step[c] = "accepting" /\ step' = [step EXCEPT ![c] = "returning"]
          /\ said' = [said EXCEPT ![c] = "error"]
          /\ UNCHANGED <<executor, todo, created, surfaces, did>>
      BY <1>4, <2>2 DEF AcceptReference, Goto, Say
    <3>2. CallbackTypeOK'
      BY <3>1 DEF Told, CallbackTypeOK, Steps, Results
    <3>3. Stage(c)' /\ Honest(c)'
      BY <3>1 DEF Told, CallbackTypeOK, Publishing, Stage, Honest, Deciding, Untouched, Created,
                  executor
    <3> QED BY <3>1, <3>2, <3>3 DEF Told, CallbackTypeOK, executor
  <2> QED BY <2>1, <2>2
<1> QED BY <1>1, <1>2, <1>3, <1>4, <1>5

LEMMA ToldRefreshed ==
  ASSUME Told, Slots', NEW c \in Calls,
         Lock(c) \/ Compose(c) \/ Replace(c) \/ Settle(c) \/ EndCallback(c)
  PROVE  Told'
<1> USE Typed, ToldHere
<1>1. CASE EndCallback(c)
  <2>1. CallbackTypeOK'
    BY <1>1 DEF EndCallback, Goto, Told, CallbackTypeOK, Steps
  <2>2. Stage(c)' /\ Honest(c)'
    <3>1. /\ step'[c] = "none" /\ future'[c] = "done"
          /\ UNCHANGED <<client, created, surfaces, did, said>>
          /\ future[c] = "running"
      BY <1>1 DEF EndCallback, Return, Goto, Told, Slots, ExecutorTypeOK, CallbackTypeOK
    <3> QED BY <3>1 DEF Told, Publishing, Stage, Honest, Deciding, Untouched, Created
  <2> QED BY <1>1, <2>1, <2>2
          DEF EndCallback, Return, Goto, Told, Slots, ExecutorTypeOK, CallbackTypeOK
<1>2. CASE ~ EndCallback(c)
  <2>1. \E target \in {"composing", "replacing", "settling", "returning"} :
          step' = [step EXCEPT ![c] = target]
    BY <1>2 DEF Lock, Compose, Replace, Settle, Goto
  <2>2. step[c] # "none" /\ UNCHANGED <<executor, todo, created, surfaces, did, said>>
    BY <1>2 DEF Lock, Compose, Replace, Settle
  <2>3. CallbackTypeOK'
    BY <2>1, <2>2 DEF Told, CallbackTypeOK, Steps, Refreshing
  <2>4. Stage(c)' /\ Honest(c)'
    BY <2>1, <2>2 DEF Told, CallbackTypeOK, Publishing, Stage, Honest, Deciding, Untouched, Created,
                      executor
  <2> QED BY <2>1, <2>2, <2>3, <2>4 DEF Told, CallbackTypeOK, executor
<1> QED BY <1>1, <1>2

\* A failure names what was changed as the step that failed would have.
LEMMA ToldFailed ==
  ASSUME Told, Slots', NEW c \in Calls, Fail(c)
  PROVE  Told'
<1> USE Typed, ToldHere
<1>1. UNCHANGED <<executor, todo, created, did>>
  BY DEF Fail
<1>2. CASE FailPublication(c)
  <2>1. /\ step[c] \in {"linking", "syncing", "accepting"}
        /\ surfaces' = [surfaces EXCEPT ![c] = @ \cup Created(c)]
        /\ said' = [said EXCEPT ![c] = IF step[c] = "linking" /\ surfaces[c] = {}
                                       THEN "error" ELSE "result"]
    BY <1>2 DEF FailPublication, Say, Report
  <2>2. \E target \in {"cleaning", "locking", "returning"} : step' = [step EXCEPT ![c] = target]
    BY <1>2 DEF FailPublication, Goto, Final
  <2>3. CallbackTypeOK'
    BY <1>1, <2>1, <2>2 DEF Told, CallbackTypeOK, Steps, Refreshing, Results
  <2>4. Stage(c)' /\ Honest(c)'
    BY <1>1, <2>1, <2>2 DEF Told, CallbackTypeOK, Publishing, Stage, Honest, Deciding, Untouched,
                            Created, executor
  <2> QED BY <1>1, <2>1, <2>2, <2>3, <2>4 DEF Told, CallbackTypeOK, executor
<1>3. CASE FailRead(c)
  <2>1. step[c] \in {"selecting", "rechecking"} /\ UNCHANGED surfaces
    BY <1>3 DEF FailRead
  <2>2. \E target \in {"locking", "returning"} : step' = [step EXCEPT ![c] = target]
    BY <1>3 DEF FailRead, Goto, Final
  <2>3. \E what \in {"result", "error"} : said' = [said EXCEPT ![c] = what]
    BY <1>3 DEF FailRead, Say
  <2>4. CallbackTypeOK'
    BY <1>1, <2>1, <2>2, <2>3 DEF Told, CallbackTypeOK, Steps, Refreshing, Results
  <2>5. Stage(c)' /\ Honest(c)'
    <3>1. /\ step[c] \in {"selecting", "rechecking"} /\ step'[c] \in {"locking", "returning"}
          /\ said'[c] \in {"result", "error"}
          /\ UNCHANGED <<future, client, created, surfaces, did>>
      BY <1>1, <2>1, <2>2, <2>3 DEF Told, CallbackTypeOK, executor
    <3> QED BY <3>1 DEF Told, Publishing, Stage, Honest, Deciding, Untouched, Created
  <2> QED BY <1>1, <2>1, <2>2, <2>3, <2>4, <2>5 DEF Told, CallbackTypeOK, executor
<1>4. CASE FailRefresh(c)
  <2>1. step[c] # "none" /\ step' = [step EXCEPT ![c] = "returning"] /\ UNCHANGED <<surfaces, said>>
    BY <1>4 DEF FailRefresh, Refreshing, Goto
  <2>2. CallbackTypeOK'
    BY <1>1, <2>1 DEF Told, CallbackTypeOK, Steps
  <2>3. Stage(c)' /\ Honest(c)'
    BY <1>1, <2>1 DEF Told, CallbackTypeOK, Publishing, Stage, Honest, Deciding, Untouched, Created,
                      executor
  <2> QED BY <1>1, <2>1, <2>2, <2>3 DEF Told, CallbackTypeOK, executor
<1> QED BY <1>2, <1>3, <1>4 DEF Fail

\* A callback starts once, for a call that is queued.
LEMMA ToldTaken ==
  ASSUME Told, Slots', StartCallback
  PROVE  Told'
<1>1. future \in [Calls -> Futures] /\ UNCHANGED client
  BY DEF StartCallback, Take, Told, Slots, ExecutorTypeOK, Futures
<1>2. ASSUME NEW c \in Calls
      PROVE  \/ future'[c] = future[c]
             \/ future[c] = "pending" /\ future'[c] = "running"
  <2>1. PICK next \in Calls :
          future' = [future EXCEPT ![next] = IF @ = "pending" THEN "running" ELSE @]
    <3>1. queue \in Seq(Calls) /\ queue # <<>> /\ Head(queue) \in Calls
      BY HeadTailProperties DEF StartCallback, Take, Told, Slots, ExecutorTypeOK
    <3> QED BY <3>1 DEF StartCallback, Take
  <2> QED BY <1>1, <2>1
<1>3. /\ step' = [d \in Calls |-> IF future'[d] = "running" /\ future[d] # "running"
                                   THEN "checkpoint" ELSE step[d]]
      /\ UNCHANGED <<todo, created, surfaces, did, said>>
  BY DEF StartCallback
<1>4. CallbackTypeOK'
  BY <1>3 DEF Told, CallbackTypeOK, Steps
<1>5. ASSUME NEW c \in Calls
      PROVE  Stage(c)' /\ Honest(c)'
  BY <1>1, <1>2, <1>3 DEF Told, Stage, Honest, Untouched, Created, Publishing, Deciding
<1> QED BY <1>4, <1>5 DEF Told

\* The event loop, a shutdown and a death move futures and coroutines only: a callback
\* whose future is lost ends, and no call that was started is queued again.
LEMMA ToldMoved ==
  ASSUME Told, UNCHANGED <<todo, created, surfaces, did, said>>, Slots',
         step' \in [Calls -> Steps],
         \A c \in Calls :
           /\ step'[c] = step[c] \/ step'[c] = "none"
           /\ step'[c] # "none" => future'[c] = future[c]
           /\ future'[c] \in {"none", "pending", "cancelled"} =>
                future[c] \in {"none", "pending", "cancelled"}
           /\ client'[c] = "answered" => future'[c] = "done"
           /\ client'[c] = "cancelled" => future'[c] = "cancelled"
  PROVE  Told'
<1>1. CallbackTypeOK'
  BY DEF Told, CallbackTypeOK
<1>2. ASSUME NEW c \in Calls
      PROVE  Stage(c)' /\ Honest(c)'
  <2>1. Honest(c)'
    BY DEF Told, Honest, Created, Deciding
  <2>2. Stage(c)'
    BY DEF Told, Stage, Untouched, Publishing
  <2> QED BY <2>1, <2>2
<1> QED BY <1>1, <1>2 DEF Told

LEMMA ToldOutside ==
  ASSUME Told, Slots', UNCHANGED <<todo, created, surfaces, did, said>>,
         \/ /\ UNCHANGED step
            /\ \/ \E c \in Calls : Submit(c) \/ Cancel(c) \/ CancelAgain(c) \/ Deliver(c)
               \/ Shutdown \/ Exit \/ Restart
         \/ ExecutorLost /\ step' = [c \in Calls |-> "none"]
         \/ UNCHANGED <<step, executor>>
  PROVE  Told'
<1> DEFINE Moved(c) ==
      /\ step'[c] = step[c] \/ step'[c] = "none"
      /\ step'[c] # "none" => future'[c] = future[c]
      /\ future'[c] \in {"none", "pending", "cancelled"} =>
           future[c] \in {"none", "pending", "cancelled"}
      /\ client'[c] = "answered" => future'[c] = "done"
      /\ client'[c] = "cancelled" => future'[c] = "cancelled"
<1>1. step \in [Calls -> Steps] /\ future \in [Calls -> Futures] /\ client \in [Calls -> Clients]
  BY DEF Told, CallbackTypeOK, Slots, ExecutorTypeOK, Futures, Clients
<1>2. \A c \in Calls : /\ step[c] # "none" => future[c] = "running"
                       /\ client[c] = "answered" => future[c] = "done"
                       /\ client[c] = "cancelled" => future[c] = "cancelled"
                       /\ client[c] = "new" => future[c] = "none"
  BY DEF Told, Stage, Slots
<1>3. ASSUME UNCHANGED step, NEW d \in Calls, Submit(d), NEW c \in Calls
      PROVE  Moved(c)
  BY <1>1, <1>2, <1>3 DEF Submit
<1>4. ASSUME UNCHANGED step, NEW d \in Calls, Cancel(d), NEW c \in Calls
      PROVE  Moved(c)
  BY <1>1, <1>2, <1>4 DEF Cancel
<1>5. ASSUME UNCHANGED step, NEW d \in Calls, CancelAgain(d) \/ Deliver(d), NEW c \in Calls
      PROVE  Moved(c)
  BY <1>1, <1>2, <1>5 DEF CancelAgain, Deliver
<1>6. ASSUME UNCHANGED step, Shutdown \/ Exit \/ Restart, NEW c \in Calls
      PROVE  Moved(c)
  BY <1>1, <1>2, <1>6 DEF Shutdown, Exit, Restart
<1>7. ASSUME ExecutorLost, step' = [c \in Calls |-> "none"], NEW c \in Calls
      PROVE  Moved(c)
  BY <1>1, <1>2, <1>7 DEF ExecutorLost, Awaiting, Unfinished
<1>8. ASSUME UNCHANGED <<step, executor>>, NEW c \in Calls
      PROVE  Moved(c)
  BY <1>1, <1>2, <1>8 DEF executor
<1>9. \A c \in Calls : Moved(c)
  BY <1>3, <1>4, <1>5, <1>6, <1>7, <1>8
<1>10. step' \in [Calls -> Steps]
  BY <1>1 DEF Steps
<1> QED BY <1>9, <1>10, ToldMoved

LEMMA ToldStep == Told /\ [Next]_vars => Told'
<1> SUFFICES ASSUME Told, [Next]_vars PROVE Told'
  OBVIOUS
<1>1. Slots'
  BY SlotsStep DEF Told
<1>2. CASE StartCallback
  BY <1>1, <1>2, ToldTaken
<1>3. ASSUME NEW c \in Calls, Callback(c)
      PROVE  Told'
  BY <1>1, <1>3, ToldStarted, ToldPublished, ToldRefreshed DEF Callback
<1>4. ASSUME NEW c \in Calls, Fail(c)
      PROVE  Told'
  BY <1>1, <1>4, ToldFailed
<1>5. ASSUME NEW c \in Calls, Cleanup(c, FALSE)
      PROVE  Told'
  BY <1>1, <1>5, ToldPublished
<1>6. ASSUME NEW c \in Calls, Elsewhere, Submit(c) \/ Cancel(c) \/ CancelAgain(c) \/ Deliver(c)
      PROVE  Told'
  BY <1>1, <1>6, ToldOutside DEF Elsewhere, callback
<1>7. CASE Elsewhere /\ (Shutdown \/ Exit \/ Restart)
  BY <1>1, <1>7, ToldOutside DEF Elsewhere, callback
<1>8. CASE Die \/ PowerLoss
  BY <1>1, <1>8, ToldOutside DEF Die, PowerLoss
<1>9. CASE UNCHANGED vars
  BY <1>1, <1>9, ToldOutside DEF vars, callback
<1> QED BY <1>2, <1>3, <1>4, <1>5, <1>6, <1>7, <1>8, <1>9 DEF Next

\* A result names what its call has changed and nothing else, whichever of its
\* publications was refused or failed, and whatever was cancelled or lost meanwhile
\* (artifact_publication.py:100, dispatch_operations.py:292).
THEOREM TrueAnswers == Spec => []AnswersAreTrue
<1>1. Told => AnswersAreTrue
  BY DEF Told, Honest, AnswersAreTrue
<1> QED BY <1>1, ToldInitially, ToldStep, PTL DEF Spec

\* A caller told that its call was cancelled may rely on it: nothing of the call has
\* happened and its callback does not run (mcp/execution.py:498).
THEOREM CancelledForGood == Spec => []CancelledDidNothing
<1>1. Told => CancelledDidNothing
  BY DEF Told, Stage, Untouched, CancelledDidNothing
<1> QED BY <1>1, ToldInitially, ToldStep, PTL DEF Spec
-----------------------------------------------------------------------------
\* The publication a call is at.
Present(c) == Head(todo[c])

\* A call that goes on to accept a reference has met a file, and once it has cleaned
\* up, the directory is synchronized or its fsync has failed.
Carried(c) ==
  /\ step[c] = "syncing" => file[Present(c).name] # NoFile
  /\ step[c] = "cleaning" /\ said[c] = "nothing yet" => file[Present(c).name] # NoFile
  /\ step[c] = "accepting" => Present(c).name \in durable \cup unsynced

FilesOK ==
  /\ file \in [Names -> Contents \cup {NoFile}]
  /\ reference \in [Names -> Contents \cup {NoFile}]
  /\ durable \subseteq Names
  /\ \A n \in durable : file[n] # NoFile
  /\ ReferencesAreKept

Kept == FilesOK /\ \A c \in Calls : Carried(c)

\* Without a power loss a file, once linked, stays as it is.
Grows ==
  /\ \A n \in Names : file[n] # NoFile => file'[n] = file[n]
  /\ durable \subseteq durable' /\ unsynced \subseteq unsynced'

LEMMA KeptInitially == Init => Kept
BY DEF Init, FilesInit, Kept, FilesOK, ReferencesAreKept, Carried

LEMMA CarriedElsewhere ==
  ASSUME Told, Kept, Grows, NEW c \in Calls,
         step'[c] = step[c], said'[c] = said[c], todo'[c] = todo[c]
  PROVE  Carried(c)'
<1>1. Present(c) \in Publications
  BY Typed DEF Present
<1>2. Present(c).name \in Names /\ Present(c)' = Present(c)
  BY <1>1 DEF Publications, Present
<1> QED BY <1>2 DEF Kept, Carried, Grows

\* A step that leaves the files alone brings no call closer to accepting.
LEMMA KeptQuietly ==
  ASSUME Told, Kept, UNCHANGED artifacts,
         \A c \in Calls :
           \/ step'[c] = step[c] /\ said'[c] = said[c] /\ todo'[c] = todo[c]
           \/ step'[c] \notin {"syncing", "cleaning", "accepting"}
           \/ step'[c] = "cleaning" /\ said'[c] # "nothing yet"
  PROVE  Kept'
<1>1. FilesOK'
  BY DEF Kept, FilesOK, ReferencesAreKept, artifacts
<1>2. Grows
  BY DEF Grows, artifacts
<1>3. ASSUME NEW c \in Calls
      PROVE  Carried(c)'
  <2>1. CASE step'[c] = step[c] /\ said'[c] = said[c] /\ todo'[c] = todo[c]
    BY <1>2, <2>1, CarriedElsewhere
  <2>2. CASE \/ step'[c] \notin {"syncing", "cleaning", "accepting"}
             \/ step'[c] = "cleaning" /\ said'[c] # "nothing yet"
    BY <2>2 DEF Carried
  <2> QED BY <2>1, <2>2
<1> QED BY <1>1, <1>3 DEF Kept

\* A step of one call that the files survive keeps the others where they are.
LEMMA KeptHere ==
  ASSUME Told, Kept, Grows, FilesOK', NEW c \in Calls, Carried(c)',
         \A d \in Calls \ {c} :
           step'[d] = step[d] /\ said'[d] = said[d] /\ todo'[d] = todo[d]
  PROVE  Kept'
<1>1. ASSUME NEW d \in Calls \ {c}
      PROVE  Carried(d)'
  BY CarriedElsewhere
<1> QED BY <1>1 DEF Kept

LEMMA KeptByLink ==
  ASSUME Told, Kept, NEW c \in Calls, Link(c)
  PROVE  Kept'
<1> DEFINE p == Present(c)
<1>1. /\ p.name \in Names /\ p.bytes \in Contents
      /\ todo' = todo /\ p' = p
  BY Typed DEF Present, Publications, Link
<1>2. step \in [Calls -> Steps] /\ said \in [Calls -> Results]
  BY DEF Told, CallbackTypeOK
<1>3. CASE CanLink(p.name)
  <2>1. /\ file[p.name] = NoFile /\ file' = [file EXCEPT ![p.name] = p.bytes]
        /\ UNCHANGED <<durable, unsynced, reference, said>>
        /\ step' = [step EXCEPT ![c] = "syncing"]
    BY <1>3 DEF Link, LinkFile, CanLink, Goto, Present
  <2> HIDE DEF p
  <2>2. Grows
    BY <1>1, <2>1 DEF Grows, Kept, FilesOK
  <2>3. FilesOK'
    BY <1>1, <2>1, FilesAssumption DEF Kept, FilesOK, ReferencesAreKept
  <2>4. Carried(c)'
    BY <1>1, <1>2, <2>1, FilesAssumption DEF Carried, Kept, FilesOK, p
  <2> QED BY <1>1, <1>2, <2>1, <2>2, <2>3, <2>4, KeptHere
<1>4. CASE ~ CanLink(p.name)
  <2>1. /\ file[p.name] # NoFile
        /\ UNCHANGED <<file, durable, unsynced, reference, revision>>
        /\ step' = [step EXCEPT ![c] = "cleaning"]
        /\ said' = said \/ said' = [said EXCEPT ![c] = "error"]
    BY <1>4 DEF Link, CanLink, Goto, Say, Present, artifacts
  <2>2. Grows /\ FilesOK'
    BY <2>1 DEF Grows, Kept, FilesOK, ReferencesAreKept
  <2>3. Carried(c)'
    BY <1>1, <1>2, <2>1 DEF Carried
  <2> QED BY <1>1, <1>2, <2>1, <2>2, <2>3, KeptHere
<1> QED BY <1>3, <1>4

\* The link or the cleanup synchronizes the directory of a file that is there.
LEMMA KeptBySync ==
  ASSUME Told, Kept, NEW c \in Calls,
         SyncLink(c) \/ (\E synced \in BOOLEAN : Cleanup(c, synced))
  PROVE  Kept'
<1> DEFINE p == Present(c)
<1>1. p.name \in Names /\ todo' = todo /\ p' = p
  BY Typed DEF Present, Publications, SyncLink, Cleanup
<1>2. step \in [Calls -> Steps] /\ said' = said /\ said[c] \in Results
  BY DEF Told, CallbackTypeOK, SyncLink, Cleanup
<1>3. UNCHANGED <<file, reference>>
  BY DEF SyncLink, SyncFile, Cleanup, CleanStaging
<1>4. ASSUME SyncFile(p.name)
      PROVE  /\ durable' = IF file[p.name] = NoFile THEN durable ELSE durable \cup {p.name}
             /\ unsynced' = unsynced
  BY <1>4 DEF SyncFile
<1>5. \/ SyncFile(p.name)
      \/ durable' = durable /\ unsynced' = IF p.name \in durable THEN unsynced
                                                              ELSE unsynced \cup {p.name}
  BY DEF SyncLink, Cleanup, CleanStaging, Present
<1>6. Grows
  BY <1>3, <1>4, <1>5 DEF Grows
<1>7. FilesOK'
  BY <1>1, <1>3, <1>4, <1>5 DEF Kept, FilesOK, ReferencesAreKept
<1>8. CASE SyncLink(c)
  <2>1. step[c] = "syncing" /\ step' = [step EXCEPT ![c] = "cleaning"]
    BY <1>8 DEF SyncLink, Goto
  <2>2. Carried(c)'
    BY <1>1, <1>2, <1>3, <2>1 DEF Carried, Kept
  <2> QED BY <1>1, <1>2, <1>6, <1>7, <2>1, <2>2, KeptHere
<1>9. ASSUME NEW synced \in BOOLEAN, Cleanup(c, synced)
      PROVE  Kept'
  <2>1. said[c] \in {"nothing yet", "result", "error"} /\ step[c] = "cleaning"
    BY <1>9 DEF Cleanup, Told, Stage, CallbackTypeOK, Results
  <2>2. \E target \in {"accepting", "returning", "locking"} :
          /\ step' = [step EXCEPT ![c] = target]
          /\ target = "accepting" => said[c] = "nothing yet"
    BY <1>9, <2>1 DEF Cleanup, Final, Goto
  <2>3. said[c] = "nothing yet" => p.name \in durable' \cup unsynced'
    BY <1>4, <1>5, <2>1 DEF Kept, Carried
  <2>4. Carried(c)'
    BY <1>1, <1>2, <2>1, <2>2, <2>3 DEF Carried
  <2> QED BY <1>1, <1>2, <1>6, <1>7, <2>2, <2>4, KeptHere
<1> QED BY <1>8, <1>9

LEMMA KeptByAccept ==
  ASSUME Told, Kept, NEW c \in Calls, AcceptReference(c)
  PROVE  Kept'
<1> DEFINE p == Present(c)
<1>1. p.name \in Names /\ p.bytes \in Contents /\ UNCHANGED todo
  BY Typed DEF Present, Publications, AcceptReference
<1>2. step \in [Calls -> Steps] /\ said \in [Calls -> Results]
  BY DEF Told, CallbackTypeOK
<1>3. step[c] = "accepting" /\ p.name \in durable \cup unsynced
  BY DEF AcceptReference, Kept, Carried
<1>4. UNCHANGED <<file, durable, unsynced>>
  BY DEF AcceptReference, Accept, artifacts
<1>5. \/ file[p.name] = p.bytes /\ reference' = [reference EXCEPT ![p.name] = p.bytes]
      \/ UNCHANGED reference
  BY DEF AcceptReference, Accept, Acceptable, artifacts, Present
<1>6. \E target \in {"locking", "returning", "rechecking"}, what \in Results :
        /\ step' = [step EXCEPT ![c] = target]
        /\ said' = said \/ said' = [said EXCEPT ![c] = what]
  BY DEF AcceptReference, Accepted, Goto, Say, Final, Results
<1>7. Grows
  BY <1>4 DEF Grows
<1>8. FilesOK'
  <2> HIDE DEF p
  <2> QED BY <1>1, <1>3, <1>4, <1>5 DEF Kept, FilesOK, ReferencesAreKept
<1>9. Carried(c)'
  BY <1>2, <1>6 DEF Carried
<1> QED BY <1>1, <1>2, <1>6, <1>7, <1>8, <1>9, KeptHere

\* What is synchronized is found again; nobody is at work.
LEMMA KeptByPowerLoss ==
  ASSUME Told, Kept, PowerLoss
  PROVE  Kept'
<1>1. PICK kept \in SUBSET Names :
        /\ durable \subseteq kept
        /\ file' = [n \in Names |-> IF n \in kept THEN file[n] ELSE NoFile]
        /\ durable' = {n \in kept : file[n] # NoFile}
  BY DEF PowerLoss, FilesLost
<1>2. UNCHANGED <<unsynced, reference>> /\ step' = [c \in Calls |-> "none"]
  BY DEF PowerLoss, FilesLost
<1>3. FilesOK'
  BY <1>1, <1>2 DEF Kept, FilesOK, ReferencesAreKept
<1> QED BY <1>2, <1>3 DEF Kept, Carried

LEMMA KeptStep == Told /\ Kept /\ [Next]_vars => Kept'
<1> SUFFICES ASSUME Told, Kept, [Next]_vars PROVE Kept'
  OBVIOUS
<1>1. /\ step \in [Calls -> Steps] /\ said \in [Calls -> Results]
      /\ todo \in [Calls -> Seq(Publications) \ {<<>>}]
  BY DEF Told, CallbackTypeOK
<1>2. CASE StartCallback
  BY <1>1, <1>2, KeptQuietly DEF StartCallback
<1>3. ASSUME NEW c \in Calls, Checkpoint(c)
      PROVE  Kept'
  BY <1>1, <1>3, KeptQuietly DEF Checkpoint, Goto, Say, First
<1>4. ASSUME NEW c \in Calls, Select(c)
      PROVE  Kept'
  BY <1>1, <1>4, KeptQuietly DEF Select, Goto
<1>5. ASSUME NEW c \in Calls, Recheck(c)
      PROVE  Kept'
  BY <1>1, <1>5, KeptQuietly DEF Recheck, Goto, Say, First, Final
<1>6. ASSUME NEW c \in Calls, Lock(c) \/ Compose(c) \/ Replace(c) \/ Settle(c) \/ EndCallback(c)
      PROVE  Kept'
  BY <1>1, <1>6, KeptQuietly DEF Lock, Compose, Replace, Settle, EndCallback, Goto
<1>7. ASSUME NEW c \in Calls, Fail(c)
      PROVE  Kept'
  BY <1>1, <1>7, KeptQuietly DEF Fail, FailPublication, FailRead, FailRefresh, Goto, Say, Final
<1>8. ASSUME NEW c \in Calls, Callback(c) \/ Cleanup(c, FALSE)
      PROVE  Kept'
  BY <1>3, <1>4, <1>5, <1>6, <1>8, KeptByLink, KeptBySync, KeptByAccept DEF Callback
<1>9. CASE Elsewhere \/ UNCHANGED vars
  BY <1>9, KeptQuietly DEF Elsewhere, vars, callback
<1>10. CASE Die
  BY <1>1, <1>10, KeptQuietly DEF Die
<1> QED BY <1>2, <1>7, <1>8, <1>9, <1>10, KeptByPowerLoss DEF Next

\* An accepted reference is never left without its bytes, whoever linked them, whatever
\* failed on the way and however often power is lost, unless the one fsync whose error
\* is suppressed failed for it (artifact_publication.py:79, file_io.py:263).
THEOREM KeptReferences == Spec => []ReferencesAreKept
<1>1. Kept => ReferencesAreKept
  BY DEF Kept, FilesOK
<1> QED BY <1>1, ToldInitially, ToldStep, KeptInitially, KeptStep, PTL DEF Spec
-----------------------------------------------------------------------------
Holding == {"composing", "replacing", "settling"}

\* The board lags behind the database, only the holder of the lock writes it, and what
\* the holder has read is not older than what the file shows.
Ordered ==
  /\ losses \in Nat
  /\ revision \in Nat /\ board \in 0..revision /\ boardOnDisk \subseteq 0..revision
  /\ composed \in [Calls -> 0..revision]
  /\ \A c \in Calls : /\ step[c] \in Holding => lock = c
                      /\ step[c] = "replacing" => board <= composed[c]

LEMMA OrderedInitially == Init => Ordered
<1> SUFFICES ASSUME Init PROVE Ordered
  OBVIOUS
<1>1. revision = 0 /\ losses = 0 /\ board = 0 /\ boardOnDisk = {0}
  BY DEF Init, FilesInit, ViewInit
<1>2. composed = [c \in Calls |-> 0] /\ step = [c \in Calls |-> "none"]
  BY DEF Init, ViewInit
<1>3. 0 \in 0..revision
  BY <1>1
<1>4. composed \in [Calls -> 0..revision]
  BY <1>2, <1>3
<1>5. \A c \in Calls : step[c] = "none"
  BY <1>2
<1> QED BY <1>1, <1>3, <1>4, <1>5 DEF Ordered, Holding

\* Nobody gets hold of the board, and commits only advance the revision.
LEMMA OrderedQuietly ==
  ASSUME Ordered, UNCHANGED <<view, losses>>, revision' \in {revision, revision + 1},
         \A c \in Calls : step'[c] = step[c] \/ step'[c] \notin Holding
  PROVE  Ordered'
BY DEF Ordered, Holding, view

\* The holder's steps, and its errors.
LEMMA OrderedByHolder ==
  ASSUME Told, Ordered, NEW c \in Calls, UNCHANGED <<revision, losses>>,
         Lock(c) \/ Compose(c) \/ Replace(c) \/ Settle(c) \/ FailRefresh(c)
  PROVE  Ordered' /\ board' >= board
<1>1. step \in [Calls -> Steps] /\ NoWriter \notin Calls /\ 0 \in 0..revision
  BY ServiceAssumption DEF Told, CallbackTypeOK, Ordered
<1>2. CASE Lock(c)
  BY <1>1, <1>2 DEF Lock, LockBoard, Goto, Ordered, Holding
<1>3. CASE Compose(c)
  BY <1>1, <1>3 DEF Compose, ComposeBoard, Goto, Ordered, Holding
<1>4. CASE Replace(c)
  <2>1. step[c] = "replacing" /\ lock = c /\ board <= composed[c] /\ composed[c] \in 0..revision
    BY <1>4 DEF Replace, Ordered, Holding
  <2>2. \A d \in Calls \ {c} : step[d] \notin Holding
    BY <2>1 DEF Ordered
  <2>3. CASE board = composed[c]
    <3>1. /\ step' = [step EXCEPT ![c] = "returning"]
          /\ composed' = [composed EXCEPT ![c] = 0]
          /\ UNCHANGED <<board, boardOnDisk>>
      BY <1>4, <2>3 DEF Replace, UnlockBoard, ReleaseLock, Goto
    <3> QED BY <1>1, <2>2, <3>1 DEF Ordered, Holding
  <2>4. CASE board # composed[c]
    BY <1>1, <1>4, <2>1, <2>2, <2>4 DEF Replace, ReplaceBoard, Goto, Ordered, Holding
  <2> QED BY <2>3, <2>4
<1>5. CASE Settle(c)
  <2>1. lock = c /\ \A d \in Calls \ {c} : step[d] \notin Holding
    BY <1>5 DEF Settle, Ordered, Holding
  <2> QED BY <1>1, <1>5, <2>1 DEF Settle, SyncAndUnlockBoard, ReleaseLock, Goto, Ordered, Holding
<1>6. CASE FailRefresh(c)
  BY <1>1, <1>6 DEF FailRefresh, UnlockBoard, ReleaseLock, Goto, Ordered, Holding
<1> QED BY <1>2, <1>3, <1>4, <1>5, <1>6

LEMMA OrderedStep ==
  Told /\ Ordered /\ [Next]_vars => Ordered' /\ (losses' = losses => board' >= board)
<1> SUFFICES ASSUME Told, Ordered, [Next]_vars
             PROVE  Ordered' /\ (losses' = losses => board' >= board)
  OBVIOUS
<1>1. /\ step \in [Calls -> Steps] /\ board >= board
  BY DEF Told, CallbackTypeOK, Ordered
<1>2. CASE StartCallback
  BY <1>1, <1>2, OrderedQuietly DEF StartCallback, view, artifacts, counters, Holding
<1>3. ASSUME NEW c \in Calls, Checkpoint(c) \/ Select(c) \/ Recheck(c)
      PROVE  Ordered' /\ board' >= board
  <2>1. UNCHANGED <<artifacts, view, losses>>
    BY <1>3 DEF Checkpoint, Select, Recheck, counters
  <2>2. \E target \in Steps \ Holding : step' = [step EXCEPT ![c] = target]
    BY <1>3 DEF Checkpoint, Select, Recheck, Goto, First, Final, Steps, Publishing, Refreshing,
                Holding
  <2> QED BY <1>1, <2>1, <2>2, OrderedQuietly DEF view, artifacts
<1>4. ASSUME NEW c \in Calls, Link(c) \/ SyncLink(c)
      PROVE  Ordered' /\ board' >= board
  <2>1. UNCHANGED <<revision, view, losses>>
    BY <1>4 DEF Link, LinkFile, SyncLink, SyncFile, artifacts, counters
  <2>2. \E target \in Steps \ Holding : step' = [step EXCEPT ![c] = target]
    BY <1>4 DEF Link, SyncLink, Goto, Steps, Holding, Publishing
  <2> QED BY <1>1, <2>1, <2>2, OrderedQuietly DEF view
<1>5. ASSUME NEW c \in Calls, NEW synced \in BOOLEAN, Cleanup(c, synced), UNCHANGED losses
      PROVE  Ordered' /\ board' >= board
  <2>1. UNCHANGED <<revision, view, losses>>
    BY <1>5 DEF Cleanup, CleanStaging, SyncFile
  <2>2. said[c] \in {"nothing yet", "result", "error"}
    BY <1>5 DEF Cleanup, Told, Stage, CallbackTypeOK, Results
  <2>3. \E target \in {"accepting", "locking", "returning"} : step' = [step EXCEPT ![c] = target]
    BY <1>5, <2>2 DEF Cleanup, Goto, Final
  <2> QED BY <1>1, <2>1, <2>3, OrderedQuietly DEF view, Holding
<1>6. ASSUME NEW c \in Calls, AcceptReference(c)
      PROVE  Ordered' /\ board' >= board
  <2>1. UNCHANGED <<view, losses>> /\ revision' \in {revision, revision + 1}
    BY <1>6 DEF AcceptReference, Accept, artifacts, counters
  <2>2. \E target \in {"rechecking", "locking", "returning"} : step' = [step EXCEPT ![c] = target]
    BY <1>6 DEF AcceptReference, Accepted, Goto, Final
  <2> QED BY <1>1, <2>1, <2>2, OrderedQuietly DEF view, Holding
<1>7. ASSUME NEW c \in Calls, Lock(c) \/ Compose(c) \/ Replace(c) \/ Settle(c)
      PROVE  Ordered' /\ board' >= board
  BY <1>7, OrderedByHolder DEF Lock, Compose, Replace, Settle, artifacts, counters
<1>8. ASSUME NEW c \in Calls, EndCallback(c)
      PROVE  Ordered' /\ board' >= board
  BY <1>1, <1>8, OrderedQuietly DEF EndCallback, Goto, view, artifacts, counters, Holding
<1>9. ASSUME NEW c \in Calls, Fail(c)
      PROVE  Ordered' /\ board' >= board
  <2>1. UNCHANGED <<revision, losses>>
    BY <1>9 DEF Fail, Faulty, artifacts, Ordered
  <2>2. CASE FailPublication(c) \/ FailRead(c)
    <3>1. UNCHANGED view
      BY <2>2 DEF FailPublication, FailRead
    <3>2. \E target \in {"cleaning", "locking", "returning"} : step' = [step EXCEPT ![c] = target]
      BY <2>2 DEF FailPublication, FailRead, Goto, Final
    <3> QED BY <1>1, <2>1, <3>1, <3>2, OrderedQuietly DEF view, Holding
  <2> QED BY <1>9, <2>1, <2>2, OrderedByHolder DEF Fail
<1>10. ASSUME NEW c \in Calls, Callback(c)
       PROVE  Ordered' /\ board' >= board
  BY <1>3, <1>4, <1>5, <1>6, <1>7, <1>8, <1>10 DEF Callback, counters
<1>11. CASE Elsewhere \/ UNCHANGED vars
  BY <1>1, <1>11, OrderedQuietly DEF Elsewhere, vars, callback, view, artifacts, counters
<1>12. CASE Die
  BY <1>1, <1>12 DEF Die, Faulty, LocksLost, artifacts, Ordered, Holding
<1>13. CASE PowerLoss
  <2>1. losses' = losses + 1 /\ losses \in Nat
    BY <1>13 DEF PowerLoss, Faulty, Ordered
  <2>2. Ordered'
    BY <1>13, <2>1 DEF PowerLoss, BoardLost, LocksLost, FilesLost, Ordered, Holding
  <2> QED BY <2>1, <2>2
<1>14. ASSUME NEW c \in Calls, Cleanup(c, FALSE), Faulty(0)
       PROVE  Ordered' /\ board' >= board
  <2>1. losses' = losses + 0 /\ losses \in Nat
    BY <1>14 DEF Faulty, Ordered
  <2>2. UNCHANGED losses
    BY <2>1
  <2> QED BY <1>5, <1>14, <2>2
<1> QED BY <1>2, <1>9, <1>10, <1>11, <1>12, <1>13, <1>14 DEF Next

\* A slow refresh never hides a later commit, however many run at once and wherever they
\* fail (views.py:1474).
THEOREM BoardAdvances == Spec => BoardNeverGoesBack
<1>1. Told /\ Ordered /\ [Next]_vars => [losses' = losses => board' >= board]_vars
  BY OrderedStep
<1> QED BY <1>1, ToldInitially, ToldStep, OrderedInitially, OrderedStep, PTL
        DEF Spec, BoardNeverGoesBack
=============================================================================
