-------------------------- MODULE WorkQueueProofs ---------------------------
(***************************************************************************)
(* What holds of queue.go for any items, consumers and capacities.         *)
(***************************************************************************)
EXTENDS WorkQueue, SequenceTheorems, TLAPS

(* Only the unbounded Add has a step between its check and its append; without
   this a bounded queue could be overfilled. *)
ChecksUnboundedOnly == \A i \in Items : adder[i] = "checked" => ~Bounded

(* Only the unbounded Get sleeps, and on a channel `ready' that is current or
   was replaced: never on one that is yet to come. *)
SleepsUnboundedOnly ==
    \A c \in Consumers : getter[c] = "wait" => ~Bounded /\ captured[c] <= ready

QueueInv == TypeOK /\ ChecksUnboundedOnly /\ SleepsUnboundedOnly

(* No step of Add or Get leaves the types, or sleeps in a bounded queue. *)
LEMMA QueueInvStep == QueueInv /\ [Next]_vars => QueueInv'
<1> SUFFICES ASSUME QueueInv, [Next]_vars PROVE QueueInv'
  OBVIOUS
<1> USE DEF QueueInv, TypeOK, ChecksUnboundedOnly, SleepsUnboundedOnly, Bounded,
            AdderState, GetterState
<1>1. ASSUME NEW i \in Items, Send(i) PROVE QueueInv'
  BY <1>1 DEF Send, Store, SendReady
<1>2. ASSUME NEW i \in Items, RefuseAdd(i) PROVE QueueInv'
  BY <1>2 DEF RefuseAdd
<1>3. ASSUME NEW i \in Items, CheckContext(i) PROVE QueueInv'
  BY <1>3 DEF CheckContext
<1>4. ASSUME NEW i \in Items, AppendItem(i) PROVE QueueInv'
  BY <1>4 DEF AppendItem, Store, NextReady
<1>5. ASSUME NEW c \in Consumers, Take(c) PROVE QueueInv'
  BY <1>5 DEF Take, DropFirst
<1>6. ASSUME NEW c \in Consumers, Capture(c) PROVE QueueInv'
  BY <1>6 DEF Capture
<1>7. ASSUME NEW c \in Consumers, Wake(c) PROVE QueueInv'
  BY <1>7 DEF Wake
<1>8. ASSUME NEW c \in Consumers, Quit(c) PROVE QueueInv'
  BY <1>8 DEF Quit
<1>9. ASSUME NEW x \in Items \cup Consumers, Cancel(x) PROVE QueueInv'
  BY <1>9 DEF Cancel
<1>10. CASE UNCHANGED vars
  BY <1>10 DEF vars
<1> QED
  BY <1>1, <1>2, <1>3, <1>4, <1>5, <1>6, <1>7, <1>8, <1>9, <1>10
  DEF Next, AddStep, GetStep

(* Values stay in range, the length of a bounded queue within its capacity. *)
THEOREM QueueTypes == SafeSpec => []TypeOK
<1>1. Init => QueueInv
  BY QueueAssumption
  DEF Init, QueueInv, TypeOK, ChecksUnboundedOnly, SleepsUnboundedOnly,
      AdderState, GetterState
<1>2. QueueInv => TypeOK
  BY DEF QueueInv
<1> QED
  BY <1>1, <1>2, QueueInvStep, PTL DEF SafeSpec

(* No Get of the unbounded queue sleeps while an item waits, however many
   goroutines add and get: queue.go captures `ready' before it unlocks and
   replaces it in the critical section that appends. *)
THEOREM NoWakeupLost == SafeSpec => []NoLostWakeup
<1>1. Init => QueueInv /\ NoLostWakeup
  BY QueueAssumption
  DEF Init, QueueInv, TypeOK, ChecksUnboundedOnly, SleepsUnboundedOnly,
      AdderState, GetterState,
      NoLostWakeup
<1>2. QueueInv /\ NoLostWakeup /\ [Next]_vars => NoLostWakeup'
  <2> SUFFICES ASSUME QueueInv, NoLostWakeup, [Next]_vars,
                      NEW c \in Consumers, getter'[c] = "wait", captured'[c] = ready'
               PROVE items' = <<>>
    BY DEF NoLostWakeup
  <2> USE DEF NoLostWakeup, QueueInv, SleepsUnboundedOnly, TypeOK, GetterState
  <2>1. ASSUME NEW i \in Items, Send(i) PROVE items' = <<>>
    <3>1. getter[c] # "wait"
      BY <2>1 DEF Send, SendReady
    <3> QED
      BY <2>1, <3>1 DEF Send
  <2>2. ASSUME NEW i \in Items, AppendItem(i) PROVE items' = <<>>
    <3>1. getter[c] = "wait" /\ captured[c] = ready + 1
      BY <2>2 DEF AppendItem, NextReady
    <3> QED
      BY <3>1
  <2>3. ASSUME NEW d \in Consumers, Take(d) PROVE items' = <<>>
    BY <2>3 DEF Take, DropFirst
  <2>4. ASSUME NEW d \in Consumers, Capture(d) PROVE items' = <<>>
    BY <2>4 DEF Capture
  <2> QED
    BY <2>1, <2>2, <2>3, <2>4
    DEF Next, AddStep, GetStep, RefuseAdd, CheckContext, Wake, Quit, Cancel, vars
<1> QED
  BY <1>1, <1>2, QueueInvStep, PTL DEF SafeSpec

(* Concatenation is associative, and splits off a head: the facts about
   sequences that FirstInFirstOut rests on. *)
LEMMA HeadMoves ==
  ASSUME NEW S, NEW s \in Seq(S), NEW t \in Seq(S), t # <<>>
  PROVE  Append(s, Head(t)) \o Tail(t) = s \o t
  OBVIOUS

(* To append to what is queued is to append to what was accepted. *)
LEMMA AppendMoves ==
  ASSUME NEW S, NEW s \in Seq(S), NEW t \in Seq(S), NEW x \in S
  PROVE  Append(s \o t, x) = s \o Append(t, x)
  OBVIOUS

(* Nothing is lost, duplicated or reordered in either queue, for any number of
   concurrent calls. *)
THEOREM FirstInFirstOutHolds == SafeSpec => []FirstInFirstOut
<1>1. Init => QueueInv /\ FirstInFirstOut
  BY QueueAssumption
  DEF Init, QueueInv, TypeOK, ChecksUnboundedOnly, SleepsUnboundedOnly,
      AdderState, GetterState, FirstInFirstOut
<1>2. QueueInv /\ FirstInFirstOut /\ [Next]_vars => FirstInFirstOut'
  <2> SUFFICES ASSUME QueueInv, FirstInFirstOut, [Next]_vars PROVE FirstInFirstOut'
    OBVIOUS
  <2>1. items \in Seq(Items) /\ delivered \in Seq(Items)
    BY DEF QueueInv, TypeOK
  <2>2. ASSUME NEW i \in Items, Store(i), UNCHANGED delivered PROVE FirstInFirstOut'
    BY <2>1, <2>2, AppendMoves DEF Store, FirstInFirstOut
  <2>3. ASSUME NEW c \in Consumers, Take(c) PROVE FirstInFirstOut'
    BY <2>1, <2>3, HeadMoves DEF Take, DropFirst, FirstInFirstOut
  <2>4. CASE UNCHANGED <<accepted, delivered, items>>
    BY <2>4 DEF FirstInFirstOut
  <2> QED
    BY <2>2, <2>3, <2>4
    DEF Next, AddStep, GetStep, Send, AppendItem, RefuseAdd, CheckContext,
        Capture, Wake, Quit, Cancel, vars
<1> QED
  BY <1>1, <1>2, QueueInvStep, PTL DEF SafeSpec

(* Each step of the two queues is a step of the abstract FIFO or no step of it:
   an Add takes effect when it appends, a Get when it takes. *)
THEOREM RefinesJobQueue == SafeSpec => Abstract!SafeSpec
<1>1. Init => Abstract!Init
  BY DEF Init, Abstract!Init, AddedOf, QuittingOf
<1>2. QueueInv /\ [Next]_vars => [Abstract!Next]_(Abstract!vars)
  <2> SUFFICES ASSUME QueueInv, [Next]_vars
               PROVE  Abstract!Next \/ UNCHANGED Abstract!vars
    OBVIOUS
  <2> USE DEF AddedOf, QuittingOf, Abstract!vars
  <2>0. /\ adder \in [Items -> AdderState]
        /\ getter \in [Consumers -> GetterState]
        /\ capacity \in Nat
        /\ \A i \in Items : adder[i] = "checked" => ~Bounded
    BY DEF QueueInv, TypeOK, ChecksUnboundedOnly
  <2>1. ASSUME NEW i \in Items, Send(i) PROVE Abstract!Add(i)
    BY <2>0, <2>1 DEF Send, Store, SendReady, Abstract!Add, Abstract!HasRoom
  <2>2. ASSUME NEW i \in Items, RefuseAdd(i) PROVE Abstract!Drop(i)
    BY <2>0, <2>2 DEF RefuseAdd, Abstract!Drop
  <2>3. ASSUME NEW i \in Items, CheckContext(i) PROVE UNCHANGED Abstract!vars
    BY <2>0, <2>3 DEF CheckContext
  <2>4. ASSUME NEW i \in Items, AppendItem(i) PROVE Abstract!Add(i)
    <3>1. Abstract!HasRoom
      BY <2>0, <2>4 DEF AppendItem, Bounded, Abstract!HasRoom
    <3>2. [j \in Items |-> AddedOf(j)]'
            = [[j \in Items |-> AddedOf(j)] EXCEPT ![i] = "added"]
      BY <2>0, <2>4 DEF AppendItem
    <3> QED
      BY <2>4, <3>1, <3>2 DEF AppendItem, Store, Abstract!Add
  <2>5. ASSUME NEW c \in Consumers, Take(c) PROVE Abstract!Get(c)
    BY <2>0, <2>5 DEF Take, DropFirst, Abstract!Get
  <2>6. ASSUME NEW c \in Consumers, Capture(c) \/ Wake(c)
        PROVE UNCHANGED Abstract!vars
    BY <2>0, <2>6 DEF Capture, Wake, GetterState
  <2>7. ASSUME NEW c \in Consumers, Quit(c) PROVE Abstract!Quit(c)
    BY <2>0, <2>7 DEF Quit, ContextDone, Abstract!Quit, GetterState
  <2>8. ASSUME NEW x \in Items \cup Consumers, Cancel(x) PROVE Abstract!Cancel(x)
    BY <2>8 DEF Cancel, Abstract!Cancel
  <2>9. CASE UNCHANGED vars
    BY <2>9 DEF vars
  <2> QED
    BY <2>1, <2>2, <2>3, <2>4, <2>5, <2>6, <2>7, <2>8, <2>9
    DEF Next, AddStep, GetStep, Abstract!Next
<1>3. Init => QueueInv
  BY QueueAssumption
  DEF Init, QueueInv, TypeOK, ChecksUnboundedOnly, SleepsUnboundedOnly,
      AdderState, GetterState
<1> QED
  BY <1>1, <1>2, <1>3, QueueInvStep, PTL DEF SafeSpec, Abstract!SafeSpec
=============================================================================
