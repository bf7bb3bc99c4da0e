----------------------------- MODULE WorkQueue ------------------------------
(***************************************************************************)
(* The two queues of src/internal/workqueue/queue.go.                      *)
(*                                                                         *)
(* capacity > 0 is boundedQueue: a buffered channel, on which Add and Get  *)
(* are selects against the context of the call.  A select with both cases  *)
(* ready takes either, so both actions are enabled.                        *)
(*                                                                         *)
(* capacity = 0 is unboundedQueue: a slice under a mutex, and a channel    *)
(* `ready' that Add closes and replaces to wake every Get that captured    *)
(* it.  `ready' is modelled by the number of channels replaced so far, a   *)
(* captured channel by that number: it is closed once the number moved on. *)
(* The steps are the critical sections and the selects between them.       *)
(***************************************************************************)
EXTENDS Naturals, Sequences

CONSTANTS
    Items,      \* the items, each the argument of one call of Add
    Consumers,  \* the goroutines that call Get in a loop
    Capacities  \* the capacities New is called with

ASSUME QueueAssumption == Capacities \subseteq Nat

VARIABLES
    capacity,   \* the argument of New
    items,      \* the channel's buffer or the slice
    ready,      \* which `ready' channel is current
    adder,      \* items -> where the Add of the item is
    getter,     \* consumers -> where its loop of Get is
    captured,   \* consumers -> the `ready' channel its Get waits on
    cancelled,  \* the calls whose context is done
    accepted,   \* history: the items put in the queue, in order
    delivered   \* history: the items Get returned, in order

vars == <<capacity, items, ready, adder, getter, captured, cancelled, accepted, delivered>>

AdderState == {"calling", "checked", "added", "dropped"}
GetterState == {"get", "wait", "quit"}

(* Values in range.  Of queue.go's two types, with Len(items) never above the
   channel's buffer (DESIGN.md:341, a positive capacity is the limit). *)
TypeOK ==
    /\ capacity \in Nat
    /\ items \in Seq(Items)
    /\ capacity > 0 => Len(items) <= capacity
    /\ ready \in Nat
    /\ adder \in [Items -> AdderState]
    /\ getter \in [Consumers -> GetterState]
    /\ captured \in [Consumers -> Nat]
    /\ cancelled \subseteq Items \cup Consumers
    /\ accepted \in Seq(Items)
    /\ delivered \in Seq(Items)

(* New *)
Init ==
    /\ capacity \in Capacities
    /\ items = <<>>
    /\ ready = 0
    /\ adder = [i \in Items |-> "calling"]
    /\ getter = [c \in Consumers |-> "get"]
    /\ captured = [c \in Consumers |-> 0]
    /\ cancelled = {}
    /\ accepted = <<>>
    /\ delivered = <<>>

Bounded == capacity > 0

(* Faulty variants of the helpers below, for mutation runs. *)
SendReadyIgnoresCapacity == Bounded
WakesNobody == ready
NewestFirst(s) == SubSeq(s, 1, Len(s) - 1)
NeverQuits(c) == FALSE
ForgetsItem(i) == UNCHANGED items /\ accepted' = Append(accepted, i)

(* The send case of boundedQueue.Add: the buffer has room. *)
SendReady == Bounded /\ Len(items) < capacity

(* close(queue.ready); queue.ready = make(chan struct{}) *)
NextReady == ready + 1

(* queue.items = queue.items[1:] *)
DropFirst(s) == Tail(s)

(* <-ctx.Done() in a Get *)
ContextDone(c) == c \in cancelled

Store(i) ==
    /\ items' = Append(items, i)
    /\ accepted' = Append(accepted, i)

----------------------------------------------------------------------------
(* boundedQueue.Add *)

Send(i) ==
    /\ adder[i] = "calling"
    /\ SendReady
    /\ Store(i)
    /\ adder' = [adder EXCEPT ![i] = "added"]
    /\ UNCHANGED <<capacity, ready, getter, captured, cancelled, delivered>>

(* Both Adds return false when their context is done; the unbounded one only
   looks once, before it takes the lock. *)
RefuseAdd(i) ==
    /\ adder[i] = "calling"
    /\ i \in cancelled
    /\ adder' = [adder EXCEPT ![i] = "dropped"]
    /\ UNCHANGED <<capacity, items, ready, getter, captured, cancelled, accepted, delivered>>

(* unboundedQueue.Add, the select with a default *)
CheckContext(i) ==
    /\ ~Bounded
    /\ adder[i] = "calling"
    /\ i \notin cancelled
    /\ adder' = [adder EXCEPT ![i] = "checked"]
    /\ UNCHANGED <<capacity, items, ready, getter, captured, cancelled, accepted, delivered>>

(* unboundedQueue.Add, the critical section *)
AppendItem(i) ==
    /\ adder[i] = "checked"
    /\ Store(i)
    /\ ready' = NextReady
    /\ adder' = [adder EXCEPT ![i] = "added"]
    /\ UNCHANGED <<capacity, getter, captured, cancelled, delivered>>

----------------------------------------------------------------------------
(* Get, which a consumer calls again after every item *)

(* The receive case of the bounded Get, and the unbounded Get's critical
   section when an item waits: neither looks at the context first. *)
Take(c) ==
    /\ getter[c] = "get"
    /\ items # <<>>
    /\ items' = DropFirst(items)
    /\ delivered' = Append(delivered, Head(items))
    /\ UNCHANGED <<capacity, ready, adder, getter, captured, cancelled, accepted>>

(* unboundedQueue.Get on an empty slice: capture `ready' before unlocking *)
Capture(c) ==
    /\ ~Bounded
    /\ getter[c] = "get"
    /\ items = <<>>
    /\ captured' = [captured EXCEPT ![c] = ready]
    /\ getter' = [getter EXCEPT ![c] = "wait"]
    /\ UNCHANGED <<capacity, items, ready, adder, cancelled, accepted, delivered>>

(* case <-ready *)
Wake(c) ==
    /\ getter[c] = "wait"
    /\ captured[c] # ready
    /\ getter' = [getter EXCEPT ![c] = "get"]
    /\ UNCHANGED <<capacity, items, ready, adder, captured, cancelled, accepted, delivered>>

(* case <-ctx.Done() of either select *)
Quit(c) ==
    /\ getter[c] = IF Bounded THEN "get" ELSE "wait"
    /\ ContextDone(c)
    /\ getter' = [getter EXCEPT ![c] = "quit"]
    /\ UNCHANGED <<capacity, items, ready, adder, captured, cancelled, accepted, delivered>>

(* The owner of a call cancels its context. *)
Cancel(x) ==
    /\ x \notin cancelled
    /\ cancelled' = cancelled \cup {x}
    /\ UNCHANGED <<capacity, items, ready, adder, getter, captured, accepted, delivered>>

----------------------------------------------------------------------------

AddStep(i) == Send(i) \/ RefuseAdd(i) \/ CheckContext(i) \/ AppendItem(i)
GetStep(c) == Take(c) \/ Capture(c) \/ Wake(c) \/ Quit(c)

Next ==
    \/ \E i \in Items : AddStep(i)
    \/ \E c \in Consumers : GetStep(c)
    \/ \E x \in Items \cup Consumers : Cancel(x)

(* Every goroutine inside Add or Get is scheduled again; nothing says that a
   context is ever cancelled. *)
Fairness ==
    /\ \A i \in Items : WF_vars(AddStep(i))
    /\ \A c \in Consumers : WF_vars(GetStep(c))

SafeSpec == Init /\ [][Next]_vars

Spec == SafeSpec /\ Fairness

----------------------------------------------------------------------------
(* Properties *)

(* A Get that sleeps on the current `ready' channel sleeps on an empty queue:
   between its critical section and its select (queue.go:83-89) no Add can
   slip in that it would not be woken by. *)
NoLostWakeup ==
    \A c \in Consumers :
        getter[c] = "wait" /\ captured[c] = ready => items = <<>>

(* Nothing is lost, duplicated or reordered between concurrent Adds and Gets:
   what was delivered followed by what waits is what was accepted. *)
FirstInFirstOut == accepted = delivered \o items

(* An item Add accepted reaches a consumer, unless every consumer was told to
   quit: in particular a broadcast to several sleepers is not wasted. *)
AcceptedIsDelivered ==
    \A i \in Items :
        adder[i] = "added" ~>
            \/ \E n \in 1..Len(delivered) : delivered[n] = i
            \/ \A c \in Consumers : getter[c] = "quit"

(* Queue's contract (queue.go:12-13): Get does not outlast its context for
   ever, neither asleep on `ready' nor blocked on the channel. *)
CancelledGetQuits == \A c \in Consumers : c \in cancelled ~> getter[c] = "quit"

----------------------------------------------------------------------------
(* The abstract queue.  An unbounded Add that passed its check is still
   calling, a Get asleep on `ready' is still getting. *)

AddedOf(i) == IF adder[i] = "checked" THEN "calling" ELSE adder[i]
QuittingOf == {c \in Consumers : getter[c] = "quit"}

Abstract == INSTANCE JobQueue WITH
    added <- [i \in Items |-> AddedOf(i)],
    quitting <- QuittingOf

(* queue.go implements the FIFO of module JobQueue, its safety and its
   progress. *)
ImplementsJobQueue == Abstract!Spec
=============================================================================
