------------------------------ MODULE JobQueue ------------------------------
(***************************************************************************)
(* What package workqueue promises of a Queue[T]: a FIFO shared by calls   *)
(* of Add and Get, each under a context of its own.  Adding and getting    *)
(* are single steps here; how the two queues of queue.go make them so is   *)
(* module WorkQueue, which implements this one.                            *)
(***************************************************************************)
EXTENDS Naturals, Sequences

CONSTANTS
    Items,      \* the items, each the argument of one call of Add
    Consumers,  \* the goroutines that call Get in a loop until it says quit
    Capacities  \* the capacities New is called with

VARIABLES
    capacity,   \* the bound on waiting items, 0 for the unbounded queue
    items,      \* the waiting items, oldest first
    added,      \* items -> "calling", "added" (Add returned true) or "dropped"
    quitting,   \* the consumers whose Get returned quit
    cancelled,  \* the calls (named by item or consumer) whose context is done
    delivered   \* history: the items Get returned, in order

vars == <<capacity, items, added, quitting, cancelled, delivered>>

Init ==
    /\ capacity \in Capacities
    /\ items = <<>>
    /\ added = [i \in Items |-> "calling"]
    /\ quitting = {}
    /\ cancelled = {}
    /\ delivered = <<>>

HasRoom == capacity = 0 \/ Len(items) < capacity

Add(i) ==
    /\ added[i] = "calling"
    /\ HasRoom
    /\ items' = Append(items, i)
    /\ added' = [added EXCEPT ![i] = "added"]
    /\ UNCHANGED <<capacity, quitting, cancelled, delivered>>

Drop(i) ==
    /\ added[i] = "calling"
    /\ i \in cancelled
    /\ added' = [added EXCEPT ![i] = "dropped"]
    /\ UNCHANGED <<capacity, items, quitting, cancelled, delivered>>

Get(c) ==
    /\ c \notin quitting
    /\ items # <<>>
    /\ items' = Tail(items)
    /\ delivered' = Append(delivered, Head(items))
    /\ UNCHANGED <<capacity, added, quitting, cancelled>>

Quit(c) ==
    /\ c \in cancelled \ quitting
    /\ quitting' = quitting \cup {c}
    /\ UNCHANGED <<capacity, items, added, cancelled, delivered>>

Cancel(x) ==
    /\ x \notin cancelled
    /\ cancelled' = cancelled \cup {x}
    /\ UNCHANGED <<capacity, items, added, quitting, delivered>>

Next ==
    \/ \E i \in Items : Add(i) \/ Drop(i)
    \/ \E c \in Consumers : Get(c) \/ Quit(c)
    \/ \E x \in Items \cup Consumers : Cancel(x)

(* No call waits for ever on an outcome it could have had all along. *)
Fairness ==
    /\ \A i \in Items : WF_vars(Add(i) \/ Drop(i))
    /\ \A c \in Consumers : WF_vars(Get(c) \/ Quit(c))

SafeSpec == Init /\ [][Next]_vars

Spec == SafeSpec /\ Fairness
=============================================================================
