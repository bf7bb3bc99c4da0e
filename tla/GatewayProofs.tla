---------------------------- MODULE GatewayProofs ----------------------------
(* That slots are counted, leases given back and responses not cut, for any
   requests, limits and payloads. *)
EXTENDS Gateway, FiniteSetTheorems, SequenceTheorems, TLAPS

(* The tokens in the channel are those of the requests that hold one. *)
Holders == {r \in Requests : holds[r]}

Counted ==
    /\ holds \in [Requests -> BOOLEAN]
    /\ IsFiniteSet(Holders)
    /\ slots = Cardinality(Holders)
    /\ SlotLimit > 0 => slots <= SlotLimit

(* The types of the other variables *)
Typed ==
    /\ running \in BOOLEAN
    /\ boots \in Nat
    /\ faults \in Nat
    /\ kind \in [Requests -> Kinds \cup {"none"}]
    /\ pc \in [Requests -> Active \cup {"idle", "done", "lost"}]
    /\ todo \in [Requests -> Seq({"uploaded", "inline"})]
    /\ temporary \in [Requests -> BOOLEAN]
    /\ lease \in [Requests -> BOOLEAN]
    /\ answer \in [Requests -> {"none", "busy", "timeout", "error", "badgateway",
                                "served", "upstream"}]
    /\ late \in [Requests -> BOOLEAN]
    /\ gone \in [Requests -> BOOLEAN]
    /\ ctxErr \in [Requests -> {"none", "deadline", "canceled"}]
    /\ clientDone \in [Requests -> BOOLEAN]
    /\ readDeadline \in [Requests -> {"none", "set", "cleared"}]
    /\ afterFunc \in [Requests -> {"none", "registered", "stopped", "running", "ran"}]
    /\ upstreamDone \in [Requests -> BOOLEAN]

(* What holds of a request at each place of its handler *)
Placed(r) ==
    /\ pc[r] \in {"check", "clear", "write", "stream"} => afterFunc[r] # "registered"
    /\ pc[r] \in {"clear", "write", "stream"} => afterFunc[r] \notin {"running", "ran"}
    /\ afterFunc[r] \in {"running", "ran"} => ctxErr[r] # "none"
    /\ pc[r] \in {"write", "stream"} => readDeadline[r] = "cleared"
    /\ lease[r] => pc[r] \in {"opened", "download", "parts"}
    /\ pc[r] \in {"body", "expand", "convert", "parts"} => kind[r] = "inference"
    /\ pc[r] \in {"files", "opened", "download"} => kind[r] = "files"
    /\ pc[r] = "download" => ~holds[r]
    /\ pc[r] \in {"expand", "convert", "parts"} => todo[r] # <<>>
    /\ SlotLimit > 0 /\ pc[r] \in Preparing => holds[r]
    /\ holds[r] => pc[r] \in Active

GatewayInv == Counted /\ Typed /\ \A r \in Requests : Placed(r)

(* What is left of a list of references after its first *)
LEMMA TailOfReferences ==
    ASSUME NEW s \in Seq({"uploaded", "inline"}), s # <<>>
    PROVE  /\ Tail(s) \in Seq({"uploaded", "inline"})
           /\ Len(s) # 1 => Tail(s) # <<>>
<1>1. /\ Len(s) \in Nat \ {0}
      /\ Tail(s) \in Seq({"uploaded", "inline"})
      /\ Len(Tail(s)) = Len(s) - 1
  BY EmptySeq, HeadTailProperties
<1>2. Tail(s) = <<>> => Len(s) = 1
  BY <1>1, EmptySeq
<1>. QED
  BY <1>1, <1>2

(* The release of a slot takes out the token of its own request, at most once
   (the OnceFunc of withConcurrencyLimit). *)
LEMMA ReleaseCounts ==
    ASSUME Counted, NEW r \in Requests, ReleaseSlot(r)
    PROVE  /\ Counted'
           /\ holds' = [holds EXCEPT ![r] = FALSE]
<1>1. CASE ~holds[r]
  BY <1>1 DEF ReleaseSlot, MustRelease, slotVars, Counted, Holders
<1>2. CASE holds[r]
  <2>1. slots' = slots - 1 /\ holds' = [holds EXCEPT ![r] = FALSE]
    BY <1>2 DEF ReleaseSlot, MustRelease
  <2>2. Holders' = Holders \ {r} /\ r \in Holders
    BY <1>2, <2>1 DEF Counted, Holders
  <2>3. /\ IsFiniteSet(Holders') /\ Cardinality(Holders') = Cardinality(Holders) - 1
        /\ Cardinality(Holders) \in Nat
    BY <2>2, FS_RemoveElement, FS_CardinalityType DEF Counted
  <2>. QED
    BY <2>1, <2>3, GatewayAssumption DEF Counted
<1>. QED
  BY <1>1, <1>2

(* A request that arrives takes a token of its own if one is free. *)
LEMMA ArrivalCounts ==
    ASSUME Counted, NEW r \in Requests, ~holds[r], SlotFree, SlotLimit # 0,
           slots' = slots + 1, holds' = [holds EXCEPT ![r] = TRUE]
    PROVE  Counted'
<1>1. Holders' = Holders \cup {r} /\ r \notin Holders
  BY DEF Counted, Holders
<1>2. /\ IsFiniteSet(Holders') /\ Cardinality(Holders') = Cardinality(Holders) + 1
      /\ Cardinality(Holders) \in Nat
  BY <1>1, FS_AddElement, FS_CardinalityType DEF Counted
<1>. QED
  BY <1>2, GatewayAssumption DEF Counted, SlotFree

(* No request has come yet. *)
LEMMA GatewayStarts == Init => GatewayInv
<1> SUFFICES ASSUME Init PROVE GatewayInv
  OBVIOUS
<1>1. Holders = {}
  BY DEF Init, Holders
<1>2. Counted
  BY <1>1, FS_EmptySet, GatewayAssumption DEF Init, Counted
<1>3. Typed
  <2>1. todo \in [Requests -> Seq({"uploaded", "inline"})]
    BY DEF Init
  <2>2. pc \in [Requests -> Active \cup {"idle", "done", "lost"}]
    BY DEF Init
  <2>. QED
    BY <2>1, <2>2 DEF Init, Typed
<1>4. \A r \in Requests : Placed(r)
  BY DEF Init, Placed, Preparing, Forwarding
<1>. QED
  BY <1>2, <1>3, <1>4 DEF GatewayInv

(* The tokens are counted through every step. *)
LEMMA SlotsAreCounted == GatewayInv /\ [Next]_vars => Counted'
<1> SUFFICES ASSUME GatewayInv, [Next]_vars PROVE Counted'
  OBVIOUS
<1>. USE DEF GatewayInv
<1>1. ASSUME UNCHANGED slotVars PROVE Counted'
  BY <1>1 DEF slotVars, Counted, Holders
<1>2. ASSUME NEW r \in Requests, NEW k \in Kinds, Arrive(r, k) PROVE Counted'
  <2>1. ~holds[r]
    BY <1>2 DEF Arrive, Placed, Active, Preparing, Forwarding, Ending
  <2>. QED
    BY <1>1, <1>2, <2>1, ArrivalCounts DEF Arrive
<1>3. ASSUME NEW r \in Requests, HandlerStep(r) \/ ClockStep(r) \/ Occurrence(r)
      PROVE  UNCHANGED slotVars \/ ReleaseSlot(r)
  <2>1. CASE BodyTimesOut(r)
    BY <2>1 DEF BodyTimesOut, Respond
  <2>2. CASE CreateRequestDirectory(r)
    BY <2>2 DEF CreateRequestDirectory
  <2>3. CASE ConvertInline(r)
    BY <2>3 DEF ConvertInline
  <2>4. CASE ReadParts(r)
    BY <2>4 DEF ReadParts
  <2>5. CASE ExpansionEnds(r)
    BY <2>5 DEF ExpansionEnds, WriteAnyError, Respond
  <2>6. CASE Forward(r)
    BY <2>6 DEF Forward
  <2>7. CASE ForwardTooLate(r)
    BY <2>7 DEF ForwardTooLate, WriteAnyError, Respond
  <2>8. CASE UpstreamFails(r)
    BY <2>8 DEF UpstreamFails, WriteUpstreamError, Respond
  <2>9. CASE StopTimeout(r)
    BY <2>9 DEF StopTimeout
  <2>10. CASE CheckContext(r)
    BY <2>10 DEF CheckContext, WriteUpstreamError, Respond
  <2>11. CASE ClearDeadlines(r)
    BY <2>11 DEF ClearDeadlines
  <2>12. CASE WriteHeader(r)
    BY <2>12 DEF WriteHeader, Respond
  <2>13. CASE CleanUp(r)
    BY <2>13 DEF CleanUp
  <2>14. CASE Finish(r)
    BY <2>14 DEF Finish
  <2>15. CASE DeadlinePasses(r)
    BY <2>15 DEF DeadlinePasses
  <2>16. CASE TimeOut(r)
    BY <2>16 DEF TimeOut
  <2>17. CASE CancelUpstream(r)
    BY <2>17 DEF CancelUpstream
  <2>18. CASE Refuse(r)
    BY <2>18 DEF Refuse, Respond
  <2>19. CASE ServeFiles(r)
    BY <2>19 DEF ServeFiles, WriteAnyError, Respond
  <2>20. CASE ReadBody(r)
    BY <2>20 DEF ReadBody
  <2>21. CASE ResolveDocument(r)
    BY <2>21 DEF ResolveDocument
  <2>22. CASE DocumentFails(r)
    BY <2>22 DEF DocumentFails, WriteAnyError, Respond
  <2>23. CASE UpstreamResponds(r)
    BY <2>23 DEF UpstreamResponds
  <2>24. CASE EndStream(r)
    BY <2>24 DEF EndStream
  <2>25. CASE ReadDeadlineExpires(r)
    BY <2>25 DEF ReadDeadlineExpires
  <2>26. CASE Disconnect(r)
    BY <2>26 DEF Disconnect
  <2>27. CASE OpenContent(r)
    BY <2>27 DEF OpenContent
  <2>28. CASE StartContent(r)
    BY <2>28 DEF StartContent, Respond
  <2>29. CASE EndContent(r)
    BY <2>29 DEF EndContent
  <2>. QED
    BY <1>3, <2>1, <2>2, <2>3, <2>4, <2>5, <2>6, <2>7, <2>8, <2>9, <2>10, <2>11,
       <2>12, <2>13, <2>14, <2>15, <2>16, <2>17, <2>18, <2>19, <2>20, <2>21,
       <2>22, <2>23, <2>24, <2>25, <2>26, <2>27, <2>28, <2>29 DEF HandlerStep, ClockStep, Occurrence,
       UpstreamCancelled
<1>4. CASE Crash
  <2>1. holds' = [r \in Requests |-> FALSE] /\ slots' = 0
    BY <1>4 DEF Crash
  <2>2. Holders' = {}
    BY <2>1 DEF Holders
  <2>. QED
    BY <2>1, <2>2, FS_EmptySet, GatewayAssumption DEF Counted
<1>5. CASE Boot \/ UNCHANGED vars
  BY <1>1, <1>5 DEF Boot, vars
<1>. QED
  BY <1>1, <1>2, <1>3, <1>4, <1>5, ReleaseCounts DEF Next

(* Types are kept by every step. *)
LEMMA TypesKept == GatewayInv /\ [Next]_vars => Typed'
<1> SUFFICES ASSUME GatewayInv, [Next]_vars PROVE Typed'
  OBVIOUS
<1>. USE DEF GatewayInv, Typed, Goto, Preparing, Forwarding, Ending, Active,
        processVars, slotVars, documentVars, clockVars,
        contextVars
<1>1. ASSUME NEW r \in Requests, NEW k \in Kinds, Arrive(r, k) PROVE Typed'
  <2>1. FirstPlace(k) \in Active
    BY DEF FirstPlace, Kinds
  <2>2. pc' \in [Requests -> Active \cup {"idle", "done", "lost"}]
    <3>1. \/ pc' = [pc EXCEPT ![r] = FirstPlace(k)]
          \/ pc' = [pc EXCEPT ![r] = "done"]
      BY <1>1 DEF Arrive
    <3>. QED
      BY <2>1, <3>1
  <2>3. kind' \in [Requests -> Kinds \cup {"none"}]
    BY <1>1 DEF Arrive
  <2>4. readDeadline' \in [Requests -> {"none", "set", "cleared"}]
    BY <1>1 DEF Arrive
  <2>5. answer' \in [Requests -> {"none", "busy", "timeout", "error", "badgateway",
                                 "served", "upstream"}]
    BY <1>1 DEF Arrive
  <2>. QED
    BY <1>1, <2>2, <2>3, <2>4, <2>5 DEF Arrive
<1>2. ASSUME NEW r \in Requests, HandlerStep(r) \/ ClockStep(r) \/ Occurrence(r)
      PROVE  Typed'
  <2>1. CASE BodyTimesOut(r)
    BY <2>1 DEF BodyTimesOut, Respond, ReleaseSlot, MustRelease
  <2>2. CASE CreateRequestDirectory(r)
    BY <2>2 DEF CreateRequestDirectory
  <2>3. CASE ConvertInline(r)
    BY <2>3 DEF ConvertInline
  <2>4. CASE ReadParts(r)
    <3>1. Tail(todo[r]) \in Seq({"uploaded", "inline"})
      BY <2>4, TailOfReferences DEF ReadParts, Placed
    <3>2. todo' \in [Requests -> Seq({"uploaded", "inline"})]
      BY <2>4, <3>1 DEF ReadParts
    <3>3. pc' \in [Requests -> Active \cup {"idle", "done", "lost"}]
      BY <2>4 DEF ReadParts
    <3>. QED
      BY <2>4, <3>2, <3>3 DEF ReadParts, ReleaseLease
  <2>5. CASE ExpansionEnds(r)
    BY <2>5 DEF ExpansionEnds, WriteAnyError, Respond, ReleaseSlot, MustRelease
  <2>6. CASE Forward(r)
    BY <2>6 DEF Forward
  <2>7. CASE ForwardTooLate(r)
    BY <2>7 DEF ForwardTooLate, WriteAnyError, Respond, ReleaseSlot, MustRelease
  <2>8. CASE UpstreamFails(r)
    BY <2>8 DEF UpstreamFails, WriteUpstreamError, Respond, ReleaseSlot,
       MustRelease
  <2>9. CASE StopTimeout(r)
    BY <2>9 DEF StopTimeout, Stopped
  <2>10. CASE CheckContext(r)
    BY <2>10 DEF CheckContext, WriteUpstreamError, Respond, ReleaseSlot,
       MustRelease
  <2>11. CASE ClearDeadlines(r)
    BY <2>11 DEF ClearDeadlines, Lifted
  <2>12. CASE WriteHeader(r)
    BY <2>12 DEF WriteHeader, Respond, ReleaseSlot, MustRelease
  <2>13. CASE CleanUp(r)
    <3>1. faults' \in Nat
      BY <2>13 DEF CleanUp
    <3>5. temporary' \in [Requests -> BOOLEAN]
      BY <2>13 DEF CleanUp, DirectoryAfter
    <3>2. pc' \in [Requests -> Active \cup {"idle", "done", "lost"}]
      BY <2>13 DEF CleanUp
    <3>3. /\ afterFunc' \in [Requests -> {"none", "registered", "stopped", "running", "ran"}]
          /\ upstreamDone' \in [Requests -> BOOLEAN]
      BY <2>13 DEF CleanUp, Stopped
    <3>. QED
      BY <2>13, <3>1, <3>2, <3>3, <3>5 DEF CleanUp
  <2>14. CASE Finish(r)
    <3>1. todo' \in [Requests -> Seq({"uploaded", "inline"})]
      BY <2>14 DEF Finish, Dissolve
    <3>2. /\ lease' \in [Requests -> BOOLEAN]
          /\ late' \in [Requests -> BOOLEAN]
          /\ clientDone' \in [Requests -> BOOLEAN]
          /\ upstreamDone' \in [Requests -> BOOLEAN]
      BY <2>14 DEF Finish, Dissolve
    <3>3. /\ ctxErr' \in [Requests -> {"none", "deadline", "canceled"}]
          /\ readDeadline' \in [Requests -> {"none", "set", "cleared"}]
          /\ afterFunc' \in [Requests -> {"none", "registered", "stopped", "running", "ran"}]
      BY <2>14 DEF Finish, Dissolve
    <3>4. pc' \in [Requests -> Active \cup {"idle", "done", "lost"}]
      BY <2>14 DEF Finish
    <3>. QED
      BY <2>14, <3>1, <3>2, <3>3, <3>4 DEF Finish
  <2>15. CASE DeadlinePasses(r)
    BY <2>15 DEF DeadlinePasses
  <2>16. CASE TimeOut(r)
    BY <2>16 DEF TimeOut, EndContext
  <2>17. CASE CancelUpstream(r)
    BY <2>17 DEF CancelUpstream
  <2>18. CASE Refuse(r)
    BY <2>18 DEF Refuse, Respond, ReleaseSlot, MustRelease
  <2>19. CASE ServeFiles(r)
    BY <2>19 DEF ServeFiles, WriteAnyError, Respond, ReleaseSlot, MustRelease
  <2>20. CASE ReadBody(r)
    <3>1. PICK documents \in DocumentLists :
            /\ todo' = [todo EXCEPT ![r] = documents]
            /\ Goto(r, IF documents = <<>> THEN "forward" ELSE "expand")
      BY <2>20 DEF ReadBody
    <3>2. documents \in Seq({"uploaded", "inline"})
      BY GatewayAssumption
    <3>3. todo' \in [Requests -> Seq({"uploaded", "inline"})]
      BY <3>1, <3>2
    <3>4. pc' \in [Requests -> Active \cup {"idle", "done", "lost"}]
      BY <3>1
    <3>. QED
      BY <2>20, <3>3, <3>4 DEF ReadBody
  <2>21. CASE ResolveDocument(r)
    BY <2>21 DEF ResolveDocument
  <2>22. CASE DocumentFails(r)
    BY <2>22 DEF DocumentFails, ReleaseLease, WriteAnyError, Respond,
       ReleaseSlot, MustRelease
  <2>23. CASE UpstreamResponds(r)
    BY <2>23 DEF UpstreamResponds
  <2>24. CASE EndStream(r)
    BY <2>24 DEF EndStream
  <2>25. CASE ReadDeadlineExpires(r)
    BY <2>25 DEF ReadDeadlineExpires, EndClientContext, EndContext
  <2>26. CASE Disconnect(r)
    BY <2>26 DEF Disconnect, EndClientContext, EndContext
  <2>27. CASE OpenContent(r)
    BY <2>27 DEF OpenContent
  <2>28. CASE StartContent(r)
    BY <2>28 DEF StartContent, Respond, ReleaseSlot, MustRelease
  <2>29. CASE EndContent(r)
    BY <2>29 DEF EndContent, ReleaseLease
  <2>. QED
    BY <1>2, <2>1, <2>2, <2>3, <2>4, <2>5, <2>6, <2>7, <2>8, <2>9, <2>10, <2>11,
       <2>12, <2>13, <2>14, <2>15, <2>16, <2>17, <2>18, <2>19, <2>20, <2>21,
       <2>22, <2>23, <2>24, <2>25, <2>26, <2>27, <2>28, <2>29 DEF HandlerStep, ClockStep, Occurrence,
       UpstreamCancelled
<1>3. CASE Boot
  BY <1>3 DEF Boot, StaleAfter
<1>4. CASE Crash
  <2>1. todo' \in [Requests -> Seq({"uploaded", "inline"})]
    BY <1>4 DEF Crash, Dissolve
  <2>2. /\ lease' \in [Requests -> BOOLEAN]
        /\ late' \in [Requests -> BOOLEAN]
        /\ clientDone' \in [Requests -> BOOLEAN]
        /\ upstreamDone' \in [Requests -> BOOLEAN]
    BY <1>4 DEF Crash, Dissolve
  <2>3. /\ ctxErr' \in [Requests -> {"none", "deadline", "canceled"}]
        /\ readDeadline' \in [Requests -> {"none", "set", "cleared"}]
        /\ afterFunc' \in [Requests -> {"none", "registered", "stopped", "running", "ran"}]
    BY <1>4 DEF Crash, Dissolve
  <2>4. pc' \in [Requests -> Active \cup {"idle", "done", "lost"}]
    BY <1>4 DEF Crash
  <2>. QED
    BY <1>4, <2>1, <2>2, <2>3, <2>4 DEF Crash
<1>5. CASE UNCHANGED vars
  BY <1>5 DEF vars
<1>. QED
  BY <1>1, <1>2, <1>3, <1>4, <1>5 DEF Next

(* Every step leaves a request at a place where it has what belongs there. *)
LEMMA PlacesKept == GatewayInv /\ [Next]_vars => (\A q \in Requests : Placed(q))'
<1> SUFFICES ASSUME GatewayInv, [Next]_vars PROVE (\A q \in Requests : Placed(q))'
  OBVIOUS
<1>. USE DEF GatewayInv, Typed, Counted, Placed, Goto, Preparing, Forwarding, Ending, Active,
        processVars, slotVars, documentVars, clockVars,
        contextVars
<1>1. ASSUME NEW r \in Requests, NEW k \in Kinds, Arrive(r, k) PROVE (\A q \in Requests : Placed(q))'
  BY <1>1 DEF Arrive, FirstPlace, Kinds
<1>2. ASSUME NEW r \in Requests, HandlerStep(r) \/ ClockStep(r) \/ Occurrence(r)
      PROVE  (\A q \in Requests : Placed(q))'
  <2>1. CASE BodyTimesOut(r)
    BY <2>1 DEF BodyTimesOut, Respond, ReleaseSlot, MustRelease
  <2>2. CASE CreateRequestDirectory(r)
    BY <2>2 DEF CreateRequestDirectory
  <2>3. CASE ConvertInline(r)
    BY <2>3 DEF ConvertInline
  <2>4. CASE ReadParts(r)
    <3>1. todo[r] # <<>> /\ todo[r] \in Seq({"uploaded", "inline"})
      BY <2>4 DEF ReadParts
    <3>2. Len(todo[r]) # 1 => Tail(todo[r]) # <<>>
      BY <3>1, TailOfReferences
    <3>3. ~lease'[r] /\ \A q \in Requests \ {r} : lease'[q] = lease[q]
      BY <2>4 DEF ReadParts, ReleaseLease
    <3>4. Placed(r)'
      BY <2>4, <3>2, <3>3 DEF ReadParts
    <3>5. \A q \in Requests \ {r} : Placed(q)'
      BY <2>4, <3>3 DEF ReadParts
    <3>. QED
      BY <3>4, <3>5
  <2>5. CASE ExpansionEnds(r)
    BY <2>5 DEF ExpansionEnds, WriteAnyError, Respond, ReleaseSlot, MustRelease
  <2>6. CASE Forward(r)
    BY <2>6 DEF Forward
  <2>7. CASE ForwardTooLate(r)
    BY <2>7 DEF ForwardTooLate, WriteAnyError, Respond, ReleaseSlot, MustRelease
  <2>8. CASE UpstreamFails(r)
    BY <2>8 DEF UpstreamFails, WriteUpstreamError, Respond, ReleaseSlot,
       MustRelease
  <2>9. CASE StopTimeout(r)
    BY <2>9 DEF StopTimeout, Stopped
  <2>10. CASE CheckContext(r)
    BY <2>10 DEF CheckContext, WriteUpstreamError, Respond, ReleaseSlot,
       MustRelease
  <2>11. CASE ClearDeadlines(r)
    BY <2>11 DEF ClearDeadlines, Lifted
  <2>12. CASE WriteHeader(r)
    BY <2>12 DEF WriteHeader, Respond, ReleaseSlot, MustRelease
  <2>13. CASE CleanUp(r)
    BY <2>13 DEF CleanUp, Stopped, DirectoryAfter
  <2>14. CASE Finish(r)
    BY <2>14 DEF Finish, ReleaseSlot, MustRelease, Dissolve
  <2>15. CASE DeadlinePasses(r)
    BY <2>15 DEF DeadlinePasses
  <2>16. CASE TimeOut(r)
    BY <2>16 DEF TimeOut, EndContext
  <2>17. CASE CancelUpstream(r)
    BY <2>17 DEF CancelUpstream
  <2>18. CASE Refuse(r)
    BY <2>18 DEF Refuse, Respond, ReleaseSlot, MustRelease
  <2>19. CASE ServeFiles(r)
    BY <2>19 DEF ServeFiles, WriteAnyError, Respond, ReleaseSlot, MustRelease
  <2>20. CASE ReadBody(r)
    BY <2>20 DEF ReadBody
  <2>21. CASE ResolveDocument(r)
    BY <2>21 DEF ResolveDocument
  <2>22. CASE DocumentFails(r)
    BY <2>22 DEF DocumentFails, ReleaseLease, WriteAnyError, Respond,
       ReleaseSlot, MustRelease
  <2>23. CASE UpstreamResponds(r)
    BY <2>23 DEF UpstreamResponds
  <2>24. CASE EndStream(r)
    BY <2>24 DEF EndStream
  <2>25. CASE ReadDeadlineExpires(r)
    BY <2>25 DEF ReadDeadlineExpires, EndClientContext, EndContext
  <2>26. CASE Disconnect(r)
    BY <2>26 DEF Disconnect, EndClientContext, EndContext
  <2>27. CASE OpenContent(r)
    BY <2>27 DEF OpenContent
  <2>28. CASE StartContent(r)
    BY <2>28 DEF StartContent, Respond, ReleaseSlot, MustRelease
  <2>29. CASE EndContent(r)
    BY <2>29 DEF EndContent, ReleaseLease
  <2>. QED
    BY <1>2, <2>1, <2>2, <2>3, <2>4, <2>5, <2>6, <2>7, <2>8, <2>9, <2>10, <2>11,
       <2>12, <2>13, <2>14, <2>15, <2>16, <2>17, <2>18, <2>19, <2>20, <2>21,
       <2>22, <2>23, <2>24, <2>25, <2>26, <2>27, <2>28, <2>29 DEF HandlerStep, ClockStep, Occurrence,
       UpstreamCancelled
<1>3. CASE Boot
  BY <1>3 DEF Boot, StaleAfter
<1>4. CASE Crash
  BY <1>4 DEF Crash, Dissolve
<1>5. CASE UNCHANGED vars
  BY <1>5 DEF vars
<1>. QED
  BY <1>1, <1>2, <1>3, <1>4, <1>5 DEF Next

(* The invariant is kept by every step. *)
LEMMA GatewayKeeps == GatewayInv /\ [Next]_vars => GatewayInv'
BY SlotsAreCounted, TypesKept, PlacesKept DEF GatewayInv

(* The types of the gateway's state *)
THEOREM GatewayTypes == SafeSpec => []TypeOK
<1>1. GatewayInv => TypeOK
  BY FS_CardinalityType DEF GatewayInv, Counted, Typed, TypeOK
<1>. QED
  BY GatewayStarts, GatewayKeeps, <1>1, PTL DEF SafeSpec

(* No more requests are being prepared than there are slots, however they end
   (withConcurrencyLimit, slotResponseWriter). *)
THEOREM SlotsBoundPreparing == SafeSpec => []PreparingIsBounded
<1>1. GatewayInv => PreparingIsBounded
  <2> SUFFICES ASSUME GatewayInv, SlotLimit > 0
               PROVE  /\ Cardinality({r \in Requests : pc[r] \in Preparing}) <= slots
                      /\ slots <= SlotLimit
    BY DEF PreparingIsBounded
  <2>1. {r \in Requests : pc[r] \in Preparing} \subseteq Holders
    BY DEF GatewayInv, Placed, Holders
  <2>. QED
    BY <2>1, FS_Subset DEF GatewayInv, Counted
<1>. QED
  BY GatewayStarts, GatewayKeeps, <1>1, PTL DEF SafeSpec

(* Past startResponse's check the timeout function neither runs nor will
   (responseContext). *)
THEOREM TimeoutIsStopped == SafeSpec => []AfterFuncNeverCuts
<1>1. GatewayInv => AfterFuncNeverCuts
  BY DEF GatewayInv, Placed, AfterFuncNeverCuts
<1>. QED
  BY GatewayStarts, GatewayKeeps, <1>1, PTL DEF SafeSpec

(* A lease is held by an inference request that reads a document, or by a
   download until its client has the content or is gone, and then without a slot
   (document.release, the deferred release of retrieveContent). *)
THEOREM LeasesAreShort == SafeSpec => []LeaseEndsWithReading
<1>1. GatewayInv => LeaseEndsWithReading
  BY DEF GatewayInv, Placed, LeaseEndsWithReading
<1>. QED
  BY GatewayStarts, GatewayKeeps, <1>1, PTL DEF SafeSpec

(* What may end the request to vLLM is the client, or a step that the request
   cannot take while its response is delivered. *)
LEMMA DeliveryKept ==
    ASSUME GatewayInv, Next, NEW q \in Requests,
           pc[q] \in {"write", "stream"}, pc'[q] \in {"write", "stream"},
           upstreamDone[q] # upstreamDone'[q]
    PROVE  gone'[q]
<1>. USE DEF GatewayInv, Typed, Placed, Goto, contextVars, clockVars
<1>1. ~ \E r \in Requests, k \in Kinds : Arrive(r, k)
  BY DEF Arrive
<1>2. ASSUME NEW r \in Requests, HandlerStep(r) PROVE gone'[q]
  <2>1. CASE Forward(r)
    BY <2>1 DEF Forward
  <2>2. CASE CleanUp(r)
    BY <2>2 DEF CleanUp
  <2>3. CASE Finish(r)
    BY <2>3 DEF Finish, Dissolve
  <2>4. Forward(r) \/ CleanUp(r) \/ Finish(r) \/ UNCHANGED upstreamDone
    BY <1>2 DEF HandlerStep, BodyTimesOut, CreateRequestDirectory, ConvertInline,
       ReadParts, ExpansionEnds, ForwardTooLate, UpstreamCancelled, UpstreamFails,
       StopTimeout, CheckContext, ClearDeadlines, WriteHeader, StartContent
  <2>. QED
    BY <2>1, <2>2, <2>3, <2>4
<1>3. ASSUME NEW r \in Requests, ClockStep(r) PROVE gone'[q]
  <2>1. CASE CancelUpstream(r)
    BY <2>1 DEF CancelUpstream
  <2>2. CancelUpstream(r) \/ UNCHANGED upstreamDone
    BY <1>3 DEF ClockStep, DeadlinePasses, TimeOut
  <2>. QED
    BY <2>1, <2>2
<1>4. ASSUME NEW r \in Requests, Occurrence(r) PROVE gone'[q]
  <2>1. CASE ReadDeadlineExpires(r)
    BY <2>1 DEF ReadDeadlineExpires, EndClientContext, EndContext
  <2>2. CASE Disconnect(r)
    BY <2>2 DEF Disconnect, EndClientContext, EndContext
  <2>3. ReadDeadlineExpires(r) \/ Disconnect(r) \/ UNCHANGED upstreamDone
    BY <1>4 DEF Occurrence, Refuse, ServeFiles, OpenContent, EndContent, ReadBody, ResolveDocument,
       DocumentFails, UpstreamResponds, UpstreamFails, EndStream
  <2>. QED
    BY <2>1, <2>2, <2>3
<1>5. ~Boot
  BY DEF Boot
<1>6. ~Crash
  BY DEF Crash, Active, Preparing, Forwarding, Ending
<1>. QED
  BY <1>1, <1>2, <1>3, <1>4, <1>5, <1>6 DEF Next

(* Only its client ends a delivery under way (startResponse). *)
THEOREM DeliveriesRunOn == SafeSpec => DeliveryIsNotCut
<1>1. GatewayInv /\ [Next]_vars
        => [\A r \in Requests :
              LET Delivering(place) == place \in {"write", "stream"} IN
              /\ Delivering(pc[r]) /\ Delivering(pc'[r])
              /\ upstreamDone[r] # upstreamDone'[r]
              => gone'[r]]_vars
  BY DeliveryKept
<1>. QED
  BY GatewayStarts, GatewayKeeps, <1>1, PTL DEF SafeSpec, DeliveryIsNotCut

(* The directories whose request is over *)
Abandoned == {r \in Requests : temporary[r] /\ pc[r] \notin Active \ {"finish"}}

Reclaimed == running => IsFiniteSet(Abandoned) /\ Cardinality(Abandoned) <= faults

(* A step leaves no directory behind, but for one it could not remove. *)
LEMMA StepsLeaveNothing ==
    ASSUME GatewayInv, NEW r \in Requests,
           \/ HandlerStep(r) \/ ClockStep(r) \/ Occurrence(r)
           \/ \E k \in Kinds : Arrive(r, k)
    PROVE  /\ running' => running
           /\ \/ faults' = faults /\ Abandoned' \subseteq Abandoned
              \/ faults' = faults + 1 /\ Abandoned' \subseteq Abandoned \cup {r}
<1>. USE DEF GatewayInv, Typed, Abandoned, Goto, Active, Preparing, Forwarding, Ending,
        processVars, documentVars
<1>1. CASE \E k \in Kinds : Arrive(r, k)
  BY <1>1 DEF Arrive, FirstPlace
<1>2. CASE CleanUp(r)
  <2>1. running' = running
    BY <1>2 DEF CleanUp
  <2>2. CASE temporary' = [temporary EXCEPT ![r] = DirectoryAfter(r)] /\ UNCHANGED faults
    BY <1>2, <2>2 DEF CleanUp, DirectoryAfter
  <2>3. CASE faults' = faults + 1 /\ UNCHANGED temporary
    BY <1>2, <2>3 DEF CleanUp
  <2>. QED
    BY <1>2, <2>1, <2>2, <2>3 DEF CleanUp
<1>3. CASE Finish(r)
  BY <1>3 DEF Finish
<1>4. CASE CreateRequestDirectory(r)
  BY <1>4 DEF CreateRequestDirectory
<1>5. CASE BodyTimesOut(r) \/ ExpansionEnds(r) \/ ForwardTooLate(r) \/ UpstreamFails(r)
  BY <1>5 DEF BodyTimesOut, ExpansionEnds, ForwardTooLate, UpstreamFails
<1>6. CASE Refuse(r) \/ ServeFiles(r) \/ DocumentFails(r) \/ EndStream(r)
  BY <1>6 DEF Refuse, ServeFiles, DocumentFails, EndStream
<1>7. CASE ConvertInline(r) \/ ReadParts(r) \/ Forward(r) \/ ReadBody(r) \/ ResolveDocument(r)
  BY <1>7 DEF ConvertInline, ReadParts, Forward, ReadBody, ResolveDocument
<1>8. CASE \/ UpstreamResponds(r) \/ StopTimeout(r) \/ CheckContext(r)
           \/ ClearDeadlines(r) \/ WriteHeader(r)
  BY <1>8 DEF UpstreamResponds, StopTimeout, CheckContext, ClearDeadlines, WriteHeader
<1>9. CASE \/ DeadlinePasses(r) \/ TimeOut(r) \/ CancelUpstream(r)
           \/ ReadDeadlineExpires(r) \/ Disconnect(r)
  BY <1>9 DEF DeadlinePasses, TimeOut, CancelUpstream, ReadDeadlineExpires, Disconnect
<1>10. CASE OpenContent(r) \/ StartContent(r) \/ EndContent(r)
  BY <1>10 DEF OpenContent, StartContent, EndContent
<1>. QED
  BY <1>1, <1>2, <1>3, <1>4, <1>5, <1>6, <1>7, <1>8, <1>9, <1>10
     DEF HandlerStep, ClockStep, Occurrence, UpstreamCancelled

(* The directories left behind are as many as could not be removed
   (prepareDocument's clean-up, cleanupStaleRequestDirectories). *)
THEOREM DirectoriesAreReclaimed == SafeSpec => []TemporariesReclaimed
<1>1. Init => Reclaimed
  BY DEF Init, Reclaimed
<1>2. GatewayInv /\ Reclaimed /\ [Next]_vars => Reclaimed'
  <2> SUFFICES ASSUME GatewayInv, Reclaimed, [Next]_vars, running' PROVE Reclaimed'
    BY DEF Reclaimed
  <2>1. ASSUME NEW r \in Requests, running, Abandoned' \subseteq Abandoned \cup {r},
               \/ faults' = faults /\ Abandoned' \subseteq Abandoned
               \/ faults' = faults + 1
        PROVE  Reclaimed'
    <3>1. IsFiniteSet(Abandoned) /\ Cardinality(Abandoned) <= faults
      BY <2>1 DEF Reclaimed
    <3>2. IsFiniteSet(Abandoned \cup {r}) /\ Cardinality(Abandoned \cup {r}) <= faults + 1
      <4>1. Cardinality(Abandoned) \in Nat /\ faults \in Nat
        BY <3>1, FS_CardinalityType DEF GatewayInv, Typed
      <4>2. /\ IsFiniteSet(Abandoned \cup {r})
            /\ \/ Cardinality(Abandoned \cup {r}) = Cardinality(Abandoned)
               \/ Cardinality(Abandoned \cup {r}) = Cardinality(Abandoned) + 1
        BY <3>1, FS_AddElement
      <4>. QED
        BY <3>1, <4>1, <4>2
    <3>3. /\ Cardinality(Abandoned) \in Nat
          /\ Cardinality(Abandoned \cup {r}) \in Nat
          /\ faults \in Nat
      BY <3>1, <3>2, FS_CardinalityType DEF GatewayInv, Typed
    <3>4. CASE faults' = faults /\ Abandoned' \subseteq Abandoned
      <4>1. /\ IsFiniteSet(Abandoned') /\ Cardinality(Abandoned') \in Nat
            /\ Cardinality(Abandoned') <= Cardinality(Abandoned)
        BY <3>1, <3>4, FS_Subset, FS_CardinalityType
      <4>. QED
        BY <3>1, <3>3, <3>4, <4>1 DEF Reclaimed
    <3>5. CASE faults' = faults + 1
      <4>1. /\ IsFiniteSet(Abandoned') /\ Cardinality(Abandoned') \in Nat
            /\ Cardinality(Abandoned') <= Cardinality(Abandoned \cup {r})
        BY <2>1, <3>2, FS_Subset, FS_CardinalityType
      <4>. QED
        BY <3>2, <3>3, <3>5, <4>1 DEF Reclaimed
    <3>. QED
      BY <2>1, <3>4, <3>5
  <2>2. CASE \E r \in Requests : \/ HandlerStep(r) \/ ClockStep(r) \/ Occurrence(r)
                                \/ \E k \in Kinds : Arrive(r, k)
    <3>1. PICK r \in Requests : \/ HandlerStep(r) \/ ClockStep(r) \/ Occurrence(r)
                                \/ \E k \in Kinds : Arrive(r, k)
      BY <2>2
    <3>2. /\ running
          /\ \/ faults' = faults /\ Abandoned' \subseteq Abandoned
             \/ faults' = faults + 1 /\ Abandoned' \subseteq Abandoned \cup {r}
      BY <3>1, StepsLeaveNothing
    <3>. QED
      BY <2>1, <3>2
  <2>3. CASE Boot
    <3>1. Abandoned' = {}
      BY <2>3 DEF Boot, StaleAfter, Abandoned
    <3>. QED
      BY <2>3, <3>1, FS_EmptySet DEF Boot, Reclaimed, GatewayInv, Typed
  <2>4. CASE Crash
    BY <2>4 DEF Crash
  <2>5. CASE UNCHANGED vars
    BY <2>5 DEF vars, processVars, documentVars, Reclaimed, Abandoned
  <2>. QED
    BY <2>2, <2>3, <2>4, <2>5 DEF Next
<1>3. Reclaimed => TemporariesReclaimed
  BY DEF Reclaimed, Abandoned, TemporariesReclaimed
<1>. QED
  BY GatewayStarts, GatewayKeeps, <1>1, <1>2, <1>3, PTL DEF SafeSpec
=============================================================================
