--------------------------- MODULE HubSessionProofs ---------------------------
(* Proofs about a session of a computer hub tool server, for any calls, any
   number of binds and any capacity of inboxes and tombstones. *)
EXTENDS HubSession, FiniteSetTheorems, TLAPS

(* The inductive invariant. *)

\* A bind has room for the generation it makes, and only a new generation has not
\* been spawned; a registry to be cancelled exists.
OpFits ==
    /\ \A g \in Generations : g > gens => loops[g].at = "none"
    /\ op # None =>
        /\ op.kind = "bind" =>
            /\ op.at \in {"alive", "open"} => gens < MaxBinds
            /\ op.at \in {"inbox", "sem", "registry", "close", "drain", "spawn"} =>
                  op.gen = gens /\ op.gen \in Generations /\ loops[op.gen].at = "none"
            /\ op.at \in {"close", "drain", "spawn"} => registry = op.gen
        /\ op.kind = "unbind" => op.at \in {"registry", "close", "drain", "abort", "inbox", "sem"}
        /\ op.at \in {"close", "drain"} => op.old \in Generations

\* The entry of the registry is the loop's, until an operation has replaced it.
RegistryFits ==
    /\ \/ op = None
       \/ op.kind = "bind" /\ op.at \in {"alive", "open"}
       => (session_handle # 0 /\ loops[session_handle].at \notin TailSteps \cup {"dead"} => registry = session_handle)
    /\ op # None /\ op.kind = "unbind" /\ op.at \in {"inbox", "sem"} => session_handle = 0

\* Tombstones are finitely many.
PendingFinite == \A g \in Generations : IsFiniteSet(pending[g])

\* A registry is closed before it is drained.
ClosedFirst ==
    /\ drained \subseteq closed
    /\ op # None /\ op.at = "drain" => op.old \in closed
    /\ \A g \in Generations : loops[g].at = "tail_drain" => g \in closed

IsRequestAt(g, i) == i \in 1..Len(loops[g].queue) /\ loops[g].queue[i].kind = "request"

\* A request is in one place: with the reader, or once in one inbox.
RequestsOnce ==
    /\ reader # None /\ reader.at = "send" /\ reader.frame.kind = "request"
          => calls[reader.frame.call].at = "routing"
    /\ \A g \in Generations, i \in Nat :
          IsRequestAt(g, i) => calls[loops[g].queue[i].call].at = "queued"
    /\ \A g, h \in Generations, i, j \in Nat :
          /\ IsRequestAt(g, i) /\ IsRequestAt(h, j)
          /\ loops[g].queue[i].call = loops[h].queue[j].call
          => g = h /\ i = j

\* A loop registers one call, the one it has taken.
OneTaken ==
    /\ \A c \in Calls : calls[c].at = "taken" =>
          calls[c].gen \in Generations /\ loops[calls[c].gen].at \in RegisterSteps
    /\ \A g \in Generations : loops[g].at \in RegisterSteps =>
          \E c \in Calls : calls[c].at = "taken" /\ calls[c].gen = g
    /\ \A c, d \in Calls :
          calls[c].at = "taken" /\ calls[d].at = "taken" /\ calls[c].gen = calls[d].gen
             => c = d

\* A token that is not cancelled can still be reached through its registry.
TokenReachable ==
    \A c \in Calls : ~calls[c].cancelled =>
        /\ calls[c].at \in InFlight =>
              /\ calls[c].gen \in Generations \ drained
              /\ c \in live[calls[c].gen]
        /\ calls[c].at = "taken" /\ loops[calls[c].gen].at = "reg_recheck" =>
              c \in live[calls[c].gen]

\* A Cancel that was handled has cancelled the token, has left a tombstone for it,
\* or its registry was drained.
CancelKept ==
    \A g \in Generations, c \in Calls :
        <<g, c>> \in asked /\ ~calls[c].cancelled =>
            /\ calls[c].at \in {"unsent", "routing", "queued"} =>
                  c \in pending[g] \/ g \in drained
            /\ calls[c].at = "taken" /\ calls[c].gen = g =>
                  \/ g \in drained
                  \/ loops[g].at \in {"reg_closed", "reg_pending"} /\ c \in pending[g]
            /\ calls[c].at \in InFlight => calls[c].gen # g

IInv ==
    /\ TypeOK /\ OpFits /\ RegistryFits /\ PendingFinite
    /\ ClosedFirst /\ RequestsOnce /\ OneTaken /\ TokenReachable /\ CancelKept

------------------------------------------------------------------------------
(* Facts the steps rest on *)

LoopRecord == [at : LoopSteps, queue : Seq(Frames), aborted : BOOLEAN]
CallRecord == [at : CallSteps, gen : 0..MaxBinds, sem : 0..MaxBinds, cancelled : BOOLEAN]
ReaderRecord == [frame : Frames, gen : Generations, at : {"send", "evict"}]

\* TypeOK in two parts: shapes, and bounds on what is counted.
Shape ==
    /\ {inbox, registry, session_handle, sem, gens} \subseteq 0..MaxBinds
    /\ loops \in [Generations -> LoopRecord]
    /\ closed \subseteq Generations /\ drained \subseteq Generations
    /\ live \in [Generations -> SUBSET Calls]
    /\ pending \in [Generations -> SUBSET (Calls \cup {Straggler})]
    /\ calls \in [Calls -> CallRecord]
    /\ op = None \/ op \in OpRecord
    /\ reader = None \/ reader \in ReaderRecord
    /\ asked \subseteq Generations \X Calls

QueuesBounded == \A g \in Generations : Len(loops[g].queue) <= InboxCap
TombstonesBounded == \A g \in Generations : Cardinality(pending[g]) <= MaxTombstones

LEMMA TypeParts == TypeOK <=> Shape /\ QueuesBounded /\ TombstonesBounded
  BY DEF TypeOK, Shape, QueuesBounded, TombstonesBounded,
         LoopRecord, CallRecord, ReaderRecord

LEMMA TypePartsNext == TypeOK' <=> Shape' /\ QueuesBounded' /\ TombstonesBounded'
  BY DEF TypeOK, Shape, QueuesBounded, TombstonesBounded,
         LoopRecord, CallRecord, ReaderRecord

\* A loop that registers has taken a call, and Taken is that call.
LEMMA TakenIs ==
    ASSUME OneTaken, NEW g \in Generations, loops[g].at \in RegisterSteps
    PROVE  /\ Taken(g) \in Calls
           /\ calls[Taken(g)].at = "taken" /\ calls[Taken(g)].gen = g
           /\ \A c \in Calls : calls[c].at = "taken" /\ calls[c].gen = g => c = Taken(g)
  BY DEF OneTaken, Taken

\* What sending a frame to an inbox, and receiving the first one, leave in it.
LEMMA AppendIs ==
    ASSUME NEW S, NEW q \in Seq(S), NEW e \in S
    PROVE  /\ Len(Append(q, e)) = Len(q) + 1
           /\ Append(q, e)[Len(q) + 1] = e
           /\ \A i \in 1..Len(q) : Append(q, e)[i] = q[i]
  OBVIOUS

LEMMA HeadIs ==
    ASSUME Shape, NEW g \in Generations, loops[g].queue # <<>>
    PROVE  /\ Head(loops[g].queue) \in Frames
           /\ Head(loops[g].queue) = loops[g].queue[1]
           /\ Len(loops[g].queue) \in Nat \ {0}
           /\ Tail(loops[g].queue) \in Seq(Frames)
           /\ Len(Tail(loops[g].queue)) = Len(loops[g].queue) - 1
           /\ \A i \in 1..Len(loops[g].queue) - 1 :
                 Tail(loops[g].queue)[i] = loops[g].queue[i + 1]
  BY DEF Shape, LoopRecord

\* What each way to change a call or a loop does to it, field by field.
LEMMA CancelledIs ==
    ASSUME Shape, NEW S
    PROVE  /\ Cancelled(S) \in [Calls -> CallRecord]
           /\ \A c \in Calls :
                /\ Cancelled(S)[c].at = calls[c].at
                /\ Cancelled(S)[c].gen = calls[c].gen
                /\ Cancelled(S)[c].cancelled <=> calls[c].cancelled \/ c \in S
  BY DEF Shape, Cancelled, CallRecord

LEMMA CallAtIs ==
    ASSUME Shape, NEW c \in Calls, NEW step \in CallSteps, CallAt(c, step)
    PROVE  /\ calls' \in [Calls -> CallRecord]
           /\ \A d \in Calls :
                /\ calls'[d].at = IF d = c THEN step ELSE calls[d].at
                /\ calls'[d].gen = calls[d].gen
                /\ calls'[d].cancelled = calls[d].cancelled
  BY DEF Shape, CallAt, CallRecord

LEMMA LoopAtIs ==
    ASSUME Shape, NEW g \in Generations, NEW step \in LoopSteps, LoopAt(g, step)
    PROVE  /\ loops' \in [Generations -> LoopRecord]
           /\ \A h \in Generations :
                /\ loops'[h].at = IF h = g THEN step ELSE loops[h].at
                /\ loops'[h].queue = loops[h].queue
  BY DEF Shape, LoopAt, LoopRecord

LEMMA SpawnIs ==
    ASSUME Shape, OneTaken, NEW g \in Generations, loops[g].at \in RegisterSteps,
           NEW cancelled \in BOOLEAN, Spawn(g, cancelled)
    PROVE  /\ loops' \in [Generations -> LoopRecord] /\ calls' \in [Calls -> CallRecord]
           /\ \A h \in Generations :
                /\ loops'[h].at = IF h = g THEN "recv" ELSE loops[h].at
                /\ loops'[h].queue = loops[h].queue
           /\ \A d \in Calls :
                /\ calls'[d].at = IF d = Taken(g) THEN "spawned" ELSE calls[d].at
                /\ calls'[d].gen = calls[d].gen
                /\ calls'[d].cancelled <=> calls[d].cancelled \/ (d = Taken(g) /\ cancelled)
  <1>1. Taken(g) \in Calls
    BY TakenIs
  <1>2. "recv" \in LoopSteps /\ "spawned" \in CallSteps
    BY DEF LoopSteps, CallSteps, InFlight
  <1>3. calls' = [calls EXCEPT ![Taken(g)] =
                    [calls[Taken(g)] EXCEPT !.at = "spawned",
                                            !.cancelled = calls[Taken(g)].cancelled \/ cancelled]]
    BY <1>1 DEF Spawn, Shape
  <1>4. calls[Taken(g)] \in CallRecord
    BY <1>1 DEF Shape
  <1>5. calls' \in [Calls -> CallRecord]
    BY <1>1, <1>2, <1>3, <1>4 DEF Shape, CallRecord
  <1>6. \A d \in Calls :
          /\ calls'[d].at = IF d = Taken(g) THEN "spawned" ELSE calls[d].at
          /\ calls'[d].gen = calls[d].gen
          /\ calls'[d].cancelled <=> calls[d].cancelled \/ (d = Taken(g) /\ cancelled)
    BY <1>1, <1>3, <1>4 DEF Shape, CallRecord
  <1> QED BY <1>2, <1>5, <1>6, LoopAtIs DEF Spawn

LEMMA OpAtIs ==
    ASSUME Shape, NEW kind, NEW now, InOp(kind, now), NEW step \in OpSteps, OpAt(step)
    PROVE  /\ op' \in OpRecord /\ op' # None /\ op'.at = step
           /\ op'.kind = op.kind /\ op'.gen = op.gen /\ op'.old = op.old
           /\ op \in OpRecord /\ op # None /\ op.at = now /\ op.kind \in kind
  BY NoneAssumption DEF Shape, InOp, OpAt, OpRecord

\* A loop takes the first frame of its inbox.
Receive(g, step) ==
    /\ loops' \in [Generations -> LoopRecord]
    /\ \A h \in Generations :
         /\ loops'[h].at = IF h = g THEN step ELSE loops[h].at
         /\ loops'[h].queue = IF h = g THEN Tail(loops[h].queue) ELSE loops[h].queue

LEMMA TakeRequestIs ==
    ASSUME Shape, NEW g \in Generations, TakeRequest(g)
    PROVE  /\ Receive(g, "reg_closed")
           /\ Head(loops[g].queue).call \in Calls
           /\ calls' \in [Calls -> CallRecord]
           /\ \A d \in Calls :
                /\ calls'[d].at = IF d = Head(loops[g].queue).call THEN "taken" ELSE calls[d].at
                /\ calls'[d].gen = IF d = Head(loops[g].queue).call THEN g ELSE calls[d].gen
                /\ calls'[d].cancelled = calls[d].cancelled
  <1>1. Head(loops[g].queue) \in Frames /\ Tail(loops[g].queue) \in Seq(Frames)
    BY HeadIs DEF TakeRequest, Receives
  <1>2. Head(loops[g].queue).call \in Calls
    BY <1>1 DEF Frames
  <1>3. "reg_closed" \in LoopSteps /\ "taken" \in CallSteps /\ g \in 0..MaxBinds
    BY HubAssumption DEF LoopSteps, RegisterSteps, CallSteps, Generations
  <1>4. Receive(g, "reg_closed")
    BY <1>1, <1>3 DEF TakeRequest, Receive, Shape, LoopRecord
  <1>5. SUFFICES ASSUME NEW c \in Calls, c = Head(loops[g].queue).call
                 PROVE  /\ calls' \in [Calls -> CallRecord]
                        /\ \A d \in Calls :
                             /\ calls'[d].at = IF d = c THEN "taken" ELSE calls[d].at
                             /\ calls'[d].gen = IF d = c THEN g ELSE calls[d].gen
                             /\ calls'[d].cancelled = calls[d].cancelled
    BY <1>2, <1>4
  <1>6. calls' = [calls EXCEPT ![c] = [calls[c] EXCEPT !.at = "taken", !.gen = g]]
    BY <1>5 DEF TakeRequest, Shape
  <1>7. calls[c] \in CallRecord
    BY <1>5 DEF Shape
  <1>8. calls' \in [Calls -> CallRecord]
    BY <1>3, <1>6, <1>7 DEF Shape, CallRecord
  <1> QED BY <1>6, <1>7, <1>8 DEF Shape, CallRecord

LEMMA TakeCancelIs ==
    ASSUME Shape, NEW g \in Generations, TakeCancel(g)
    PROVE  /\ Receive(g, "recv") /\ loops[g].at = "recv" /\ loops[g].queue # <<>>
           /\ loops[g].queue[1].kind = "cancel"
           /\ Head(loops[g].queue).call \in Calls
           /\ calls' \in [Calls -> CallRecord]
           /\ \A d \in Calls :
                /\ calls'[d].at = calls[d].at /\ calls'[d].gen = calls[d].gen
                /\ calls'[d].cancelled <=>
                     \/ calls[d].cancelled
                     \/ d = Head(loops[g].queue).call /\ d \in live[g]
  <1>1. Head(loops[g].queue) \in Frames /\ Tail(loops[g].queue) \in Seq(Frames)
        /\ Head(loops[g].queue) = loops[g].queue[1]
    BY HeadIs DEF TakeCancel, Receives
  <1>2. Head(loops[g].queue).call \in Calls
    BY <1>1 DEF Frames
  <1>3. Receive(g, "recv")
    BY <1>1 DEF TakeCancel, Receives, Receive, Shape, LoopRecord
  <1>4. CASE Head(loops[g].queue).call \in live[g]
    BY <1>1, <1>2, <1>3, <1>4, CancelledIs DEF TakeCancel, Receives
  <1>5. CASE Head(loops[g].queue).call \notin live[g]
    BY <1>1, <1>2, <1>3, <1>5 DEF TakeCancel, Receives, Shape
  <1> QED BY <1>4, <1>5

\* What a bind and an unbind do to the loops.
LEMMA BindSpawnIs ==
    ASSUME Shape, BindSpawn
    PROVE  \A h \in Generations :
             /\ loops'[h].queue = loops[h].queue
             /\ loops'[h].at = IF h = op.gen THEN "recv" ELSE loops[h].at
  BY DEF BindSpawn, Shape, LoopRecord

LEMMA UnbindAbortIs ==
    ASSUME Shape, UnbindAbort
    PROVE  \A h \in Generations :
             loops'[h].queue = loops[h].queue /\ loops'[h].at = loops[h].at
  BY DEF UnbindAbort, Shape, LoopRecord

\* The first step of register.
LEMMA RegisterClosedIs ==
    ASSUME Shape, OneTaken, NEW g \in Generations, RegisterClosed(g)
    PROVE  /\ loops[g].at = "reg_closed"
           /\ \A h \in Generations : loops'[h].queue = loops[h].queue
           /\ \A h \in Generations \ {g} : loops'[h].at = loops[h].at
           /\ \A d \in Calls : calls'[d].gen = calls[d].gen
           /\ \A d \in Calls \ {Taken(g)} :
                calls'[d].at = calls[d].at /\ (calls'[d].cancelled <=> calls[d].cancelled)
           /\ \/ /\ g \notin closed /\ loops'[g].at = "reg_pending"
                 /\ UNCHANGED calls
              \/ /\ g \in closed /\ loops'[g].at = "recv"
                 /\ calls'[Taken(g)].at = "spawned" /\ calls'[Taken(g)].cancelled
  <1>1. loops[g].at = "reg_closed" /\ loops[g].at \in RegisterSteps
    BY DEF RegisterClosed, RegisterSteps
  <1>2. CASE g \in closed
    <2>1. Spawn(g, TRUE)
      BY <1>2 DEF RegisterClosed
    <2>2. Taken(g) \in Calls
      BY <1>1, TakenIs
    <2>3. \A d \in Calls :
            /\ calls'[d].at = IF d = Taken(g) THEN "spawned" ELSE calls[d].at
            /\ calls'[d].gen = calls[d].gen
            /\ calls'[d].cancelled <=> calls[d].cancelled \/ (d = Taken(g) /\ TRUE)
      BY <1>1, <2>1, SpawnIs, Zenon
    <2>4. \A h \in Generations :
            /\ loops'[h].at = IF h = g THEN "recv" ELSE loops[h].at
            /\ loops'[h].queue = loops[h].queue
      BY <1>1, <2>1, SpawnIs
    <2> QED BY <1>1, <1>2, <2>2, <2>3, <2>4
  <1>3. CASE g \notin closed
    <2>1. LoopAt(g, "reg_pending") /\ UNCHANGED calls
      BY <1>3 DEF RegisterClosed
    <2> QED BY <1>1, <1>3, <2>1, LoopAtIs DEF RegisterSteps, LoopSteps
  <1> QED BY <1>2, <1>3

\* The reader puts its frame into an inbox, or drops it.
LEMMA RouteSendIs ==
    ASSUME Shape, RouteSend
    PROVE  /\ reader \in ReaderRecord /\ reader # None /\ reader.at = "send"
           /\ reader.gen \in Generations /\ reader.frame \in Frames /\ reader.frame.call \in Calls
           /\ loops' \in [Generations -> LoopRecord] /\ calls' \in [Calls -> CallRecord]
           /\ \A h \in Generations : loops'[h].at = loops[h].at
           /\ \A d \in Calls :
                calls'[d].gen = calls[d].gen /\ calls'[d].cancelled = calls[d].cancelled
           /\ \/ /\ Len(loops[reader.gen].queue) < InboxCap
                 /\ \A h \in Generations :
                      loops'[h].queue = IF h = reader.gen
                                        THEN Append(loops[h].queue, reader.frame)
                                        ELSE loops[h].queue
                 /\ \A d \in Calls :
                      calls'[d].at = IF reader.frame.kind = "request" /\ d = reader.frame.call
                                     THEN "queued" ELSE calls[d].at
                 /\ reader' = None
              \/ /\ \A h \in Generations : loops'[h].queue = loops[h].queue
                 /\ \/ UNCHANGED calls
                    \/ /\ reader.frame.kind = "request"
                       /\ calls'[reader.frame.call].at \in {"done", "lost"}
                       /\ \A d \in Calls \ {reader.frame.call} : calls'[d].at = calls[d].at
                 /\ reader' = None \/ (reader' \in ReaderRecord /\ reader'.at = "evict")
  <1>1. /\ reader \in ReaderRecord /\ reader # None /\ reader.at = "send"
        /\ reader.gen \in Generations /\ reader.frame \in Frames /\ reader.frame.call \in Calls
    BY DEF RouteSend, Shape, ReaderRecord, Frames
  <1>2. loops[reader.gen].queue \in Seq(Frames)
    BY <1>1 DEF Shape, LoopRecord
  <1>3. Append(loops[reader.gen].queue, reader.frame) \in Seq(Frames)
    BY <1>1, <1>2
  <1>4. {"queued", "done", "lost"} \subseteq CallSteps
    BY DEF CallSteps
  <1>5. CASE /\ loops[reader.gen].at # "dead" /\ Len(loops[reader.gen].queue) < InboxCap
             /\ loops' = [loops EXCEPT ![reader.gen].queue = Append(@, reader.frame)]
             /\ IF IsRequest THEN CallAt(reader.frame.call, "queued") ELSE UNCHANGED calls
             /\ reader' = None
    <2>1. /\ loops' \in [Generations -> LoopRecord]
          /\ \A h \in Generations :
               /\ loops'[h].at = loops[h].at
               /\ loops'[h].queue = IF h = reader.gen
                                    THEN Append(loops[h].queue, reader.frame)
                                    ELSE loops[h].queue
      BY <1>1, <1>3, <1>5 DEF Shape, LoopRecord
    <2>2. CASE IsRequest
      BY <1>1, <1>4, <1>5, <2>1, <2>2, CallAtIs DEF IsRequest
    <2>3. CASE ~IsRequest
      BY <1>1, <1>4, <1>5, <2>1, <2>3 DEF IsRequest, Shape
    <2> QED BY <2>2, <2>3
  <1>6. CASE /\ UNCHANGED loops
             /\ \/ UNCHANGED calls
                \/ IsRequest /\ CallAt(reader.frame.call, "done")
                \/ IsRequest /\ CallAt(reader.frame.call, "lost")
             /\ reader' = None \/ reader' = [reader EXCEPT !.at = "evict"]
    <2>1. reader' = None \/ (reader' \in ReaderRecord /\ reader'.at = "evict")
      BY <1>1, <1>6 DEF ReaderRecord
    <2>2. CASE UNCHANGED calls
      BY <1>1, <1>6, <2>1, <2>2 DEF Shape
    <2>3. CASE IsRequest /\ CallAt(reader.frame.call, "done")
      BY <1>1, <1>4, <1>6, <2>1, <2>3, CallAtIs DEF Shape, IsRequest
    <2>4. CASE IsRequest /\ CallAt(reader.frame.call, "lost")
      BY <1>1, <1>4, <1>6, <2>1, <2>4, CallAtIs DEF Shape, IsRequest
    <2> QED BY <1>6, <2>2, <2>3, <2>4
  <1> QED BY <1>5, <1>6 DEF RouteSend

LEMMA TombstoneIs ==
    ASSUME Shape, NEW g \in Generations, NEW c \in Calls \cup {Straggler}, Tombstone(g, c)
    PROVE  /\ pending' \in [Generations -> SUBSET (Calls \cup {Straggler})]
           /\ asked' \subseteq Generations \X Calls
           /\ \A h \in Generations : h # g => pending'[h] = pending[h]
           /\ \E evicted \in Evictable(g, c) :
                /\ pending'[g] = (pending[g] \ {evicted}) \cup {c}
                /\ asked' = (asked \ {<<g, evicted>>}) \cup ({g} \X ({c} \cap Calls))
  <1>1. PICK evicted \in Evictable(g, c) :
          /\ pending' = [pending EXCEPT ![g] = (@ \ {evicted}) \cup {c}]
          /\ asked' = (asked \ {<<g, evicted>>}) \cup ({g} \X ({c} \cap Calls))
    BY DEF Tombstone
  <1>2. pending'[g] = (pending[g] \ {evicted}) \cup {c}
    BY <1>1 DEF Shape
  <1>3. \A h \in Generations : h # g => pending'[h] = pending[h]
    BY <1>1 DEF Shape
  <1>4. (pending[g] \ {evicted}) \cup {c} \in SUBSET (Calls \cup {Straggler})
    BY DEF Shape
  <1>5. pending' \in [Generations -> SUBSET (Calls \cup {Straggler})]
    BY <1>1, <1>4 DEF Shape
  <1>6. asked' \subseteq Generations \X Calls
    BY <1>1 DEF Shape
  <1> QED BY <1>1, <1>2, <1>3, <1>5, <1>6

\* The last step of register: the call is spawned, cancelled if its registry was
\* closed meanwhile and its token still there.
LEMMA RecheckIs ==
    ASSUME Shape, OneTaken, NEW g \in Generations, RegisterRecheck(g)
    PROVE  /\ loops' \in [Generations -> LoopRecord] /\ calls' \in [Calls -> CallRecord]
           /\ live' = IF g \in closed THEN [live EXCEPT ![g] = @ \ {Taken(g)}] ELSE live
           /\ \A h \in Generations :
                /\ loops'[h].at = IF h = g THEN "recv" ELSE loops[h].at
                /\ loops'[h].queue = loops[h].queue
           /\ \A d \in Calls :
                /\ calls'[d].at = IF d = Taken(g) THEN "spawned" ELSE calls[d].at
                /\ calls'[d].gen = calls[d].gen
                /\ calls'[d].cancelled <=>
                     calls[d].cancelled \/ (d = Taken(g) /\ g \in closed /\ d \in live[g])
  <1>1. loops[g].at \in RegisterSteps
    BY DEF RegisterRecheck, RegisterSteps
  <1>2. CASE g \in closed
    <2>1. Spawn(g, Taken(g) \in live[g]) /\ live' = [live EXCEPT ![g] = @ \ {Taken(g)}]
      BY <1>2 DEF RegisterRecheck, RecheckClosed
    <2>2. CASE Taken(g) \in live[g]
      <3>1. Spawn(g, TRUE)
        BY <2>1, <2>2 DEF Spawn
      <3>2. \A d \in Calls :
              /\ calls'[d].at = IF d = Taken(g) THEN "spawned" ELSE calls[d].at
              /\ calls'[d].gen = calls[d].gen
              /\ calls'[d].cancelled <=> calls[d].cancelled \/ (d = Taken(g) /\ TRUE)
        BY <1>1, <3>1, SpawnIs, Zenon
      <3>3. /\ loops' \in [Generations -> LoopRecord] /\ calls' \in [Calls -> CallRecord]
            /\ \A h \in Generations :
                 /\ loops'[h].at = IF h = g THEN "recv" ELSE loops[h].at
                 /\ loops'[h].queue = loops[h].queue
        BY <1>1, <3>1, SpawnIs
      <3> QED BY <1>2, <2>1, <2>2, <3>2, <3>3
    <2>3. CASE Taken(g) \notin live[g]
      <3>1. Spawn(g, FALSE)
        BY <2>1, <2>3 DEF Spawn
      <3> QED BY <1>1, <1>2, <2>1, <2>3, <3>1, SpawnIs
    <2> QED BY <2>2, <2>3
  <1>3. CASE g \notin closed
    <2>1. Spawn(g, FALSE) /\ live' = live
      BY <1>3 DEF RegisterRecheck, RecheckClosed
    <2> QED BY <1>1, <1>3, <2>1, SpawnIs
  <1> QED BY <1>2, <1>3

------------------------------------------------------------------------------
(* Shapes *)

LEMMA ShapeOfOps ==
    ASSUME IInv, BindBegin \/ UnbindBegin \/ BindStep
    PROVE  Shape'
  <1> USE HubAssumption
  <1>0. Shape /\ OpFits
    BY TypeParts DEF IInv
  <1>1. CASE BindBegin
    BY <1>0, <1>1 DEF BindBegin, Shape, maps, tokens, OpRecord, OpSteps
  <1>2. CASE UnbindBegin
    BY <1>0, <1>2 DEF UnbindBegin, Shape, maps, tokens, OpRecord, OpSteps
  <1>3. CASE BindAlive
    BY <1>0, <1>3 DEF BindAlive, InOp, Shape, maps, tokens, OpRecord, OpSteps
  <1>4. CASE BindOpen
    <2>1. gens' \in 0..MaxBinds /\ gens + 1 \in 0..MaxBinds
      BY <1>0, <1>4 DEF BindOpen, InOp, OpFits, Shape
    <2>2. op' = None \/ op' \in OpRecord
      <3>1. op \in OpRecord
        BY <1>0, <1>4 DEF BindOpen, InOp, Shape
      <3>2. CASE op' = [op EXCEPT !.at = "inbox", !.gen = gens + 1]
        BY <2>1, <1>4, <3>1, <3>2 DEF BindOpen, OpRecord, OpSteps
      <3> QED BY <1>4, <3>2 DEF BindOpen
    <2> QED BY <1>0, <1>4, <2>1, <2>2 DEF BindOpen, Shape, maps, tokens
  <1>5. CASE OpInbox
    BY <1>0, <1>5 DEF OpInbox, InOp, OpAt, Shape, maps, tokens, OpRecord, OpSteps
  <1>6. CASE BindSem
    BY <1>0, <1>6 DEF BindSem, InOp, OpAt, ensure_session, Shape, maps, tokens, OpRecord, OpSteps
  <1>7. CASE OpRegistry
    BY <1>0, <1>7 DEF OpRegistry, InOp, Shape, maps, tokens, OpRecord, OpSteps
  <1>8. CASE OpClose
    BY <1>0, <1>8 DEF OpClose, CloseRegistry, InOp, OpAt, OpFits, Shape, maps, tokens,
          OpRecord, OpSteps
  <1>9. CASE OpDrain
    <2>1. calls' \in [Calls -> CallRecord]
      BY <1>0, <1>9, CancelledIs DEF OpDrain, DrainRegistry
    <2> QED BY <1>0, <1>9, <2>1
            DEF OpDrain, DrainRegistry, InOp, OpAt, OpFits, Shape, maps, tokens, OpRecord, OpSteps
  <1>10. CASE BindSpawn
    <2>1. loops' \in [Generations -> LoopRecord]
      BY <1>0, <1>10 DEF BindSpawn, Shape, LoopRecord, LoopSteps
    <2> QED BY <1>0, <1>10, <2>1 DEF BindSpawn, InOp, Shape, maps, tokens, OpRecord
  <1>11. CASE UnbindAbort
    <2>1. loops' \in [Generations -> LoopRecord]
      BY <1>0, <1>11 DEF UnbindAbort, Shape, LoopRecord
    <2>2. op' \in OpRecord
      BY <1>0, <1>11 DEF UnbindAbort, InOp, OpAt, Shape, OpRecord, OpSteps
    <2> QED BY <1>0, <1>11, <2>1, <2>2 DEF UnbindAbort, Shape, maps, tokens
  <1>12. CASE UnbindSem
    BY <1>0, <1>12 DEF UnbindSem, remove_session, InOp, Shape, maps, tokens
  <1> QED BY <1>1, <1>2, <1>3, <1>4, <1>5, <1>6, <1>7, <1>8, <1>9, <1>10, <1>11, <1>12
          DEF BindStep

LEMMA ShapeOfReader ==
    ASSUME IInv, ReaderStep \/ \E f \in Frames : RouteLookup(f)
    PROVE  Shape'
  <1> USE HubAssumption
  <1>0. Shape
    BY TypeParts DEF IInv
  <1>1. CASE \E f \in Frames : RouteLookup(f)
    <2>1. PICK f \in Frames : RouteLookup(f)
      BY <1>1
    <2>2. f.call \in Calls
      BY DEF Frames
    <2>3. calls' \in [Calls -> CallRecord]
      BY <1>0, <2>1, <2>2, CallAtIs DEF RouteLookup, Shape, CallSteps
    <2>4. reader' = None \/ reader' \in ReaderRecord
      BY <1>0, <2>1 DEF RouteLookup, Shape, ReaderRecord, Generations
    <2> QED BY <1>0, <2>1, <2>3, <2>4 DEF RouteLookup, Shape, maps, tokens
  <1>2. CASE RouteSend
    BY <1>0, <1>2, RouteSendIs DEF RouteSend, Shape, maps, tokens
  <1>3. CASE RouteEvict
    BY <1>0, <1>3 DEF RouteEvict, Shape, maps, tokens
  <1> QED BY <1>1, <1>2, <1>3 DEF ReaderStep

\* The steps of a call's task before it deregisters.
TaskMoves(c) ==
    /\ calls[c].at \in InFlight
    /\ calls' \in [Calls -> CallRecord]
    /\ \A d \in Calls :
         /\ calls'[d].at = calls[d].at \/ (d = c /\ calls'[d].at \in InFlight \cup {"finished"})
         /\ calls'[d].gen = calls[d].gen
         /\ calls'[d].cancelled = calls[d].cancelled
    /\ UNCHANGED <<maps, gens, loops, tokens, op, reader, drained, asked>>

LEMMA TaskIs ==
    ASSUME Shape, NEW c \in Calls, TaskStep(c) \/ HandlerEnds(c)
    PROVE  TaskMoves(c) \/ deregister(c)
  <1>1. CASE AdmitBegin(c)
    <2>1. calls[c] \in CallRecord /\ sem \in 0..MaxBinds
      BY DEF Shape
    <2> QED BY <1>1, <2>1 DEF AdmitBegin, TaskMoves, Shape, CallRecord, CallSteps, InFlight
  <1>2. CASE RejectCall(c) \/ Admitted(c) \/ AdmitTimeout(c) \/ StartHandler(c)
             \/ DropHandler(c) \/ HandlerEnds(c)
    <2>1. PICK step \in InFlight \cup {"finished"} : CallAt(c, step)
      BY <1>2 DEF RejectCall, Admitted, AdmitTimeout, StartHandler, DropHandler, HandlerEnds,
            InFlight
    <2>2. step \in CallSteps
      BY <2>1 DEF CallSteps
    <2>3. calls[c].at \in InFlight /\ UNCHANGED <<maps, gens, loops, tokens, op, reader, drained, asked>>
      BY <1>2 DEF RejectCall, Admitted, AdmitTimeout, StartHandler, DropHandler, HandlerEnds,
            InFlight, Cancellable
    <2> QED BY <2>1, <2>2, <2>3, CallAtIs DEF TaskMoves
  <1> QED BY <1>1, <1>2 DEF TaskStep

LEMMA ShapeOfTasks ==
    ASSUME IInv, NEW c \in Calls, TaskStep(c) \/ HandlerEnds(c)
    PROVE  Shape'
  <1>0. Shape
    BY TypeParts DEF IInv
  <1>1. CASE deregister(c)
    <2>1. calls' \in [Calls -> CallRecord]
      BY <1>0, <1>1, CallAtIs DEF deregister, CallSteps
    <2> QED BY <1>0, <1>1, <2>1 DEF deregister, Shape, maps, tokens
  <1>2. CASE TaskMoves(c)
    BY <1>0, <1>2 DEF TaskMoves, Shape, maps, tokens
  <1> QED BY <1>0, <1>1, <1>2, TaskIs

LEMMA ShapeOfLoops ==
    ASSUME IInv, NEW g \in Generations, LoopStep(g) \/ TakeLateCancel(g)
    PROVE  Shape'
  <1> USE HubAssumption
  <1>0. Shape /\ OneTaken
    BY TypeParts DEF IInv
  <1>1. CASE Abort(g) \/ LoopEnds(g) \/ TailClose(g) \/ TailSem(g) \/ TailRegistry(g)
    <2>1. loops' \in [Generations -> LoopRecord]
      BY <1>0, <1>1, LoopAtIs DEF Abort, LoopEnds, TailClose, TailSem, TailRegistry,
            LoopSteps, TailSteps
    <2> QED BY <1>0, <1>1, <2>1 DEF Abort, LoopEnds, TailClose, TailSem, TailRegistry,
          CloseRegistry, remove_session, RemoveOwnRegistry, Shape, maps, tokens
  <1>2. CASE TakeRequest(g)
    BY <1>0, <1>2, TakeRequestIs DEF TakeRequest, Receive, Shape, maps, tokens
  <1>3. CASE TakeCancel(g)
    <2>0. Head(loops[g].queue).call \in Calls
      BY <1>0, <1>3, TakeCancelIs
    <2>1. pending' \in [Generations -> SUBSET (Calls \cup {Straggler})]
      BY <1>0, <1>3, <2>0, TombstoneIs DEF TakeCancel, Shape
    <2>2. asked' \subseteq Generations \X Calls
      BY <1>0, <1>3, <2>0, TombstoneIs DEF TakeCancel, Shape
    <2>3. live' \in [Generations -> SUBSET Calls]
      BY <1>0, <1>3 DEF TakeCancel, Shape
    <2> QED BY <1>0, <1>3, <2>1, <2>2, <2>3, TakeCancelIs
            DEF TakeCancel, Receive, Shape, maps, tokens
  <1>4. CASE TakeLateCancel(g)
    BY <1>0, <1>4, TombstoneIs DEF TakeLateCancel, Shape, maps, tokens
  <1>5. CASE RegisterClosed(g)
    <2>1. loops' \in [Generations -> LoopRecord] /\ calls' \in [Calls -> CallRecord]
      BY <1>0, <1>5, SpawnIs, LoopAtIs DEF RegisterClosed, RegisterSteps, LoopSteps, Shape
    <2> QED BY <1>0, <1>5, <2>1 DEF RegisterClosed, Shape, maps, tokens
  <1>6. CASE RegisterPending(g)
    <2>1. loops' \in [Generations -> LoopRecord] /\ calls' \in [Calls -> CallRecord]
      BY <1>0, <1>6, CancelledIs, LoopAtIs
         DEF RegisterPending, ConsumeTombstone, RegisterSteps, LoopSteps
    <2> QED BY <1>0, <1>6, <2>1 DEF RegisterPending, ConsumeTombstone, Shape, maps, tokens
  <1>7. CASE RegisterInsert(g)
    <2>1. loops' \in [Generations -> LoopRecord]
      BY <1>0, <1>7, LoopAtIs DEF RegisterInsert, RegisterSteps, LoopSteps
    <2>2. Taken(g) \in Calls
      BY <1>0, <1>7, TakenIs DEF RegisterInsert, RegisterSteps
    <2> QED BY <1>0, <1>7, <2>1, <2>2 DEF RegisterInsert, Shape, maps, tokens
  <1>8. CASE RegisterRecheck(g)
    BY <1>0, <1>8, RecheckIs DEF RegisterRecheck, Shape, maps, tokens
  <1>9. CASE TailDrain(g)
    <2>1. loops' \in [Generations -> LoopRecord] /\ calls' \in [Calls -> CallRecord]
      BY <1>0, <1>9, CancelledIs, LoopAtIs DEF TailDrain, DrainRegistry, LoopSteps, TailSteps
    <2> QED BY <1>0, <1>9, <2>1 DEF TailDrain, DrainRegistry, Shape, maps, tokens
  <1> QED BY <1>1, <1>2, <1>3, <1>4, <1>5, <1>6, <1>7, <1>8, <1>9 DEF LoopStep

LEMMA ShapeStep ==
    ASSUME IInv, [Next]_vars
    PROVE  Shape'
  <1>1. CASE UNCHANGED vars
    BY <1>1, TypeParts DEF IInv, Shape, vars, maps, tokens
  <1> QED BY <1>1, ShapeOfOps, ShapeOfReader, ShapeOfTasks, ShapeOfLoops DEF Next

------------------------------------------------------------------------------
(* Binds and unbinds *)

\* What the other steps leave to them: a loop that was not spawned stays so, one
\* that is at its end does not come back, and only such a one removes its registry.
LoopOnward ==
    /\ \A h \in Generations :
         /\ loops'[h].at = "none" <=> loops[h].at = "none"
         /\ loops[h].at \in TailSteps \cup {"dead"} => loops'[h].at \in TailSteps \cup {"dead"}
    /\ UNCHANGED <<gens, op, session_handle>>
    /\ \/ UNCHANGED registry
       \/ \E h \in Generations : registry = h /\ registry' = 0 /\ loops[h].at \in TailSteps

LEMMA OpsKept ==
    ASSUME Shape, OpFits, RegistryFits, LoopOnward
    PROVE  OpFits' /\ RegistryFits'
  <1>1. OpFits'
    <2>1. CASE UNCHANGED registry
      BY <2>1 DEF LoopOnward, Shape, OpFits
    <2>2. CASE \E h \in Generations : registry = h /\ registry' = 0 /\ loops[h].at \in TailSteps
      BY <2>2 DEF LoopOnward, Shape, OpFits, TailSteps
    <2> QED BY <2>1, <2>2 DEF LoopOnward
  <1>2. session_handle = 0 \/ session_handle \in Generations
    BY HubAssumption DEF Shape, Generations
  <1>3. RegistryFits'
    BY <1>2 DEF LoopOnward, RegistryFits
  <1> QED BY <1>1, <1>3

LEMMA OpsOnward ==
    ASSUME IInv, NEW g \in Generations, LoopStep(g) \/ TakeLateCancel(g)
    PROVE  LoopOnward
  <1>0. Shape /\ OneTaken
    BY TypeParts DEF IInv
  <1> USE DEF LoopOnward, TailSteps, RegisterSteps, LoopSteps, maps
  <1>1. CASE Abort(g) \/ LoopEnds(g) \/ TailClose(g) \/ TailSem(g)
    BY <1>0, <1>1, LoopAtIs DEF Abort, LoopEnds, TailClose, TailSem
  <1>2. CASE TailRegistry(g)
    BY <1>0, <1>2, LoopAtIs DEF TailRegistry, RemoveOwnRegistry
  <1>3. CASE TailDrain(g)
    BY <1>0, <1>3, LoopAtIs DEF TailDrain
  <1>4. CASE TakeRequest(g)
    <2>1. Receive(g, "reg_closed") /\ loops[g].at = "recv"
      BY <1>0, <1>4, TakeRequestIs DEF TakeRequest, Receives
    <2>2. UNCHANGED <<gens, op, session_handle, registry>>
      BY <1>4 DEF TakeRequest
    <2> QED BY <2>1, <2>2 DEF Receive
  <1>5. CASE TakeCancel(g)
    BY <1>0, <1>5, TakeCancelIs DEF TakeCancel, Receive
  <1>6. CASE TakeLateCancel(g)
    BY <1>6 DEF TakeLateCancel
  <1>7. CASE RegisterClosed(g)
    <2>1. CASE Spawn(g, TRUE)
      BY <1>0, <1>7, <2>1, SpawnIs DEF RegisterClosed
    <2>2. CASE LoopAt(g, "reg_pending")
      BY <1>0, <1>7, <2>2, LoopAtIs DEF RegisterClosed
    <2> QED BY <1>7, <2>1, <2>2 DEF RegisterClosed
  <1>8. CASE RegisterPending(g) \/ RegisterInsert(g)
    BY <1>0, <1>8, LoopAtIs DEF RegisterPending, RegisterInsert
  <1>9. CASE RegisterRecheck(g)
    BY <1>0, <1>9, RecheckIs DEF RegisterRecheck
  <1> QED BY <1>1, <1>2, <1>3, <1>4, <1>5, <1>6, <1>7, <1>8, <1>9 DEF LoopStep

LEMMA OpsStep ==
    ASSUME IInv, [Next]_vars
    PROVE  OpFits' /\ RegistryFits'
  <1>0. Shape /\ OpFits /\ RegistryFits
    BY TypeParts DEF IInv
  <1>1. CASE UNCHANGED vars
    BY <1>0, <1>1 DEF vars, maps, OpFits, RegistryFits
  <1>2. CASE \E g \in Generations : LoopStep(g) \/ TakeLateCancel(g)
    BY <1>0, <1>2, OpsOnward, OpsKept
  <1>3. CASE \E c \in Calls : TaskStep(c) \/ HandlerEnds(c)
    <2>1. LoopOnward
      BY <1>0, <1>3, TaskIs DEF TaskMoves, deregister, LoopOnward, maps
    <2> QED BY <1>0, <2>1, OpsKept
  <1>4. CASE ReaderStep \/ \E f \in Frames : RouteLookup(f)
    <2>1. CASE RouteSend
      <3>1. LoopOnward
        BY <1>0, <2>1, RouteSendIs DEF RouteSend, LoopOnward, maps
      <3> QED BY <1>0, <3>1, OpsKept
    <2>2. CASE ~RouteSend
      <3>1. LoopOnward
        BY <1>4, <2>2 DEF ReaderStep, RouteEvict, RouteLookup, LoopOnward, maps
      <3> QED BY <1>0, <3>1, OpsKept
    <2> QED BY <2>1, <2>2
  <1> USE HubAssumption DEF OpFits, RegistryFits, Generations
  <1>5. CASE BindBegin
    BY <1>0, <1>5 DEF BindBegin, maps
  <1>6. CASE UnbindBegin
    BY <1>0, <1>6 DEF UnbindBegin, maps
  <1>7. CASE BindAlive
    BY <1>0, <1>7 DEF BindAlive, InOp, Shape, OpRecord, maps
  <1>8. CASE BindOpen
    <2>1. CASE op' = None
      BY <1>0, <1>8, <2>1 DEF BindOpen, InOp, Shape, OpRecord, maps
    <2>2. CASE gens' = gens + 1 /\ op' = [op EXCEPT !.at = "inbox", !.gen = gens + 1]
      <3>1. /\ op \in OpRecord /\ op # None /\ op.kind = "bind" /\ op.at = "open"
            /\ UNCHANGED <<loops, registry, session_handle>>
        BY <1>0, <1>8, <2>2 DEF BindOpen, InOp, Shape, maps
      <3>2. gens \in Nat /\ gens < MaxBinds
        BY <1>0, <3>1 DEF Shape
      <3>3. /\ op' \in OpRecord /\ op'.kind = "bind" /\ op'.at = "inbox" /\ op'.gen = gens + 1
        <4>1. gens + 1 \in 0 .. MaxBinds /\ "inbox" \in OpSteps
          BY <3>2 DEF OpSteps
        <4>2. \A r \in OpRecord, g \in 0 .. MaxBinds :
                LET n == [r EXCEPT !.at = "inbox", !.gen = g]
                IN  n \in OpRecord /\ n.kind = r.kind /\ n.at = "inbox" /\ n.gen = g
          BY <4>1 DEF OpRecord
        <4> QED BY <2>2, <3>1, <4>1, <4>2
      <3>4. op' # None
        BY <3>3, NoneAssumption DEF OpRecord
      <3>5. loops'[gens + 1].at = "none" /\ gens + 1 \in Generations
        BY <1>0, <3>1, <3>2
      <3>6. OpFits'
        BY <1>0, <2>2, <3>1, <3>2, <3>3, <3>5, <3>4
      <3>7. RegistryFits'
        BY <3>3, <3>4
      <3> QED BY <3>6, <3>7
    <2> QED BY <1>8, <2>1, <2>2 DEF BindOpen
  <1>9. CASE OpInbox
    BY <1>0, <1>9, OpAtIs DEF OpInbox, OpSteps
  <1>10. CASE BindSem
    BY <1>0, <1>10, OpAtIs DEF BindSem, OpSteps
  <1>11. CASE OpRegistry
    <2>1. /\ op' \in OpRecord /\ op' # None /\ op'.kind = op.kind /\ op'.gen = op.gen
          /\ op'.old = registry /\ op \in OpRecord /\ op # None /\ op.at = "registry"
          /\ op'.at = IF registry # 0 THEN "close"
                      ELSE IF op.kind = "bind" THEN "spawn" ELSE "abort"
      BY <1>0, <1>11, NoneAssumption DEF OpRegistry, InOp, Shape, OpRecord, OpSteps
    <2>2. registry' = op.gen /\ UNCHANGED <<loops, gens, session_handle>>
      BY <1>11 DEF OpRegistry
    <2>3. OpFits'
      BY <1>0, <2>1, <2>2 DEF Shape, OpRecord
    <2>4. RegistryFits'
      BY <1>0, <2>1, <2>2 DEF OpRecord
    <2> QED BY <2>3, <2>4
  <1>12. CASE OpClose
    BY <1>0, <1>12, OpAtIs DEF OpClose, OpSteps, maps
  <1>13. CASE OpDrain
    <2>1. OpAt(IF op.kind = "bind" THEN "spawn" ELSE "abort") /\ InOp({"bind", "unbind"}, "drain")
          /\ UNCHANGED <<maps, gens, loops>>
      BY <1>13 DEF OpDrain
    <2> QED BY <1>0, <2>1, OpAtIs DEF OpSteps, maps
  <1>14. CASE BindSpawn
    <2>1. /\ loops'[op.gen].at = "recv" /\ op.gen \in Generations /\ op.gen = gens
          /\ \A h \in Generations : h # op.gen => loops'[h].at = loops[h].at
          /\ registry = op.gen
      BY <1>0, <1>14 DEF BindSpawn, InOp, Shape, LoopRecord
    <2> QED BY <1>0, <1>14, <2>1 DEF BindSpawn, InOp, Shape
  <1>15. CASE UnbindAbort
    <2>1. \A h \in Generations : loops'[h].at = loops[h].at
      BY <1>0, <1>15 DEF UnbindAbort, Shape, LoopRecord
    <2> QED BY <1>0, <1>15, <2>1 DEF UnbindAbort, OpAt, InOp, Shape, OpRecord
  <1>16. CASE UnbindSem
    BY <1>0, <1>16 DEF UnbindSem, InOp, Shape, OpRecord
  <1> QED BY <1>1, <1>2, <1>3, <1>4, <1>5, <1>6, <1>7, <1>8, <1>9, <1>10, <1>11, <1>12,
             <1>13, <1>14, <1>15, <1>16 DEF Next, BindStep

------------------------------------------------------------------------------
(* The order of close and drain *)

LEMMA ClosedFirstStep ==
    ASSUME IInv, [Next]_vars
    PROVE  ClosedFirst'
  <1>0. Shape /\ OpFits /\ ClosedFirst /\ OneTaken
    BY TypeParts DEF IInv
  <1>1. CASE UNCHANGED vars
    BY <1>0, <1>1 DEF vars, tokens, ClosedFirst
  <1>2. CASE OpClose
    BY <1>0, <1>2, OpAtIs DEF OpClose, CloseRegistry, ClosedFirst, OpSteps
  <1>3. CASE OpDrain
    <2>1. OpAt(IF op.kind = "bind" THEN "spawn" ELSE "abort") /\ InOp({"bind", "unbind"}, "drain")
          /\ drained' = drained \cup {op.old} /\ UNCHANGED <<closed, loops>>
      BY <1>3 DEF OpDrain, DrainRegistry
    <2> QED BY <1>0, <2>1, OpAtIs DEF ClosedFirst, OpSteps
  <1>4. ASSUME NEW g \in Generations, TailClose(g)
        PROVE  ClosedFirst'
    BY <1>0, <1>4, LoopAtIs DEF TailClose, CloseRegistry, ClosedFirst, LoopSteps, TailSteps
  <1>5. ASSUME NEW g \in Generations, TailDrain(g)
        PROVE  ClosedFirst'
    BY <1>0, <1>5, LoopAtIs DEF TailDrain, DrainRegistry, ClosedFirst, LoopSteps, TailSteps
  <1>6. ASSUME UNCHANGED <<closed, drained>>, op' = None \/ op' = op \/ op'.at # "drain",
               \A h \in Generations : loops'[h].at = "tail_drain" => loops[h].at = "tail_drain"
        PROVE  ClosedFirst'
    BY <1>0, <1>6 DEF ClosedFirst
  <1>7. CASE BindBegin \/ UnbindBegin \/ BindAlive \/ BindOpen
    <2>1. op' = None \/ op' = op \/ op'.at # "drain"
      <3>1. CASE BindBegin \/ UnbindBegin
        BY <3>1 DEF BindBegin, UnbindBegin
      <3>2. CASE BindAlive
        BY <1>0, <3>2 DEF BindAlive, InOp, Shape, OpRecord
      <3>3. CASE BindOpen
        BY <1>0, <3>3 DEF BindOpen, InOp, Shape, OpRecord
      <3> QED BY <1>7, <3>1, <3>2, <3>3
    <2> QED BY <1>6, <1>7, <2>1 DEF BindBegin, UnbindBegin, BindAlive, BindOpen, tokens
  <1>8. CASE OpInbox \/ BindSem \/ OpRegistry
    <2>1. op' = None \/ op' = op \/ op'.at # "drain"
      BY <1>0, <1>8, OpAtIs DEF OpInbox, BindSem, OpRegistry, InOp, Shape, OpRecord, OpSteps
    <2> QED BY <1>6, <1>8, <2>1 DEF OpInbox, BindSem, OpRegistry, tokens
  <1>9. CASE BindSpawn \/ UnbindAbort \/ UnbindSem
    <2>1. op' = None \/ op' = op \/ op'.at # "drain"
      BY <1>0, <1>9, OpAtIs DEF BindSpawn, UnbindAbort, UnbindSem, OpSteps
    <2>2. \A h \in Generations : loops'[h].at = "tail_drain" => loops[h].at = "tail_drain"
      BY <1>0, <1>9, BindSpawnIs, UnbindAbortIs DEF UnbindSem
    <2> QED BY <1>6, <1>9, <2>1, <2>2 DEF BindSpawn, UnbindAbort, UnbindSem, tokens
  <1>10. CASE ReaderStep \/ \E f \in Frames : RouteLookup(f)
    BY <1>0, <1>6, <1>10, RouteSendIs DEF ReaderStep, RouteSend, RouteEvict, RouteLookup, tokens
  <1>11. CASE \E c \in Calls : TaskStep(c) \/ HandlerEnds(c)
    BY <1>0, <1>6, <1>11, TaskIs DEF TaskMoves, deregister, tokens
  <1>12. ASSUME NEW g \in Generations, LoopStep(g) \/ TakeLateCancel(g),
                ~TailClose(g), ~TailDrain(g)
         PROVE  ClosedFirst'
    <2>1. UNCHANGED <<closed, drained, op>>
      BY <1>12 DEF LoopStep, Abort, TakeRequest, TakeCancel, TakeLateCancel, RegisterClosed,
            RegisterPending, RegisterInsert, RegisterRecheck, LoopEnds, TailSem, TailRegistry, tokens
    <2>2. \A h \in Generations : loops'[h].at = "tail_drain" => loops[h].at = "tail_drain"
      <3>1. CASE TakeRequest(g)
        BY <1>0, <3>1, TakeRequestIs DEF Receive
      <3>2. CASE TakeCancel(g)
        BY <1>0, <3>2, TakeCancelIs DEF Receive
      <3>3. CASE TakeLateCancel(g)
        BY <3>3 DEF TakeLateCancel
      <3>4. CASE RegisterRecheck(g)
        BY <1>0, <3>4, RecheckIs
      <3>5. CASE RegisterClosed(g)
        BY <1>0, <3>5, RegisterClosedIs
      <3>6. CASE Abort(g) \/ RegisterPending(g) \/ RegisterInsert(g) \/ LoopEnds(g)
                 \/ TailSem(g) \/ TailRegistry(g)
        BY <1>0, <3>6, LoopAtIs DEF Abort, RegisterPending, RegisterInsert, LoopEnds, TailSem,
              TailRegistry, RegisterSteps, TailSteps, LoopSteps
      <3> QED BY <1>12, <3>1, <3>2, <3>3, <3>4, <3>5, <3>6 DEF LoopStep
    <2> QED BY <1>6, <2>1, <2>2
  <1> QED BY <1>1, <1>2, <1>3, <1>4, <1>5, <1>7, <1>8, <1>9, <1>10, <1>11, <1>12
          DEF Next, BindStep

------------------------------------------------------------------------------
(* Requests, tokens and tombstones *)

Inner ==
    /\ QueuesBounded /\ TombstonesBounded /\ PendingFinite
    /\ RequestsOnce /\ OneTaken /\ TokenReachable /\ CancelKept

\* A request that is on its way is about a call.
LEMMA FrameCalls ==
    ASSUME Shape
    PROVE  /\ reader # None => reader.frame.call \in Calls
           /\ \A g \in Generations, i \in Nat :
                IsRequestAt(g, i) => loops[g].queue[i].call \in Calls
  <1>1. reader # None => reader.frame.call \in Calls
    BY DEF Shape, ReaderRecord, Frames
  <1>2. ASSUME NEW g \in Generations, NEW i \in Nat, IsRequestAt(g, i)
        PROVE  loops[g].queue[i].call \in Calls
    <2>1. loops[g].queue \in Seq(Frames)
      BY DEF Shape, LoopRecord
    <2>2. loops[g].queue[i] \in Frames
      BY <1>2, <2>1 DEF IsRequestAt
    <2> QED BY <2>2 DEF Frames
  <1> QED BY <1>1, <1>2

\* Requests stay where they are, and loops register what they did.
LEMMA RequestsKept ==
    ASSUME Shape, RequestsOnce, reader' = reader \/ reader' = None,
           \A h \in Generations : loops'[h].queue = loops[h].queue,
           \A c \in Calls : calls[c].at \in {"routing", "queued"} => calls'[c].at = calls[c].at
    PROVE  RequestsOnce'
  <1>1. \A h \in Generations, i \in Nat : IsRequestAt(h, i)' <=> IsRequestAt(h, i)
    BY DEF IsRequestAt
  <1>2. reader' # None /\ reader'.at = "send" /\ reader'.frame.kind = "request"
           => calls'[reader'.frame.call].at = "routing"
    BY FrameCalls DEF RequestsOnce
  <1>3. \A g \in Generations, i \in Nat :
           IsRequestAt(g, i) => calls'[loops'[g].queue[i].call].at = "queued"
    BY FrameCalls DEF RequestsOnce
  <1>4. \A g, h \in Generations, i, j \in Nat :
           /\ IsRequestAt(g, i) /\ IsRequestAt(h, j)
           /\ loops'[g].queue[i].call = loops'[h].queue[j].call
           => g = h /\ i = j
    BY DEF RequestsOnce
  <1> QED BY <1>1, <1>2, <1>3, <1>4 DEF RequestsOnce

\* A step that is about none of them.
Aside ==
    /\ UNCHANGED <<calls, live, pending, drained, asked>>
    /\ reader' = reader \/ reader' = None
    /\ \A h \in Generations :
         /\ loops'[h].queue = loops[h].queue
         /\ loops[h].at \in RegisterSteps \/ loops'[h].at \in RegisterSteps
               => loops'[h].at = loops[h].at

LEMMA AsideKeeps ==
    ASSUME Inner, Shape, Aside
    PROVE  Inner'
  <1>1. QueuesBounded' /\ TombstonesBounded' /\ PendingFinite'
    BY DEF Inner, Aside, QueuesBounded, TombstonesBounded, PendingFinite
  <1>2. RequestsOnce'
    BY RequestsKept DEF Inner, Aside
  <1>3. OneTaken'
    BY DEF Inner, Aside, OneTaken
  <1>4. TokenReachable'
    BY DEF Inner, Aside, TokenReachable, OneTaken, RegisterSteps
  <1>5. CancelKept'
    BY DEF Inner, Aside, CancelKept, RegisterSteps
  <1> QED BY <1>1, <1>2, <1>3, <1>4, <1>5 DEF Inner

LEMMA AsideSteps ==
    ASSUME IInv,
           \/ BindBegin \/ UnbindBegin \/ (BindStep /\ ~OpDrain) \/ RouteEvict
           \/ \E g \in Generations :
                Abort(g) \/ LoopEnds(g) \/ TailClose(g) \/ TailSem(g) \/ TailRegistry(g)
    PROVE  Aside
  <1>0. Shape /\ OpFits
    BY TypeParts DEF IInv
  <1>1. CASE BindSpawn \/ UnbindAbort
    <2>1. \A h \in Generations :
            /\ loops'[h].queue = loops[h].queue
            /\ loops[h].at \in RegisterSteps \/ loops'[h].at \in RegisterSteps
                  => loops'[h].at = loops[h].at
      <3>1. CASE BindSpawn
        BY <1>0, <3>1, BindSpawnIs DEF BindSpawn, InOp, OpFits, RegisterSteps
      <3>2. CASE UnbindAbort
        BY <1>0, <3>2, UnbindAbortIs
      <3> QED BY <1>1, <3>1, <3>2
    <2> QED BY <1>1, <2>1 DEF BindSpawn, UnbindAbort, Aside, tokens
  <1>2. ASSUME NEW g \in Generations,
               Abort(g) \/ LoopEnds(g) \/ TailClose(g) \/ TailSem(g) \/ TailRegistry(g)
        PROVE  Aside
    <2>1. \A h \in Generations :
            /\ loops'[h].queue = loops[h].queue
            /\ loops[h].at \in RegisterSteps \/ loops'[h].at \in RegisterSteps
                  => loops'[h].at = loops[h].at
      BY <1>0, <1>2, LoopAtIs DEF Abort, LoopEnds, TailClose, TailSem, TailRegistry,
            RegisterSteps, TailSteps, LoopSteps
    <2> QED BY <1>2, <2>1 DEF Abort, LoopEnds, TailClose, TailSem, TailRegistry, Aside, tokens
  <1>3. CASE BindBegin \/ UnbindBegin \/ BindAlive \/ BindOpen \/ OpInbox \/ BindSem \/ OpRegistry
             \/ OpClose \/ UnbindSem \/ RouteEvict
    BY <1>3 DEF BindBegin, UnbindBegin, BindAlive, BindOpen, OpInbox, BindSem, OpRegistry,
          OpClose, UnbindSem, RouteEvict, Aside, tokens
  <1> QED BY <1>1, <1>2, <1>3 DEF BindStep

LEMMA TakenKept ==
    ASSUME OneTaken,
           \A c \in Calls : calls'[c].gen = calls[c].gen
                            /\ (calls'[c].at = "taken" <=> calls[c].at = "taken"),
           \A h \in Generations : loops'[h].at \in RegisterSteps <=> loops[h].at \in RegisterSteps
    PROVE  OneTaken'
  BY DEF OneTaken

\* The call of a loop is spawned and its registration is over.
LEMMA TakenSpawned ==
    ASSUME OneTaken, Shape, NEW g \in Generations, loops[g].at \in RegisterSteps,
           \A c \in Calls : calls'[c].gen = calls[c].gen,
           calls'[Taken(g)].at = "spawned",
           \A c \in Calls \ {Taken(g)} : calls'[c].at = calls[c].at,
           loops'[g].at = "recv",
           \A h \in Generations \ {g} : loops'[h].at = loops[h].at
    PROVE  OneTaken'
  <1>1. /\ Taken(g) \in Calls
        /\ calls[Taken(g)].at = "taken" /\ calls[Taken(g)].gen = g
        /\ \A c \in Calls : calls[c].at = "taken" /\ calls[c].gen = g => c = Taken(g)
    BY TakenIs
  <1>2. \A c \in Calls : calls'[c].at = "taken" =>
           calls'[c].gen \in Generations /\ loops'[calls'[c].gen].at \in RegisterSteps
    BY <1>1 DEF OneTaken
  <1>3. \A h \in Generations : loops'[h].at \in RegisterSteps =>
           \E c \in Calls : calls'[c].at = "taken" /\ calls'[c].gen = h
    <2> SUFFICES ASSUME NEW h \in Generations, loops'[h].at \in RegisterSteps
                 PROVE  \E c \in Calls : calls'[c].at = "taken" /\ calls'[c].gen = h
      OBVIOUS
    <2>1. h # g /\ loops[h].at \in RegisterSteps
      BY DEF RegisterSteps
    <2>2. PICK c \in Calls : calls[c].at = "taken" /\ calls[c].gen = h
      BY <2>1 DEF OneTaken
    <2> QED BY <1>1, <2>1, <2>2
  <1>4. \A c, d \in Calls :
           calls'[c].at = "taken" /\ calls'[d].at = "taken" /\ calls'[c].gen = calls'[d].gen
              => c = d
    BY <1>1 DEF OneTaken
  <1> QED BY <1>2, <1>3, <1>4 DEF OneTaken

LEMMA TaskInner ==
    ASSUME Inner, Shape, NEW c \in Calls, TaskMoves(c) \/ deregister(c)
    PROVE  Inner'
  <1>1. /\ calls[c].at \in InFlight \cup {"finished"}
        /\ \A d \in Calls :
             /\ calls'[d].gen = calls[d].gen /\ calls'[d].cancelled = calls[d].cancelled
             /\ d # c => calls'[d].at = calls[d].at
        /\ calls'[c].at \in InFlight \cup {"finished", "done"}
        /\ calls'[c].at \in InFlight => calls[c].at \in InFlight /\ UNCHANGED live
        /\ UNCHANGED <<loops, pending, reader, drained, asked>>
    <2>1. CASE TaskMoves(c)
      BY <2>1 DEF TaskMoves, tokens, InFlight
    <2>2. CASE deregister(c)
      BY <2>2, CallAtIs DEF deregister, CallSteps, InFlight
    <2> QED BY <2>1, <2>2
  <1>2. \A h \in Generations, d \in Calls : d # c /\ d \in live[h] => d \in live'[h]
    BY DEF TaskMoves, deregister, tokens, Shape
  <1>3. QueuesBounded' /\ TombstonesBounded' /\ PendingFinite'
    BY <1>1 DEF Inner, QueuesBounded, TombstonesBounded, PendingFinite
  <1>4. RequestsOnce'
    BY <1>1, RequestsKept DEF Inner, InFlight
  <1>5. OneTaken'
    BY <1>1, TakenKept DEF Inner, InFlight
  <1>6. TokenReachable'
    <2> SUFFICES ASSUME NEW d \in Calls, ~calls'[d].cancelled
                 PROVE  /\ calls'[d].at \in InFlight =>
                              calls'[d].gen \in Generations \ drained /\ d \in live'[calls'[d].gen]
                        /\ calls'[d].at = "taken" /\ loops[calls'[d].gen].at = "reg_recheck" =>
                              d \in live'[calls'[d].gen]
      BY <1>1 DEF TokenReachable
    <2>1. CASE d = c
      BY <1>1, <2>1 DEF Inner, TokenReachable, InFlight
    <2>2. CASE d # c
      BY <1>1, <1>2, <2>2 DEF Inner, TokenReachable, OneTaken
    <2> QED BY <2>1, <2>2
  <1>7. CancelKept'
    BY <1>1 DEF Inner, CancelKept, InFlight
  <1> QED BY <1>3, <1>4, <1>5, <1>6, <1>7 DEF Inner

LEMMA DrainInner ==
    ASSUME Inner, Shape, NEW g \in Generations, DrainRegistry(g), UNCHANGED <<reader, asked>>,
           \A h \in Generations :
              /\ loops'[h].queue = loops[h].queue
              /\ loops[h].at \in RegisterSteps \/ loops'[h].at \in RegisterSteps
                    => loops'[h].at = loops[h].at
    PROVE  Inner'
  <1>1. \A c \in Calls :
          /\ calls'[c].at = calls[c].at /\ calls'[c].gen = calls[c].gen
          /\ calls'[c].cancelled <=> calls[c].cancelled \/ c \in live[g]
    BY CancelledIs DEF DrainRegistry
  <1>2. /\ drained' = drained \cup {g}
        /\ live'[g] = {} /\ pending'[g] = {}
        /\ \A h \in Generations \ {g} : live'[h] = live[h] /\ pending'[h] = pending[h]
    BY DEF DrainRegistry, Shape
  <1>3. QueuesBounded' /\ TombstonesBounded' /\ PendingFinite'
    <2>1. IsFiniteSet({}) /\ Cardinality({}) = 0
      BY FS_EmptySet
    <2>2. PendingFinite'
      BY <1>2, <2>1 DEF Inner, PendingFinite
    <2>3. TombstonesBounded'
      <3> SUFFICES ASSUME NEW h \in Generations
                   PROVE  Cardinality(pending'[h]) <= MaxTombstones
        BY DEF TombstonesBounded
      <3>1. CASE h = g
        <4>1. pending'[h] = {}
          BY <1>2, <3>1
        <4>2. Cardinality(pending'[h]) = 0
          BY <2>1, <4>1
        <4> QED BY <4>2, HubAssumption
      <3>2. CASE h # g
        BY <1>2, <3>2 DEF Inner, TombstonesBounded
      <3> QED BY <3>1, <3>2
    <2> QED BY <2>2, <2>3 DEF Inner, QueuesBounded
  <1>4. RequestsOnce'
    BY <1>1, RequestsKept DEF Inner
  <1>5. OneTaken'
    BY <1>1, TakenKept DEF Inner
  <1>6. TokenReachable'
    <2> SUFFICES ASSUME NEW c \in Calls, ~calls'[c].cancelled
                 PROVE  /\ calls'[c].at \in InFlight =>
                              calls'[c].gen \in Generations \ drained' /\ c \in live'[calls'[c].gen]
                        /\ calls'[c].at = "taken" /\ loops'[calls'[c].gen].at = "reg_recheck" =>
                              c \in live'[calls'[c].gen]
      BY DEF TokenReachable
    <2>1. ~calls[c].cancelled /\ c \notin live[g]
      BY <1>1
    <2>2. CASE calls[c].at \in InFlight
      BY <1>1, <1>2, <2>1, <2>2 DEF Inner, TokenReachable, InFlight
    <2>3. CASE calls[c].at = "taken"
      BY <1>1, <1>2, <2>1, <2>3 DEF Inner, TokenReachable, OneTaken, RegisterSteps, InFlight
    <2> QED BY <1>1, <2>2, <2>3
  <1>7. CancelKept'
    <2> SUFFICES ASSUME NEW h \in Generations, NEW c \in Calls,
                        <<h, c>> \in asked, ~calls'[c].cancelled
                 PROVE  /\ calls'[c].at \in {"unsent", "routing", "queued"} =>
                              c \in pending'[h] \/ h \in drained'
                        /\ calls'[c].at = "taken" /\ calls'[c].gen = h =>
                              \/ h \in drained'
                              \/ loops'[h].at \in {"reg_closed", "reg_pending"} /\ c \in pending'[h]
                        /\ calls'[c].at \in InFlight => calls'[c].gen # h
      BY DEF CancelKept
    <2> QED BY <1>1, <1>2 DEF Inner, CancelKept, RegisterSteps
  <1> QED BY <1>3, <1>4, <1>5, <1>6, <1>7 DEF Inner

LEMMA RouteLookupInner ==
    ASSUME Inner, Shape, NEW f \in Frames, RouteLookup(f)
    PROVE  Inner'
  <1>1. f.call \in Calls /\ UNCHANGED <<loops, live, pending, drained, asked>>
    BY DEF RouteLookup, Frames, tokens
  <1>2. \A d \in Calls :
          /\ calls'[d].gen = calls[d].gen /\ calls'[d].cancelled = calls[d].cancelled
          /\ \/ calls'[d].at = calls[d].at
             \/ d = f.call /\ f.kind = "request" /\ calls[d].at = "unsent"
                /\ calls'[d].at \in {"routing", "lost"}
    BY <1>1, CallAtIs DEF RouteLookup, CallSteps
  <1>3. \/ reader' = None
        \/ /\ reader'.frame = f
           /\ f.kind = "request" => calls'[f.call].at = "routing"
    BY <1>1, CallAtIs DEF RouteLookup, CallSteps
  <1>4. QueuesBounded' /\ TombstonesBounded' /\ PendingFinite'
    BY <1>1 DEF Inner, QueuesBounded, TombstonesBounded, PendingFinite
  <1>5. RequestsOnce'
    <2>1. \A h \in Generations, i \in Nat : IsRequestAt(h, i)' <=> IsRequestAt(h, i)
      BY <1>1 DEF IsRequestAt
    <2>2. reader' # None /\ reader'.at = "send" /\ reader'.frame.kind = "request"
             => calls'[reader'.frame.call].at = "routing"
      BY <1>3
    <2>3. \A g \in Generations, i \in Nat :
             IsRequestAt(g, i) => calls'[loops'[g].queue[i].call].at = "queued"
      BY <1>1, <1>2, FrameCalls DEF Inner, RequestsOnce
    <2>4. \A g, h \in Generations, i, j \in Nat :
             /\ IsRequestAt(g, i) /\ IsRequestAt(h, j)
             /\ loops'[g].queue[i].call = loops'[h].queue[j].call
             => g = h /\ i = j
      BY <1>1 DEF Inner, RequestsOnce
    <2> QED BY <2>1, <2>2, <2>3, <2>4 DEF RequestsOnce
  <1>6. OneTaken'
    BY <1>1, <1>2, TakenKept DEF Inner
  <1>7. TokenReachable'
    BY <1>1, <1>2 DEF Inner, TokenReachable, InFlight
  <1>8. CancelKept'
    BY <1>1, <1>2 DEF Inner, CancelKept, InFlight
  <1> QED BY <1>4, <1>5, <1>6, <1>7, <1>8 DEF Inner

LEMMA RouteSendInner ==
    ASSUME Inner, Shape, RouteSend
    PROVE  Inner'
  <1>1. UNCHANGED <<live, pending, drained, asked>>
    BY DEF RouteSend, tokens
  <1> DEFINE r == reader.gen
             f == reader.frame
  <1>2. /\ reader # None /\ reader.at = "send"
        /\ r \in Generations /\ f \in Frames /\ f.call \in Calls
        /\ \A h \in Generations : loops'[h].at = loops[h].at
        /\ \A d \in Calls :
             calls'[d].gen = calls[d].gen /\ calls'[d].cancelled = calls[d].cancelled
    BY RouteSendIs
  <1>3. f.kind = "request" => calls[f.call].at = "routing"
    BY <1>2 DEF Inner, RequestsOnce
  <1>4. \A d \in Calls :
          \/ calls'[d].at = calls[d].at
          \/ /\ d = f.call /\ f.kind = "request"
             /\ calls'[d].at \in {"queued", "done", "lost"}
    BY RouteSendIs
  <1>5. TombstonesBounded' /\ PendingFinite'
    BY <1>1 DEF Inner, TombstonesBounded, PendingFinite
  <1>6. OneTaken'
    BY <1>2, <1>3, <1>4, TakenKept DEF Inner
  <1>7. TokenReachable'
    BY <1>1, <1>2, <1>3, <1>4 DEF Inner, TokenReachable, OneTaken, InFlight
  <1>8. CancelKept'
    BY <1>1, <1>2, <1>3, <1>4 DEF Inner, CancelKept, InFlight
  <1>9. CASE /\ Len(loops[r].queue) < InboxCap
             /\ \A h \in Generations :
                  loops'[h].queue = IF h = r THEN Append(loops[h].queue, f) ELSE loops[h].queue
             /\ \A d \in Calls :
                  calls'[d].at = IF f.kind = "request" /\ d = f.call
                                 THEN "queued" ELSE calls[d].at
             /\ reader' = None
    <2>1. \A h \in Generations : loops[h].queue \in Seq(Frames)
      BY DEF Shape, LoopRecord
    <2>2. /\ Len(loops'[r].queue) = Len(loops[r].queue) + 1
          /\ loops'[r].queue[Len(loops[r].queue) + 1] = f
          /\ \A i \in 1..Len(loops[r].queue) : loops'[r].queue[i] = loops[r].queue[i]
      <3>1. loops'[r].queue = Append(loops[r].queue, f)
        BY <1>2, <1>9
      <3> QED BY <1>2, <2>1, <3>1, AppendIs
    <2>3. QueuesBounded'
      BY <1>2, <1>9, <2>1, <2>2, HubAssumption DEF Inner, QueuesBounded
    <2>4. \A h \in Generations, i \in Nat :
            IsRequestAt(h, i)' =>
               \/ IsRequestAt(h, i) /\ loops'[h].queue[i] = loops[h].queue[i]
               \/ /\ h = r /\ i = Len(loops[r].queue) + 1
                  /\ loops'[h].queue[i] = f /\ f.kind = "request"
      <3> SUFFICES ASSUME NEW h \in Generations, NEW i \in Nat, IsRequestAt(h, i)'
                   PROVE  \/ IsRequestAt(h, i) /\ loops'[h].queue[i] = loops[h].queue[i]
                          \/ /\ h = r /\ i = Len(loops[r].queue) + 1
                             /\ loops'[h].queue[i] = f /\ f.kind = "request"
        OBVIOUS
      <3>1. CASE h = r
        <4>1. i \in 1..Len(loops[r].queue) + 1 /\ loops'[r].queue[i].kind = "request"
          BY <2>2, <3>1 DEF IsRequestAt
        <4>2. Len(loops[r].queue) \in Nat
          BY <1>2, <2>1
        <4>3. CASE i = Len(loops[r].queue) + 1
          BY <2>2, <3>1, <4>1, <4>3
        <4>4. CASE i # Len(loops[r].queue) + 1
          <5>1. i \in 1..Len(loops[r].queue)
            BY <4>1, <4>2, <4>4
          <5> QED BY <2>2, <3>1, <4>1, <5>1 DEF IsRequestAt
        <4> QED BY <4>3, <4>4
      <3>2. CASE h # r
        BY <1>9, <3>2 DEF IsRequestAt
      <3> QED BY <3>1, <3>2
    <2>5. \A h \in Generations, i \in Nat :
            IsRequestAt(h, i) => /\ loops[h].queue[i].call \in Calls
                                 /\ calls[loops[h].queue[i].call].at = "queued"
                                 /\ f.kind = "request" => loops[h].queue[i].call # f.call
      BY <1>3, FrameCalls DEF Inner, RequestsOnce
    <2>6. \A h \in Generations, i \in Nat :
             IsRequestAt(h, i)' => calls'[loops'[h].queue[i].call].at = "queued"
      BY <1>2, <1>9, <2>4, <2>5
    <2>7. \A g, h \in Generations, i, j \in Nat :
             /\ IsRequestAt(g, i)' /\ IsRequestAt(h, j)'
             /\ loops'[g].queue[i].call = loops'[h].queue[j].call
             => g = h /\ i = j
      <3> HIDE DEF r, f
      <3> SUFFICES ASSUME NEW g \in Generations, NEW h \in Generations, NEW i \in Nat, NEW j \in Nat,
                          IsRequestAt(g, i)', IsRequestAt(h, j)',
                          loops'[g].queue[i].call = loops'[h].queue[j].call
                   PROVE  g = h /\ i = j
        OBVIOUS
      <3>1. CASE IsRequestAt(g, i) /\ loops'[g].queue[i] = loops[g].queue[i]
        BY <2>4, <2>5, <3>1 DEF Inner, RequestsOnce
      <3>2. CASE /\ g = r /\ i = Len(loops[r].queue) + 1
                 /\ loops'[g].queue[i] = f /\ f.kind = "request"
        BY <2>4, <2>5, <3>2
      <3> QED BY <2>4, <3>1, <3>2
    <2> QED BY <1>5, <1>6, <1>7, <1>8, <1>9, <2>3, <2>6, <2>7 DEF Inner, RequestsOnce
  <1>10. CASE /\ \A h \in Generations : loops'[h].queue = loops[h].queue
              /\ \/ UNCHANGED calls
                 \/ /\ f.kind = "request"
                    /\ calls'[f.call].at \in {"done", "lost"}
                    /\ \A d \in Calls \ {f.call} : calls'[d].at = calls[d].at
              /\ reader' = None \/ (reader' \in ReaderRecord /\ reader'.at = "evict")
    <2>1. QueuesBounded'
      BY <1>10 DEF Inner, QueuesBounded
    <2>2. \A h \in Generations, i \in Nat : IsRequestAt(h, i)' <=> IsRequestAt(h, i)
      BY <1>10 DEF IsRequestAt
    <2>3. \A h \in Generations, i \in Nat :
             IsRequestAt(h, i) => calls'[loops'[h].queue[i].call].at = "queued"
      BY <1>2, <1>3, <1>4, <1>10, FrameCalls DEF Inner, RequestsOnce
    <2>4. \A g, h \in Generations, i, j \in Nat :
             /\ IsRequestAt(g, i) /\ IsRequestAt(h, j)
             /\ loops'[g].queue[i].call = loops'[h].queue[j].call
             => g = h /\ i = j
      BY <1>10 DEF Inner, RequestsOnce
    <2>5. RequestsOnce'
      BY <1>10, <2>2, <2>3, <2>4 DEF RequestsOnce
    <2> QED BY <1>5, <1>6, <1>7, <1>8, <2>1, <2>5 DEF Inner
  <1> QED BY <1>9, <1>10, RouteSendIs

\* The requests that are left after a loop took the first frame of its inbox.
LEMMA ReceiveLeaves ==
    ASSUME Shape, NEW g \in Generations, loops[g].queue # <<>>, NEW step, Receive(g, step)
    PROVE  /\ Len(loops'[g].queue) = Len(loops[g].queue) - 1
           /\ \A h \in Generations, i \in Nat : IsRequestAt(h, i)' =>
                LET j == IF h = g THEN i + 1 ELSE i
                IN  j \in Nat /\ IsRequestAt(h, j) /\ loops'[h].queue[i] = loops[h].queue[j]
  <1>1. /\ Len(loops[g].queue) \in Nat \ {0}
        /\ Len(Tail(loops[g].queue)) = Len(loops[g].queue) - 1
        /\ \A i \in 1..Len(loops[g].queue) - 1 :
              Tail(loops[g].queue)[i] = loops[g].queue[i + 1]
    BY HeadIs
  <1>2. loops'[g].queue = Tail(loops[g].queue)
        /\ \A h \in Generations \ {g} : loops'[h].queue = loops[h].queue
    BY DEF Receive
  <1>3. ASSUME NEW i \in Nat, IsRequestAt(g, i)'
        PROVE  IsRequestAt(g, i + 1) /\ loops'[g].queue[i] = loops[g].queue[i + 1]
    <2>1. i \in 1..Len(loops[g].queue) - 1 /\ loops'[g].queue[i].kind = "request"
      BY <1>1, <1>2, <1>3 DEF IsRequestAt
    <2> QED BY <1>1, <1>2, <2>1 DEF IsRequestAt
  <1>4. ASSUME NEW h \in Generations \ {g}, NEW i \in Nat, IsRequestAt(h, i)'
        PROVE  IsRequestAt(h, i) /\ loops'[h].queue[i] = loops[h].queue[i]
    BY <1>2, <1>4 DEF IsRequestAt
  <1>5. ASSUME NEW h \in Generations, NEW i \in Nat, IsRequestAt(h, i)'
        PROVE  LET j == IF h = g THEN i + 1 ELSE i
               IN  j \in Nat /\ IsRequestAt(h, j) /\ loops'[h].queue[i] = loops[h].queue[j]
    <2>1. CASE h = g
      BY <1>3, <1>5, <2>1
    <2>2. CASE h # g
      BY <1>4, <1>5, <2>2
    <2> QED BY <2>1, <2>2
  <1>6. Len(loops'[g].queue) = Len(loops[g].queue) - 1
    BY <1>1, <1>2
  <1> QED BY <1>5, <1>6

\* They are still where they were, once, if their calls are.
LEMMA RequestsReceived ==
    ASSUME Shape, RequestsOnce, NEW g \in Generations, loops[g].queue # <<>>, NEW step,
           Receive(g, step), UNCHANGED reader,
           \A c \in Calls :
              \/ calls'[c].at = calls[c].at
              \/ IsRequestAt(g, 1) /\ c = loops[g].queue[1].call /\ calls[c].at = "queued"
    PROVE  RequestsOnce'
  <1>1. \A h \in Generations, i \in Nat : IsRequestAt(h, i)' =>
           LET j == IF h = g THEN i + 1 ELSE i
           IN  j \in Nat /\ IsRequestAt(h, j) /\ loops'[h].queue[i] = loops[h].queue[j]
    BY ReceiveLeaves
  <1>2. reader' # None /\ reader'.at = "send" /\ reader'.frame.kind = "request"
           => calls'[reader'.frame.call].at = "routing"
    BY FrameCalls DEF RequestsOnce
  <1>3. ASSUME NEW h \in Generations, NEW i \in Nat, IsRequestAt(h, i)'
        PROVE  calls'[loops'[h].queue[i].call].at = "queued"
    <2>1. PICK j \in Nat : /\ IsRequestAt(h, j) /\ loops'[h].queue[i] = loops[h].queue[j]
                           /\ h = g => j = i + 1
      BY <1>1, <1>3
    <2>2. i # 0
      BY <1>3 DEF IsRequestAt
    <2>3. loops[h].queue[j].call \in Calls /\ calls[loops[h].queue[j].call].at = "queued"
      BY <2>1, FrameCalls DEF RequestsOnce
    <2>4. ~(IsRequestAt(g, 1) /\ loops[h].queue[j].call = loops[g].queue[1].call)
      BY <2>1, <2>2 DEF RequestsOnce
    <2> QED BY <2>1, <2>3, <2>4
  <1>4. ASSUME NEW k \in Generations, NEW h \in Generations, NEW i \in Nat, NEW j \in Nat,
               IsRequestAt(k, i)', IsRequestAt(h, j)',
               loops'[k].queue[i].call = loops'[h].queue[j].call
        PROVE  k = h /\ i = j
    <2>1. PICK m \in Nat : /\ IsRequestAt(k, m) /\ loops'[k].queue[i] = loops[k].queue[m]
                           /\ m = IF k = g THEN i + 1 ELSE i
      BY <1>1, <1>4
    <2>2. PICK n \in Nat : /\ IsRequestAt(h, n) /\ loops'[h].queue[j] = loops[h].queue[n]
                           /\ n = IF h = g THEN j + 1 ELSE j
      BY <1>1, <1>4
    <2>3. k = h /\ m = n
      BY <1>4, <2>1, <2>2 DEF RequestsOnce
    <2> QED BY <2>1, <2>2, <2>3
  <1> QED BY <1>2, <1>3, <1>4 DEF RequestsOnce

LEMMA TakeRequestInner ==
    ASSUME Inner, Shape, NEW g \in Generations, TakeRequest(g)
    PROVE  Inner'
  <1> DEFINE c == Head(loops[g].queue).call
  <1>1. /\ loops[g].at = "recv" /\ loops[g].queue # <<>> /\ Receive(g, "reg_closed")
        /\ c \in Calls /\ UNCHANGED <<reader, live, pending, drained, asked>>
    BY TakeRequestIs DEF TakeRequest, Receives, tokens
  <1>2. \A d \in Calls :
          /\ calls'[d].at = IF d = c THEN "taken" ELSE calls[d].at
          /\ calls'[d].gen = IF d = c THEN g ELSE calls[d].gen
          /\ calls'[d].cancelled = calls[d].cancelled
    BY TakeRequestIs
  <1>3. IsRequestAt(g, 1) /\ c = loops[g].queue[1].call /\ Len(loops[g].queue) \in Nat \ {0}
    BY <1>1, HeadIs DEF TakeRequest, Receives, IsRequestAt
  <1>4. calls[c].at = "queued"
    BY <1>3 DEF Inner, RequestsOnce
  <1>5. \A d \in Calls : calls[d].at = "taken" => d # c /\ calls[d].gen \in Generations \ {g}
    BY <1>1, <1>4 DEF Inner, OneTaken, RegisterSteps
  <1>6. /\ loops'[g].at = "reg_closed"
        /\ \A h \in Generations \ {g} : loops'[h].at = loops[h].at /\ loops'[h].queue = loops[h].queue
    BY <1>1 DEF Receive
  <1> HIDE DEF c
  <1>7. QueuesBounded' /\ TombstonesBounded' /\ PendingFinite'
    <2>1. Len(loops'[g].queue) = Len(loops[g].queue) - 1
      BY <1>1, ReceiveLeaves
    <2>2. QueuesBounded'
      BY <1>3, <1>6, <2>1, HubAssumption DEF Inner, QueuesBounded
    <2> QED BY <1>1, <2>2 DEF Inner, TombstonesBounded, PendingFinite
  <1>8. RequestsOnce'
    BY <1>1, <1>2, <1>3, <1>4, RequestsReceived DEF Inner
  <1>9. OneTaken'
    <2>1. \A d \in Calls : calls'[d].at = "taken" =>
             calls'[d].gen \in Generations /\ loops'[calls'[d].gen].at \in RegisterSteps
      BY <1>2, <1>5, <1>6 DEF Inner, OneTaken, RegisterSteps
    <2>2. \A h \in Generations : loops'[h].at \in RegisterSteps =>
             \E d \in Calls : calls'[d].at = "taken" /\ calls'[d].gen = h
      <3> SUFFICES ASSUME NEW h \in Generations, loops'[h].at \in RegisterSteps
                   PROVE  \E d \in Calls : calls'[d].at = "taken" /\ calls'[d].gen = h
        OBVIOUS
      <3>1. CASE h = g
        BY <1>1, <1>2, <3>1
      <3>2. CASE h # g
        <4>1. PICK d \in Calls : calls[d].at = "taken" /\ calls[d].gen = h
          BY <1>6, <3>2 DEF Inner, OneTaken
        <4> QED BY <1>2, <1>5, <4>1
      <3> QED BY <3>1, <3>2
    <2>3. \A d, e \in Calls :
             calls'[d].at = "taken" /\ calls'[e].at = "taken" /\ calls'[d].gen = calls'[e].gen
                => d = e
      BY <1>2, <1>5 DEF Inner, OneTaken
    <2> QED BY <2>1, <2>2, <2>3 DEF OneTaken
  <1>10. TokenReachable'
    <2> SUFFICES ASSUME NEW d \in Calls, ~calls'[d].cancelled
                 PROVE  /\ calls'[d].at \in InFlight =>
                              calls'[d].gen \in Generations \ drained /\ d \in live[calls'[d].gen]
                        /\ calls'[d].at = "taken" /\ loops'[calls'[d].gen].at = "reg_recheck" =>
                              d \in live[calls'[d].gen]
      BY <1>1 DEF TokenReachable
    <2>1. CASE d = c
      BY <1>2, <1>6, <2>1 DEF InFlight
    <2>2. CASE d # c
      BY <1>2, <1>5, <1>6, <2>2 DEF Inner, TokenReachable
    <2> QED BY <2>1, <2>2
  <1>11. CancelKept'
    <2> SUFFICES ASSUME NEW h \in Generations, NEW d \in Calls,
                        <<h, d>> \in asked, ~calls'[d].cancelled
                 PROVE  /\ calls'[d].at \in {"unsent", "routing", "queued"} =>
                              d \in pending[h] \/ h \in drained
                        /\ calls'[d].at = "taken" /\ calls'[d].gen = h =>
                              \/ h \in drained
                              \/ loops'[h].at \in {"reg_closed", "reg_pending"} /\ d \in pending[h]
                        /\ calls'[d].at \in InFlight => calls'[d].gen # h
      BY <1>1 DEF CancelKept
    <2>1. CASE d = c
      BY <1>2, <1>4, <1>6, <2>1 DEF Inner, CancelKept, InFlight
    <2>2. CASE d # c
      BY <1>2, <1>5, <1>6, <2>2 DEF Inner, CancelKept
    <2> QED BY <2>1, <2>2
  <1> QED BY <1>7, <1>8, <1>9, <1>10, <1>11 DEF Inner

\* A tombstone is added, and at the cap another one has made room for it.
LEMMA TombstoneCounts ==
    ASSUME Shape, TombstonesBounded, PendingFinite,
           NEW g \in Generations, NEW c \in Calls \cup {Straggler}, Tombstone(g, c)
    PROVE  TombstonesBounded' /\ PendingFinite'
  <1>1. /\ \A h \in Generations : h # g => pending'[h] = pending[h]
        /\ \E evicted \in Evictable(g, c) : pending'[g] = (pending[g] \ {evicted}) \cup {c}
    BY TombstoneIs
  <1>2. PICK evicted \in Evictable(g, c) : pending'[g] = (pending[g] \ {evicted}) \cup {c}
    BY <1>1
  <1> DEFINE S == pending[g]
             T == S \ {evicted}
  <1>3. IsFiniteSet(S) /\ Cardinality(S) \in Nat /\ Cardinality(S) <= MaxTombstones
    BY FS_CardinalityType DEF PendingFinite, TombstonesBounded
  <1>4. /\ IsFiniteSet(T)
        /\ Cardinality(T) = IF evicted \in S THEN Cardinality(S) - 1 ELSE Cardinality(S)
    BY <1>3, FS_RemoveElement
  <1>5. /\ IsFiniteSet(T \cup {c})
        /\ Cardinality(T \cup {c}) = IF c \in T THEN Cardinality(T) ELSE Cardinality(T) + 1
    BY <1>4, FS_AddElement
  <1>6. Cardinality(T \cup {c}) <= MaxTombstones
    <2>1. CASE Cardinality(S) >= MaxTombstones
      <3>1. evicted \in S
        BY <1>2, <2>1 DEF Evictable
      <3> HIDE DEF S, T
      <3> QED BY <1>3, <1>4, <1>5, <3>1, HubAssumption
    <2>2. CASE ~(Cardinality(S) >= MaxTombstones)
      <3> HIDE DEF S, T
      <3> QED BY <1>3, <1>4, <1>5, <2>2, HubAssumption
    <2> QED BY <2>1, <2>2
  <1>7. IsFiniteSet(pending'[g]) /\ Cardinality(pending'[g]) <= MaxTombstones
    BY <1>2, <1>5, <1>6
  <1> QED BY <1>1, <1>7 DEF TombstonesBounded, PendingFinite

\* The Cancel of a call without a token is kept as a tombstone; only the one it
\* replaces is given up.
LEMMA TombstoneKeeps ==
    ASSUME Inner, Shape, NEW g \in Generations, NEW c \in Calls \cup {Straggler},
           Tombstone(g, c), loops[g].at = "recv", c \notin live[g],
           UNCHANGED <<calls, live, drained>>,
           \A h \in Generations : loops'[h].at = loops[h].at
    PROVE  CancelKept'
  <1>1. PICK evicted \in Evictable(g, c) :
          /\ pending'[g] = (pending[g] \ {evicted}) \cup {c}
          /\ asked' = (asked \ {<<g, evicted>>}) \cup ({g} \X ({c} \cap Calls))
    BY TombstoneIs
  <1>2. \A h \in Generations : h # g => pending'[h] = pending[h]
    BY TombstoneIs
  <1> SUFFICES ASSUME NEW h \in Generations, NEW d \in Calls,
                      <<h, d>> \in asked', ~calls[d].cancelled
               PROVE  /\ calls[d].at \in {"unsent", "routing", "queued"} =>
                            d \in pending'[h] \/ h \in drained
                      /\ calls[d].at = "taken" /\ calls[d].gen = h =>
                            \/ h \in drained
                            \/ loops[h].at \in {"reg_closed", "reg_pending"} /\ d \in pending'[h]
                      /\ calls[d].at \in InFlight => calls[d].gen # h
    BY DEF CancelKept
  <1>3. CASE h = g /\ d = c
    <2>1. d \in pending'[h]
      BY <1>1, <1>3
    <2>2. ~(calls[d].at = "taken" /\ calls[d].gen = h)
      BY <1>3 DEF Inner, OneTaken, RegisterSteps
    <2>3. calls[d].at \in InFlight => calls[d].gen # h
      BY <1>3 DEF Inner, TokenReachable
    <2> QED BY <2>1, <2>2, <2>3
  <1>4. CASE ~(h = g /\ d = c)
    <2>1. <<h, d>> \in asked /\ ~(h = g /\ d = evicted)
      BY <1>1, <1>4
    <2>2. d \in pending[h] => d \in pending'[h]
      BY <1>1, <1>2, <2>1
    <2> QED BY <2>1, <2>2 DEF Inner, CancelKept
  <1> QED BY <1>3, <1>4

LEMMA TakeCancelInner ==
    ASSUME Inner, Shape, NEW g \in Generations, TakeCancel(g)
    PROVE  Inner'
  <1> DEFINE c == Head(loops[g].queue).call
  <1>1. /\ Receive(g, "recv") /\ loops[g].at = "recv" /\ loops[g].queue # <<>>
        /\ loops[g].queue[1].kind = "cancel" /\ c \in Calls
    BY TakeCancelIs
  <1>2. \A d \in Calls :
          /\ calls'[d].at = calls[d].at /\ calls'[d].gen = calls[d].gen
          /\ calls'[d].cancelled <=> calls[d].cancelled \/ (d = c /\ d \in live[g])
    BY TakeCancelIs
  <1>3. UNCHANGED <<reader, drained>>
    BY DEF TakeCancel
  <1>4. \/ /\ c \in live[g] /\ live' = [live EXCEPT ![g] = @ \ {c}]
           /\ asked' = asked \cup {<<g, c>>} /\ UNCHANGED pending
        \/ c \notin live[g] /\ Tombstone(g, c) /\ UNCHANGED <<live, calls>>
    BY DEF TakeCancel
  <1> HIDE DEF c
  <1>5. \A h \in Generations : loops'[h].at = loops[h].at
    BY <1>1 DEF Receive
  <1>6. QueuesBounded'
    <2>1. Len(loops'[g].queue) = Len(loops[g].queue) - 1 /\ Len(loops[g].queue) \in Nat
      BY <1>1, ReceiveLeaves, HeadIs
    <2> QED BY <1>1, <2>1, HubAssumption DEF Receive, Inner, QueuesBounded
  <1>7. RequestsOnce'
    BY <1>1, <1>2, <1>3, RequestsReceived DEF Inner
  <1>8. OneTaken'
    BY <1>2, <1>5, TakenKept DEF Inner
  <1>9. CASE c \in live[g]
    <2>1. /\ \A h \in Generations, d \in Calls : d # c /\ d \in live[h] => d \in live'[h]
          /\ asked' = asked \cup {<<g, c>>} /\ UNCHANGED pending
      BY <1>4, <1>9 DEF Shape
    <2>2. TombstonesBounded' /\ PendingFinite'
      BY <2>1 DEF Inner, TombstonesBounded, PendingFinite
    <2>3. TokenReachable'
      <3> SUFFICES ASSUME NEW d \in Calls, ~calls'[d].cancelled
                   PROVE  /\ calls'[d].at \in InFlight =>
                                calls'[d].gen \in Generations \ drained /\ d \in live'[calls'[d].gen]
                          /\ calls'[d].at = "taken" /\ loops'[calls'[d].gen].at = "reg_recheck" =>
                                d \in live'[calls'[d].gen]
        BY <1>3 DEF TokenReachable
      <3> QED BY <1>2, <1>5, <1>9, <2>1 DEF Inner, TokenReachable, OneTaken
    <2>4. CancelKept'
      BY <1>2, <1>3, <1>5, <1>9, <2>1 DEF Inner, CancelKept
    <2> QED BY <1>6, <1>7, <1>8, <2>2, <2>3, <2>4 DEF Inner
  <1>10. CASE c \notin live[g]
    <2>1. Tombstone(g, c) /\ UNCHANGED <<live, calls>>
      BY <1>4, <1>10
    <2>2. TombstonesBounded' /\ PendingFinite'
      BY <1>1, <2>1, TombstoneCounts DEF Inner
    <2>3. TokenReachable'
      BY <1>3, <1>5, <2>1 DEF Inner, TokenReachable, OneTaken
    <2>4. CancelKept'
      BY <1>1, <1>3, <1>5, <1>10, <2>1, TombstoneKeeps
    <2> QED BY <1>6, <1>7, <1>8, <2>2, <2>3, <2>4 DEF Inner
  <1> QED BY <1>9, <1>10

LEMMA TakeLateCancelInner ==
    ASSUME Inner, Shape, NEW g \in Generations, TakeLateCancel(g)
    PROVE  Inner'
  <1>1. /\ Tombstone(g, Straggler) /\ loops[g].at = "recv" /\ Straggler \notin live[g]
        /\ UNCHANGED <<loops, live, calls, reader, drained>>
    BY HubAssumption DEF TakeLateCancel, Shape
  <1>2. TombstonesBounded' /\ PendingFinite'
    BY <1>1, TombstoneCounts DEF Inner
  <1>3. CancelKept'
    BY <1>1, TombstoneKeeps
  <1>4. RequestsOnce'
    BY <1>1, RequestsKept DEF Inner
  <1>5. QueuesBounded' /\ OneTaken' /\ TokenReachable'
    BY <1>1 DEF Inner, QueuesBounded, OneTaken, TokenReachable
  <1> QED BY <1>2, <1>3, <1>4, <1>5 DEF Inner

LEMMA RegisterClosedInner ==
    ASSUME Inner, Shape, NEW g \in Generations, RegisterClosed(g)
    PROVE  Inner'
  <1>1. OneTaken /\ loops[g].at = "reg_closed" /\ loops[g].at \in RegisterSteps
    BY DEF RegisterClosed, Inner, RegisterSteps
  <1>2. /\ Taken(g) \in Calls
        /\ calls[Taken(g)].at = "taken" /\ calls[Taken(g)].gen = g
    BY <1>1, TakenIs
  <1>3. /\ \A h \in Generations : loops'[h].queue = loops[h].queue
        /\ \A h \in Generations \ {g} : loops'[h].at = loops[h].at
        /\ \A d \in Calls : calls'[d].gen = calls[d].gen
        /\ \A d \in Calls \ {Taken(g)} :
             calls'[d].at = calls[d].at /\ (calls'[d].cancelled <=> calls[d].cancelled)
        /\ \/ loops'[g].at = "reg_pending" /\ UNCHANGED calls
           \/ /\ loops'[g].at = "recv"
              /\ calls'[Taken(g)].at = "spawned" /\ calls'[Taken(g)].cancelled
    BY <1>1, RegisterClosedIs
  <1>4. UNCHANGED <<reader, live, pending, drained, asked>>
    BY DEF RegisterClosed, tokens
  <1>5. QueuesBounded' /\ TombstonesBounded' /\ PendingFinite'
    BY <1>3, <1>4 DEF Inner, QueuesBounded, TombstonesBounded, PendingFinite
  <1>6. \A d \in Calls : calls[d].at \in {"routing", "queued"} => calls'[d].at = calls[d].at
    BY <1>2, <1>3
  <1>7. RequestsOnce'
    BY <1>3, <1>4, <1>6, RequestsKept DEF Inner
  <1>8. CASE loops'[g].at = "reg_pending" /\ UNCHANGED calls
    <2>1. \A h \in Generations : loops'[h].at \in RegisterSteps <=> loops[h].at \in RegisterSteps
      BY <1>1, <1>3, <1>8 DEF RegisterSteps
    <2>2. OneTaken'
      BY <1>1, <1>8, <2>1, TakenKept
    <2>3. TokenReachable'
      BY <1>1, <1>3, <1>4, <1>8 DEF Inner, TokenReachable, OneTaken
    <2>4. CancelKept'
      BY <1>1, <1>3, <1>4, <1>8 DEF Inner, CancelKept
    <2> QED BY <1>5, <1>7, <2>2, <2>3, <2>4 DEF Inner
  <1>9. CASE /\ loops'[g].at = "recv"
             /\ calls'[Taken(g)].at = "spawned" /\ calls'[Taken(g)].cancelled
    <2>1. OneTaken'
      BY <1>1, <1>3, <1>9, TakenSpawned
    <2>2. TokenReachable'
      <3> SUFFICES ASSUME NEW d \in Calls, ~calls'[d].cancelled
                   PROVE  /\ calls'[d].at \in InFlight =>
                                calls'[d].gen \in Generations \ drained /\ d \in live[calls'[d].gen]
                          /\ calls'[d].at = "taken" /\ loops'[calls'[d].gen].at = "reg_recheck" =>
                                d \in live[calls'[d].gen]
        BY <1>4 DEF TokenReachable
      <3>1. d # Taken(g) /\ calls'[d].at = calls[d].at /\ calls'[d].gen = calls[d].gen
            /\ ~calls[d].cancelled
        BY <1>3, <1>9
      <3>2. calls[d].at = "taken" => calls[d].gen \in Generations \ {g}
        BY <1>1, <3>1, TakenIs DEF OneTaken
      <3> QED BY <1>3, <3>1, <3>2 DEF Inner, TokenReachable
    <2>3. CancelKept'
      <3> SUFFICES ASSUME NEW h \in Generations, NEW d \in Calls,
                          <<h, d>> \in asked, ~calls'[d].cancelled
                   PROVE  /\ calls'[d].at \in {"unsent", "routing", "queued"} =>
                                d \in pending[h] \/ h \in drained
                          /\ calls'[d].at = "taken" /\ calls'[d].gen = h =>
                                \/ h \in drained
                                \/ loops'[h].at \in {"reg_closed", "reg_pending"} /\ d \in pending[h]
                          /\ calls'[d].at \in InFlight => calls'[d].gen # h
        BY <1>4 DEF CancelKept
      <3>1. d # Taken(g) /\ calls'[d].at = calls[d].at /\ calls'[d].gen = calls[d].gen
            /\ ~calls[d].cancelled
        BY <1>3, <1>9
      <3>2. calls[d].at = "taken" => calls[d].gen \in Generations \ {g}
        BY <1>1, <3>1, TakenIs DEF OneTaken
      <3> QED BY <1>3, <3>1, <3>2 DEF Inner, CancelKept
    <2> QED BY <1>5, <1>7, <2>1, <2>2, <2>3 DEF Inner
  <1> QED BY <1>3, <1>8, <1>9

LEMMA RegisterPendingInner ==
    ASSUME Inner, Shape, NEW g \in Generations, RegisterPending(g)
    PROVE  Inner'
  <1>1. OneTaken /\ loops[g].at = "reg_pending" /\ loops[g].at \in RegisterSteps
    BY DEF RegisterPending, Inner, RegisterSteps
  <1>2. /\ Taken(g) \in Calls
        /\ calls[Taken(g)].at = "taken" /\ calls[Taken(g)].gen = g
        /\ \A d \in Calls : calls[d].at = "taken" /\ calls[d].gen = g => d = Taken(g)
    BY <1>1, TakenIs
  <1>3. \A h \in Generations :
          /\ loops'[h].at = IF h = g THEN "reg_insert" ELSE loops[h].at
          /\ loops'[h].queue = loops[h].queue
    BY LoopAtIs DEF RegisterPending, RegisterSteps, LoopSteps
  <1>4. /\ pending'[g] = pending[g] \ {Taken(g)}
        /\ \A h \in Generations \ {g} : pending'[h] = pending[h]
        /\ UNCHANGED <<reader, live, drained, asked>>
    BY DEF RegisterPending, ConsumeTombstone, Shape
  <1>5. \A d \in Calls :
          /\ calls'[d].at = calls[d].at /\ calls'[d].gen = calls[d].gen
          /\ calls'[d].cancelled <=> calls[d].cancelled \/ d \in {Taken(g)} \cap pending[g]
    BY CancelledIs DEF RegisterPending, ConsumeTombstone
  <1>6. TombstonesBounded' /\ PendingFinite'
    <2>1. /\ IsFiniteSet(pending[g]) /\ Cardinality(pending[g]) \in Nat
          /\ Cardinality(pending[g]) <= MaxTombstones
      BY FS_CardinalityType DEF Inner, TombstonesBounded, PendingFinite
    <2>2. /\ IsFiniteSet(pending'[g])
          /\ Cardinality(pending'[g]) = IF Taken(g) \in pending[g] THEN Cardinality(pending[g]) - 1
                                        ELSE Cardinality(pending[g])
      BY <1>4, <2>1, FS_RemoveElement
    <2>3. Cardinality(pending'[g]) <= MaxTombstones
      BY <2>1, <2>2, HubAssumption
    <2> QED BY <1>4, <2>2, <2>3 DEF Inner, TombstonesBounded, PendingFinite
  <1>7. QueuesBounded'
    BY <1>3 DEF Inner, QueuesBounded
  <1>8. RequestsOnce'
    BY <1>3, <1>4, <1>5, RequestsKept DEF Inner
  <1>9. OneTaken'
    <2>1. \A h \in Generations : loops'[h].at \in RegisterSteps <=> loops[h].at \in RegisterSteps
      BY <1>1, <1>3 DEF RegisterSteps
    <2> QED BY <1>1, <1>5, <2>1, TakenKept
  <1>10. TokenReachable'
    BY <1>1, <1>3, <1>4, <1>5 DEF Inner, TokenReachable, OneTaken
  <1>11. CancelKept'
    <2> SUFFICES ASSUME NEW h \in Generations, NEW d \in Calls,
                        <<h, d>> \in asked, ~calls'[d].cancelled
                 PROVE  /\ calls'[d].at \in {"unsent", "routing", "queued"} =>
                              d \in pending'[h] \/ h \in drained
                        /\ calls'[d].at = "taken" /\ calls'[d].gen = h =>
                              \/ h \in drained
                              \/ loops'[h].at \in {"reg_closed", "reg_pending"} /\ d \in pending'[h]
                        /\ calls'[d].at \in InFlight => calls'[d].gen # h
      BY <1>4 DEF CancelKept
    <2>1. CASE d = Taken(g)
      BY <1>2, <1>5, <2>1 DEF Inner, CancelKept, InFlight
    <2>2. CASE d # Taken(g)
      <3>1. d \in pending[h] => d \in pending'[h]
        BY <1>4, <2>2
      <3>2. calls[d].at = "taken" /\ calls[d].gen = h => h # g
        BY <1>2, <2>2
      <3> QED BY <1>3, <1>5, <3>1, <3>2 DEF Inner, CancelKept
    <2> QED BY <2>1, <2>2
  <1> QED BY <1>6, <1>7, <1>8, <1>9, <1>10, <1>11 DEF Inner

LEMMA RegisterInsertInner ==
    ASSUME Inner, Shape, NEW g \in Generations, RegisterInsert(g)
    PROVE  Inner'
  <1>1. OneTaken /\ loops[g].at = "reg_insert" /\ loops[g].at \in RegisterSteps
    BY DEF RegisterInsert, Inner, RegisterSteps
  <1>2. /\ Taken(g) \in Calls
        /\ \A d \in Calls : calls[d].at = "taken" /\ calls[d].gen = g => d = Taken(g)
    BY <1>1, TakenIs
  <1>3. \A h \in Generations :
          /\ loops'[h].at = IF h = g THEN "reg_recheck" ELSE loops[h].at
          /\ loops'[h].queue = loops[h].queue
    BY LoopAtIs DEF RegisterInsert, RegisterSteps, LoopSteps
  <1>4. /\ live'[g] = live[g] \cup {Taken(g)}
        /\ \A h \in Generations \ {g} : live'[h] = live[h]
        /\ UNCHANGED <<reader, calls, pending, drained, asked>>
    BY DEF RegisterInsert, Shape
  <1>5. QueuesBounded' /\ TombstonesBounded' /\ PendingFinite'
    BY <1>3, <1>4 DEF Inner, QueuesBounded, TombstonesBounded, PendingFinite
  <1>6. RequestsOnce'
    BY <1>3, <1>4, RequestsKept DEF Inner
  <1>7. OneTaken'
    <2>1. \A h \in Generations : loops'[h].at \in RegisterSteps <=> loops[h].at \in RegisterSteps
      BY <1>1, <1>3 DEF RegisterSteps
    <2> QED BY <1>1, <1>4, <2>1, TakenKept
  <1>8. TokenReachable'
    <2>1. \A h \in Generations : live[h] \subseteq live'[h]
      BY <1>4
    <2> QED BY <1>2, <1>3, <1>4, <2>1 DEF Inner, TokenReachable, OneTaken
  <1>9. CancelKept'
    BY <1>1, <1>3, <1>4 DEF Inner, CancelKept
  <1> QED BY <1>5, <1>6, <1>7, <1>8, <1>9 DEF Inner

LEMMA RegisterRecheckInner ==
    ASSUME Inner, Shape, drained \subseteq closed, NEW g \in Generations, RegisterRecheck(g)
    PROVE  Inner'
  <1>1. OneTaken /\ loops[g].at = "reg_recheck" /\ loops[g].at \in RegisterSteps
    BY DEF RegisterRecheck, Inner, RegisterSteps
  <1>2. /\ Taken(g) \in Calls
        /\ calls[Taken(g)].at = "taken" /\ calls[Taken(g)].gen = g
        /\ \A d \in Calls : calls[d].at = "taken" /\ calls[d].gen = g => d = Taken(g)
    BY <1>1, TakenIs
  <1>3. /\ live' = IF g \in closed THEN [live EXCEPT ![g] = @ \ {Taken(g)}] ELSE live
        /\ \A h \in Generations :
             /\ loops'[h].at = IF h = g THEN "recv" ELSE loops[h].at
             /\ loops'[h].queue = loops[h].queue
        /\ \A d \in Calls :
             /\ calls'[d].at = IF d = Taken(g) THEN "spawned" ELSE calls[d].at
             /\ calls'[d].gen = calls[d].gen
             /\ calls'[d].cancelled <=>
                  calls[d].cancelled \/ (d = Taken(g) /\ g \in closed /\ d \in live[g])
    BY <1>1, RecheckIs
  <1>4. UNCHANGED <<reader, pending, drained, asked>>
    BY DEF RegisterRecheck
  <1>5. QueuesBounded' /\ TombstonesBounded' /\ PendingFinite'
    BY <1>3, <1>4 DEF Inner, QueuesBounded, TombstonesBounded, PendingFinite
  <1>6. RequestsOnce'
    BY <1>2, <1>3, <1>4, RequestsKept DEF Inner
  <1>7. OneTaken'
    BY <1>1, <1>2, <1>3, TakenSpawned
  <1>8. \A h \in Generations, d \in Calls : d # Taken(g) /\ d \in live[h] => d \in live'[h]
    BY <1>3 DEF Shape
  \* A token that the recheck leaves alone belongs to an open registry.
  <1>9. ~calls'[Taken(g)].cancelled =>
           ~calls[Taken(g)].cancelled /\ Taken(g) \in live[g] /\ g \notin closed /\ live' = live
    BY <1>1, <1>2, <1>3 DEF Inner, TokenReachable
  <1>10. TokenReachable'
    <2> SUFFICES ASSUME NEW d \in Calls, ~calls'[d].cancelled
                 PROVE  /\ calls'[d].at \in InFlight =>
                              calls'[d].gen \in Generations \ drained /\ d \in live'[calls'[d].gen]
                        /\ calls'[d].at = "taken" /\ loops'[calls'[d].gen].at = "reg_recheck" =>
                              d \in live'[calls'[d].gen]
      BY <1>4 DEF TokenReachable
    <2>1. CASE d = Taken(g)
      BY <1>2, <1>3, <1>9, <2>1
    <2>2. CASE d # Taken(g)
      <3>1. calls[d].at = "taken" => calls[d].gen \in Generations \ {g}
        BY <1>1, <1>2, <2>2 DEF OneTaken
      <3> QED BY <1>3, <1>8, <2>2, <3>1 DEF Inner, TokenReachable
    <2> QED BY <2>1, <2>2
  <1>11. CancelKept'
    <2> SUFFICES ASSUME NEW h \in Generations, NEW d \in Calls,
                        <<h, d>> \in asked, ~calls'[d].cancelled
                 PROVE  /\ calls'[d].at \in {"unsent", "routing", "queued"} =>
                              d \in pending[h] \/ h \in drained
                        /\ calls'[d].at = "taken" /\ calls'[d].gen = h =>
                              \/ h \in drained
                              \/ loops'[h].at \in {"reg_closed", "reg_pending"} /\ d \in pending[h]
                        /\ calls'[d].at \in InFlight => calls'[d].gen # h
      BY <1>4 DEF CancelKept
    <2>1. CASE d = Taken(g)
      <3>1. ~calls[d].cancelled /\ g \notin drained
        BY <1>9, <2>1
      <3>2. h # g
        BY <1>1, <1>2, <2>1, <3>1 DEF Inner, CancelKept
      <3> QED BY <1>2, <1>3, <2>1, <3>2
    <2>2. CASE d # Taken(g)
      <3>1. calls[d].at = "taken" => calls[d].gen \in Generations \ {g}
        BY <1>1, <1>2, <2>2 DEF OneTaken
      <3> QED BY <1>3, <2>2, <3>1 DEF Inner, CancelKept
    <2> QED BY <2>1, <2>2
  <1> QED BY <1>5, <1>6, <1>7, <1>10, <1>11 DEF Inner

LEMMA InnerStep ==
    ASSUME IInv, [Next]_vars
    PROVE  Inner'
  <1>0. Shape /\ Inner /\ OpFits /\ drained \subseteq closed
    BY TypeParts DEF IInv, Inner, ClosedFirst
  <1>1. CASE UNCHANGED vars
    <2>1. Aside
      BY <1>1 DEF vars, tokens, Aside
    <2> QED BY <1>0, <2>1, AsideKeeps
  <1>2. CASE \/ BindBegin \/ UnbindBegin \/ (BindStep /\ ~OpDrain) \/ RouteEvict
             \/ \E g \in Generations :
                  Abort(g) \/ LoopEnds(g) \/ TailClose(g) \/ TailSem(g) \/ TailRegistry(g)
    BY <1>0, <1>2, AsideSteps, AsideKeeps
  <1>3. CASE OpDrain
    <2>1. op.old \in Generations
      BY <1>0, <1>3 DEF OpDrain, InOp, OpFits
    <2>2. DrainRegistry(op.old) /\ UNCHANGED <<reader, asked, loops>>
      BY <1>3 DEF OpDrain
    <2> QED BY <1>0, <2>1, <2>2, DrainInner
  <1>4. CASE RouteSend \/ \E f \in Frames : RouteLookup(f)
    BY <1>0, <1>4, RouteSendInner, RouteLookupInner
  <1>5. ASSUME NEW g \in Generations, TailDrain(g)
        PROVE  Inner'
    <2>1. \A h \in Generations :
            /\ loops'[h].queue = loops[h].queue
            /\ loops[h].at \in RegisterSteps \/ loops'[h].at \in RegisterSteps
                  => loops'[h].at = loops[h].at
      BY <1>0, <1>5, LoopAtIs DEF TailDrain, TailSteps, LoopSteps, RegisterSteps
    <2> QED BY <1>0, <1>5, <2>1, DrainInner DEF TailDrain
  <1>6. CASE \E g \in Generations :
               \/ TakeRequest(g) \/ TakeCancel(g) \/ TakeLateCancel(g) \/ RegisterClosed(g)
               \/ RegisterPending(g) \/ RegisterInsert(g) \/ RegisterRecheck(g)
    BY <1>0, <1>6, TakeRequestInner, TakeCancelInner, TakeLateCancelInner, RegisterClosedInner,
       RegisterPendingInner, RegisterInsertInner, RegisterRecheckInner
  <1>7. CASE \E c \in Calls : TaskStep(c) \/ HandlerEnds(c)
    BY <1>0, <1>7, TaskIs, TaskInner
  <1> QED BY <1>1, <1>2, <1>3, <1>4, <1>5, <1>6, <1>7 DEF Next, ReaderStep, LoopStep, BindStep

------------------------------------------------------------------------------
(* The theorems *)

LEMMA IInvInit == Init => IInv
  <1> SUFFICES ASSUME Init
               PROVE  IInv
    OBVIOUS
  <1>1. Shape
    BY HubAssumption DEF Init, Shape, LoopRecord, CallRecord, LoopSteps, CallSteps, Generations
  <1>2. \A g \in Generations :
          loops[g].at = "none" /\ loops[g].queue = <<>> /\ pending[g] = {} /\ live[g] = {}
    BY DEF Init
  <1>3. \A c \in Calls : calls[c].at = "unsent"
    BY DEF Init
  <1>4. QueuesBounded
    BY <1>2, HubAssumption DEF QueuesBounded
  <1>5. TombstonesBounded /\ PendingFinite
    <2>1. IsFiniteSet({}) /\ Cardinality({}) = 0
      BY FS_EmptySet
    <2>2. \A g \in Generations : Cardinality(pending[g]) = 0 /\ IsFiniteSet(pending[g])
      BY <1>2, <2>1
    <2> QED BY <2>2, HubAssumption DEF TombstonesBounded, PendingFinite
  <1>6. OpFits /\ RegistryFits /\ ClosedFirst
    BY <1>2 DEF Init, OpFits, RegistryFits, ClosedFirst
  <1>7. RequestsOnce
    <2>1. \A g \in Generations, i \in Nat : ~IsRequestAt(g, i)
      BY <1>2 DEF IsRequestAt
    <2> QED BY <2>1 DEF Init, RequestsOnce
  <1>8. OneTaken
    BY <1>2, <1>3 DEF OneTaken, RegisterSteps
  <1>9. TokenReachable
    BY <1>3 DEF TokenReachable, InFlight
  <1>10. CancelKept
    BY DEF Init, CancelKept
  <1> QED BY <1>1, <1>4, <1>5, <1>6, <1>7, <1>8, <1>9, <1>10, TypeParts DEF IInv

LEMMA IInvStep == IInv /\ [Next]_vars => IInv'
  BY ShapeStep, OpsStep, ClosedFirstStep, InnerStep, TypePartsNext DEF IInv, Inner

LEMMA IInvHolds == Spec => []IInv
  BY IInvInit, IInvStep, PTL DEF Spec

\* Sessions, loops, registries and calls keep their shape, an inbox never holds more
\* than SESSION_INBOX_BUFFER frames and a registry never more than
\* MAX_PENDING_TOMBSTONES tombstones, whatever the two are.
THEOREM HubTypeCorrect == Spec => []TypeOK
  <1>1. IInv => TypeOK
    BY DEF IInv
  <1> QED BY <1>1, IInvHolds, PTL

\* No call escapes a teardown: a call that is in flight in a generation whose
\* registry cancel_all has drained is cancelled, however many binds, unbinds and
\* calls there are and however register interleaves with close and drain.
THEOREM HubNoOrphans == Spec => []NoOrphans
  <1>1. IInv => NoOrphans
    BY DEF IInv, NoOrphans, TokenReachable
  <1> QED BY <1>1, IInvHolds, PTL

\* No Cancel is lost: a call in flight whose loop has handled a Cancel for it is
\* cancelled, whether the Cancel came before its request, between two steps of
\* register or after, unless its tombstone was evicted.
THEOREM HubCancelReaches == Spec => []CancelReaches
  <1>1. ASSUME IInv
        PROVE  CancelReaches
    <2>1. asked \subseteq Generations \X Calls
      BY <1>1 DEF IInv, TypeOK
    <2> QED BY <1>1, <2>1 DEF IInv, CancelReaches, CancelKept
  <1> QED BY <1>1, IInvHolds, PTL

\* Between operations the registry entry of a session whose loop has not ended is
\* that loop's own, so that the next unbind or rebind cancels the calls it runs.
THEOREM HubRegistryOfLiveLoop == Spec => []RegistryOfLiveLoop
  <1>1. IInv => RegistryOfLiveLoop
    BY DEF IInv, RegistryFits, RegistryOfLiveLoop
  <1> QED BY <1>1, IInvHolds, PTL
==============================================================================
