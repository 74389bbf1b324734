------------------------- MODULE RuntimeClientsProofs -------------------------
(* Proofs about the shared Runtime child, for any number of surfaces, process
   ids and requests. *)
EXTENDS RuntimeClients, TLAPS

(* The inductive invariant. *)

\* All handles are on the registered session.
HandlesShared == \A c \in Surfaces : handle[c] # Nothing => registered = handle[c]

\* A surface is at work on a child that has not been reaped, and on no other's.
BusyHasChild ==
    \A c \in Surfaces :
       IF doing[c].pc = "idle"
       THEN doing[c].pid = Nothing
       ELSE doing[c].pid \in Pids /\ child[doing[c].pid].state # "none"

PidsDistinct ==
    \A c, d \in Surfaces : c # d /\ doing[c].pid # Nothing => doing[c].pid # doing[d].pid

\* A client is in the slot of a session that somebody has a handle on; a call has
\* its client there once the handshake is over, and a child to be dropped is out.
SlotsServed ==
    \A s \in SharedSessions :
       slot[s] # Nothing => Alive(s) /\ child[slot[s]].state # "none"

SlotOfCall ==
    \A c \in Surfaces :
       InCall(c) =>
          slot[handle[c]] = IF doing[c].stage = "operation" THEN doing[c].pid ELSE Nothing

SlotNotDropped ==
    \A c \in Surfaces, s \in SharedSessions :
       doing[c].pc = "dropping" => slot[s] # doing[c].pid

NoneLeftBehind ==
    \A p \in Pids :
       child[p].state # "none" =>
          (\E s \in SharedSessions : slot[s] = p) \/ (\E c \in Surfaces : doing[c].pid = p)

\* No answer is on its way: nothing that was sent is unread.
Quiet(p) ==
    /\ child[p].stdin = <<>>
    /\ \A i \in 1..Len(child[p].stdout) : ~child[p].stdout[i].result

\* The answer to request id, and to no other, is on its way.
Awaiting(p, id) ==
    /\ child[p].stdin \in {<<>>, <<id>>}
    /\ \A i \in 1..Len(child[p].stdout) :
          child[p].stdout[i].result =>
             /\ child[p].stdout[i].answers = id
             /\ child[p].stdin = <<>>
             /\ \A j \in 1..Len(child[p].stdout) : child[p].stdout[j].result => i = j

\* Where a call is and what is in its pipes.  Its stage fits what it is doing; a
\* watcher runs only during a handshake request, for the child of that request;
\* what it reads, and has read, answers its own request.
CallFits(c) ==
    /\ doing[c].pc \in {"operating", "returning"} => doing[c].stage = "operation"
    /\ doing[c].pc = "joining" => doing[c].stage # "operation"
    /\ watchdog[c].state # "off" =>
          /\ watchdog[c].pid = doing[c].pid
          /\ doing[c].pc \in {"sending", "reading", "joining"}
          /\ doing[c].stage # "operation"
    /\ doing[c].pc = "reading" => doing[c].id # 0 /\ Awaiting(doing[c].pid, doing[c].id)
    /\ \/ doing[c].pc \in {"operating", "sending", "returning"}
       \/ doing[c].pc = "joining" /\ doing[c].got # 0
       => Quiet(doing[c].pid)
    /\ doing[c].pc \in {"joining", "returning"} /\ doing[c].got # 0 => doing[c].got = doing[c].id

\* Nothing is unread in the pipes of a client that no call is using.
SlotPipes ==
    \A s \in SharedSessions :
       slot[s] # Nothing /\ (\A c \in Surfaces : doing[c].pid # slot[s]) => Quiet(slot[s])

\* Who owns which child.
Ownership ==
    /\ HandlesShared /\ BusyHasChild /\ PidsDistinct
    /\ SlotsServed /\ SlotOfCall /\ SlotNotDropped /\ NoneLeftBehind

Exchange == (\A c \in Surfaces : CallFits(c)) /\ SlotPipes

IInv == RuntimeTypeOK /\ Ownership /\ Exchange

------------------------------------------------------------------------------
(* What the steps of a surface leave alone *)

OthersStay(c) == \A d \in Surfaces : d # c => doing'[d] = doing[d]
SameReaped == \A p \in Pids : child'[p].state = "none" <=> child[p].state = "none"
OnlyOwnPipe(c) == \A p \in Pids : p # doing[c].pid => child'[p] = child[p]

\* The call of c goes on with its child.
GoesOn(c) ==
    /\ InCall(c) /\ InCall(c)'
    /\ doing'[c].pid = doing[c].pid
    /\ doing'[c].stage = "operation" <=> doing[c].stage = "operation"
    /\ OthersStay(c) /\ SameReaped /\ OnlyOwnPipe(c)
    /\ UNCHANGED <<registered, handle, slot, guard>>

\* At most one surface is inside a call.
LEMMA OneInCall ==
    ASSUME IInv, NEW c \in Surfaces, NEW d \in Surfaces, InCall(c), InCall(d)
    PROVE  c = d
  BY DEF IInv, RuntimeTypeOK, Ownership, HandlesShared

\* A child in a slot is in the hands of nobody but a call.
LEMMA SlotUser ==
    ASSUME IInv, NEW c \in Surfaces, NEW s \in SharedSessions,
           slot[s] # Nothing, doing[c].pid = slot[s]
    PROVE  InCall(c) /\ handle[c] = s
  <1>1. doing[c].pc # "idle"
    BY RuntimeAssumption DEF IInv, RuntimeTypeOK, Ownership, BusyHasChild
  <1>2. InCall(c)
    BY <1>1 DEF IInv, Ownership, SlotNotDropped, InCall
  <1>3. registered = s
    <2>1. PICK d \in Surfaces : handle[d] = s
      BY DEF IInv, Ownership, SlotsServed, Alive
    <2> QED BY <2>1, RuntimeAssumption DEF IInv, Ownership, HandlesShared
  <1> QED
    BY <1>2, <1>3 DEF IInv, RuntimeTypeOK, Ownership, HandlesShared

\* A call that goes on owns what it owned.
LEMMA OwnershipGoesOn ==
    ASSUME IInv, NEW c \in Surfaces, GoesOn(c)
    PROVE  Ownership'
  <1>1. \A d \in Surfaces : doing'[d].pid = doing[d].pid /\ (InCall(d)' <=> InCall(d))
                            /\ (doing'[d].stage = "operation" <=> doing[d].stage = "operation")
    BY DEF GoesOn, OthersStay, InCall
  <1>2. \A d \in Surfaces : doing'[d].pc = "idle" <=> doing[d].pc = "idle"
    BY DEF GoesOn, OthersStay, InCall
  <1>3. \A d \in Surfaces : doing'[d].pc = "dropping" <=> doing[d].pc = "dropping"
    BY DEF GoesOn, OthersStay, InCall
  <1>4. HandlesShared' /\ PidsDistinct'
    BY <1>1 DEF GoesOn, IInv, Ownership, HandlesShared, PidsDistinct
  <1>5. BusyHasChild'
    BY <1>1, <1>2 DEF GoesOn, SameReaped, IInv, Ownership, BusyHasChild
  <1>6. SlotsServed'
    BY RuntimeAssumption DEF GoesOn, SameReaped, IInv, RuntimeTypeOK, Ownership, SlotsServed, Alive
  <1>7. SlotOfCall'
    BY <1>1 DEF GoesOn, IInv, Ownership, SlotOfCall
  <1>8. SlotNotDropped'
    BY <1>1, <1>3 DEF GoesOn, IInv, Ownership, SlotNotDropped
  <1>9. NoneLeftBehind'
    <2>1. SUFFICES ASSUME NEW p \in Pids, child'[p].state # "none"
                   PROVE  \/ \E s \in SharedSessions : slot'[s] = p
                          \/ \E d \in Surfaces : doing'[d].pid = p
      BY DEF NoneLeftBehind
    <2>2. child[p].state # "none"
      BY <2>1 DEF GoesOn, SameReaped
    <2> QED BY <2>2, <1>1 DEF GoesOn, IInv, Ownership, NoneLeftBehind
  <1> QED BY <1>4, <1>5, <1>6, <1>7, <1>8, <1>9 DEF Ownership

\* What happens to one child leaves the calls on other children as they are.
LEMMA OthersFit ==
    ASSUME IInv, NEW c \in Surfaces, NEW own,
           OthersStay(c),
           \A p \in Pids : p # own => child'[p] = child[p],
           \A d \in Surfaces : d # c => doing[d].pid # own /\ watchdog'[d] = watchdog[d]
    PROVE  \A d \in Surfaces : d # c => CallFits(d)'
  <1> SUFFICES ASSUME NEW d \in Surfaces, d # c
               PROVE  CallFits(d)'
    OBVIOUS
  <1>1. doing'[d] = doing[d] /\ watchdog'[d] = watchdog[d]
    BY DEF OthersStay
  <1>2. CallFits(d)
    BY DEF IInv, Exchange
  <1>3. doing[d].pc # "idle" => child'[doing[d].pid] = child[doing[d].pid]
    BY DEF IInv, Ownership, BusyHasChild
  <1> QED BY <1>1, <1>2, <1>3 DEF CallFits, Quiet, Awaiting

\* A call that goes on, with its watcher and its pipes in order.
LEMMA ExchangeGoesOn ==
    ASSUME IInv, NEW c \in Surfaces, GoesOn(c), CallFits(c)',
           \A d \in Surfaces : d # c => watchdog'[d] = watchdog[d]
    PROVE  Exchange'
  <1>1. doing[c].pid \in Pids
    BY DEF IInv, Ownership, BusyHasChild, GoesOn, InCall
  <1>2. \A d \in Surfaces : d # c => doing[d].pid # doing[c].pid
    BY <1>1, RuntimeAssumption DEF IInv, Ownership, PidsDistinct
  <1>3. \A d \in Surfaces : d # c => CallFits(d)'
    BY <1>2, OthersFit DEF GoesOn, OnlyOwnPipe
  <1>4. SlotPipes'
    <2> SUFFICES ASSUME NEW s \in SharedSessions, slot'[s] # Nothing,
                        \A d \in Surfaces : doing'[d].pid # slot'[s]
                 PROVE  Quiet(slot[s])'
      BY DEF SlotPipes
    <2>1. slot'[s] = slot[s] /\ slot[s] # doing[c].pid
      BY DEF GoesOn
    <2>2. \A d \in Surfaces : doing[d].pid # slot[s]
      BY DEF GoesOn, OthersStay
    <2>3. Quiet(slot[s])
      BY <2>1, <2>2 DEF IInv, Exchange, SlotPipes
    <2>4. child'[slot[s]] = child[slot[s]]
      BY <2>1 DEF GoesOn, OnlyOwnPipe, IInv, RuntimeTypeOK
    <2> QED BY <2>1, <2>3, <2>4 DEF Quiet
  <1> QED BY <1>3, <1>4 DEF Exchange

\* A call gives its child up, and the slot of its session is empty.
LEMMA GivesUp ==
    ASSUME IInv, NEW c \in Surfaces, InCall(c), watchdog[c].state = "off",
           GiveUp(c, doing[c].pid), SameReaped, OnlyOwnPipe(c),
           slot' = [slot EXCEPT ![handle[c]] = Nothing],
           UNCHANGED <<registered, handle, guard, watchdog>>
    PROVE  Ownership' /\ Exchange'
  <1>1. /\ doing'[c].pc = "dropping" /\ doing'[c].pid = doing[c].pid
        /\ \A d \in Surfaces : d # c => doing'[d] = doing[d]
    BY DEF GiveUp, Idle, IInv, RuntimeTypeOK
  <1>2. handle[c] \in SharedSessions /\ \A s \in SharedSessions : s # handle[c] => slot[s] = Nothing
    <2>1. handle[c] # Nothing /\ registered = handle[c]
      BY DEF IInv, RuntimeTypeOK, Ownership, HandlesShared
    <2> QED BY <2>1, RuntimeAssumption
            DEF IInv, RuntimeTypeOK, Ownership, HandlesShared, SlotsServed, Alive
  <1>3. \A s \in SharedSessions : slot'[s] = Nothing
    BY <1>2 DEF IInv, RuntimeTypeOK
  <1>4. doing[c].pid \in Pids /\ child[doing[c].pid].state # "none"
    BY DEF IInv, Ownership, BusyHasChild, InCall
  <1>5. \A d \in Surfaces : d # c => ~InCall(d) /\ doing[d].pid # doing[c].pid
    BY <1>4, OneInCall, RuntimeAssumption DEF IInv, Ownership, PidsDistinct
  <1>6. HandlesShared' /\ SlotsServed' /\ SlotPipes'
    BY <1>3 DEF IInv, Ownership, HandlesShared, SlotsServed, SlotPipes
  <1>7. BusyHasChild'
    BY <1>1, <1>4 DEF SameReaped, IInv, Ownership, BusyHasChild
  <1>8. PidsDistinct'
    BY <1>1, <1>4, <1>5 DEF IInv, Ownership, PidsDistinct
  <1>9. SlotOfCall' /\ SlotNotDropped'
    <2>1. \A d \in Surfaces : ~InCall(d)'
      BY <1>1, <1>5 DEF InCall
    <2>2. \A d \in Surfaces : doing'[d].pc = "dropping" => doing'[d].pid \in Pids
      BY <1>7 DEF BusyHasChild
    <2> QED BY <2>1, <2>2, <1>3, RuntimeAssumption DEF SlotOfCall, SlotNotDropped
  <1>10. NoneLeftBehind'
    <2> SUFFICES ASSUME NEW p \in Pids, child'[p].state # "none"
                 PROVE  \E d \in Surfaces : doing'[d].pid = p
      BY DEF NoneLeftBehind
    <2>1. \A d \in Surfaces : doing'[d].pid = doing[d].pid
      BY <1>1
    <2>2. child[p].state # "none"
      BY DEF SameReaped
    <2>3. CASE \E d \in Surfaces : doing[d].pid = p
      BY <2>1, <2>3
    <2>4. CASE \E s \in SharedSessions : slot[s] = p
      <3>1. slot[handle[c]] = p
        BY <2>4, <1>2, RuntimeAssumption
      <3>2. doing[c].pid = p
        BY <3>1, RuntimeAssumption DEF IInv, Ownership, SlotOfCall
      <3> QED BY <3>2, <2>1
    <2> QED BY <2>2, <2>3, <2>4 DEF IInv, Ownership, NoneLeftBehind
  <1>11. \A d \in Surfaces : d # c => CallFits(d)'
    BY <1>1, <1>5, OthersFit DEF OthersStay, OnlyOwnPipe
  <1>12. CallFits(c)'
    BY <1>1 DEF CallFits
  <1> QED BY <1>6, <1>7, <1>8, <1>9, <1>10, <1>11, <1>12 DEF Ownership, Exchange

------------------------------------------------------------------------------
(* The steps of a call *)

\* A step inside a call keeps the types if its child and its activity do.
LEMMA TypesInCall ==
    ASSUME IInv, NEW c \in Surfaces, InCall(c), OthersStay(c),
           doing' \in [Surfaces -> Activity], child' \in [Pids -> ChildProcess],
           slot' \in [SharedSessions -> Pids \cup {Nothing}],
           UNCHANGED <<registered, handle, guard, watchdog>>
    PROVE  RuntimeTypeOK'
  <1>1. \A d \in Surfaces : InCall(d)' => InCall(d)
    BY DEF OthersStay, InCall
  <1> QED BY <1>1 DEF IInv, RuntimeTypeOK

\* request returns: with an Err, or with the answer that was its own.
LEMMA AnsweredStep ==
    ASSUME IInv, NEW c \in Surfaces, NEW got \in Nat, Answered(c, got),
           doing[c].pc \in {"sending", "reading"},
           got # 0 => got = doing[c].id /\ Quiet(doing[c].pid)',
           child' \in [Pids -> ChildProcess], SameReaped, OnlyOwnPipe(c),
           UNCHANGED <<registered, handle, guard, watchdog>>
    PROVE  IInv'
  <1>0. InCall(c) /\ doing \in [Surfaces -> Activity] /\ doing[c].pid \in Pids
    BY DEF InCall, IInv, RuntimeTypeOK, Ownership, BusyHasChild
  <1>1. CASE UNCHANGED slot /\ ~(doing[c].stage = "operation" /\ got = 0)
    <2>1. /\ doing'[c].pc = IF doing[c].stage = "operation" THEN "returning" ELSE "joining"
          /\ doing'[c].got = got /\ doing'[c].id = doing[c].id
          /\ doing'[c].pid = doing[c].pid /\ doing'[c].stage = doing[c].stage
          /\ OthersStay(c)
      BY <1>0, <1>1 DEF Answered, OthersStay, Activity
    <2>2. doing' \in [Surfaces -> Activity]
      BY <1>0, <1>1 DEF Answered, Activity
    <2>3. GoesOn(c)
      BY <1>0, <1>1, <2>1 DEF GoesOn, InCall
    <2>4. CallFits(c)
      BY DEF IInv, Exchange
    <2>5. CallFits(c)'
      BY <1>1, <2>1, <2>4 DEF CallFits
    <2>6. RuntimeTypeOK'
      BY <1>0, <1>1, <2>1, <2>2, TypesInCall DEF IInv, RuntimeTypeOK
    <2> QED BY <2>3, <2>5, <2>6, OwnershipGoesOn, ExchangeGoesOn DEF IInv
  <1>2. CASE Discard(c) /\ doing[c].stage = "operation"
    <2>1. CallFits(c)
      BY DEF IInv, Exchange
    <2>2. watchdog[c].state = "off"
      BY <1>2, <2>1 DEF CallFits
    <2>3. Ownership' /\ Exchange'
      BY <1>0, <1>2, <2>2, GivesUp DEF Discard
    <2>4. doing' \in [Surfaces -> Activity] /\ OthersStay(c)
      BY <1>0, <1>2 DEF Discard, GiveUp, Idle, Activity, OthersStay
    <2>5. slot' \in [SharedSessions -> Pids \cup {Nothing}]
      BY <1>2 DEF Discard, IInv, RuntimeTypeOK
    <2> QED BY <1>0, <2>3, <2>4, <2>5, TypesInCall DEF IInv
  <1> QED BY <1>1, <1>2 DEF Answered

LEMMA OperateStep ==
    ASSUME IInv, NEW c \in Surfaces, Operate(c)
    PROVE  IInv'
  <1>0. /\ InCall(c) /\ doing \in [Surfaces -> Activity] /\ child \in [Pids -> ChildProcess]
        /\ slot \in [SharedSessions -> Pids \cup {Nothing}] /\ doing[c].pid \in Pids
    BY DEF Operate, InCall, IInv, RuntimeTypeOK, Ownership, BusyHasChild
  <1>1. CallFits(c) /\ watchdog[c].state = "off"
    BY DEF Operate, IInv, Exchange, CallFits
  <1>2. CASE doing' = [doing EXCEPT ![c].pc = "sending"] /\ UNCHANGED slot
    <2>1. /\ doing'[c].pc = "sending"
          /\ doing'[c].pid = doing[c].pid /\ doing'[c].stage = doing[c].stage
          /\ OthersStay(c) /\ doing' \in [Surfaces -> Activity]
      BY <1>0, <1>2 DEF OthersStay, Activity
    <2>2. GoesOn(c)
      BY <1>0, <1>2, <2>1 DEF Operate, GoesOn, InCall, SameReaped, OnlyOwnPipe
    <2>3. CallFits(c)'
      BY <1>1, <2>1 DEF Operate, CallFits, Quiet
    <2>4. RuntimeTypeOK'
      BY <1>0, <1>2, <2>1, TypesInCall DEF Operate
    <2> QED BY <2>2, <2>3, <2>4, OwnershipGoesOn, ExchangeGoesOn DEF Operate, IInv
  <1>3. CASE Discard(c)
    <2>1. Ownership' /\ Exchange'
      BY <1>0, <1>1, <1>3, GivesUp DEF Operate, Discard, SameReaped, OnlyOwnPipe
    <2>2. doing' \in [Surfaces -> Activity] /\ OthersStay(c)
      BY <1>0, <1>3 DEF Discard, GiveUp, Idle, Activity, OthersStay
    <2>3. slot' \in [SharedSessions -> Pids \cup {Nothing}]
      BY <1>0, <1>3 DEF Discard
    <2> QED BY <1>0, <2>1, <2>2, <2>3, TypesInCall DEF Operate, IInv
  <1> QED BY <1>2, <1>3 DEF Operate

LEMMA SendStep ==
    ASSUME IInv, NEW c \in Surfaces, Send(c)
    PROVE  IInv'
  <1> DEFINE p == doing[c].pid
  <1>0. /\ InCall(c) /\ doing \in [Surfaces -> Activity] /\ child \in [Pids -> ChildProcess]
        /\ slot \in [SharedSessions -> Pids \cup {Nothing}] /\ p \in Pids
    BY DEF Send, InCall, IInv, RuntimeTypeOK, Ownership, BusyHasChild
  <1>1. CASE Running(p)
    <2>1. /\ child' = [child EXCEPT ![p].stdin = Append(@, child[p].nextId), ![p].nextId = @ + 1]
          /\ doing' = [doing EXCEPT ![c].pc = "reading", ![c].id = child[p].nextId]
          /\ UNCHANGED <<registered, handle, slot, guard, watchdog>>
      BY <1>1 DEF Send
    <2>2. child[p].nextId \in Nat /\ child[p].nextId # 0 /\ child[p].stdin \in Seq(Nat)
      BY <1>0 DEF ChildProcess
    <2>3. /\ doing'[c].pc = "reading" /\ doing'[c].id = child[p].nextId
          /\ doing'[c].pid = p /\ doing'[c].stage = doing[c].stage
          /\ OthersStay(c)
      BY <1>0, <2>1 DEF OthersStay, Activity
    <2>10. doing' \in [Surfaces -> Activity]
      <3>1. PICK n \in Nat : n = child[p].nextId
        BY <2>2
      <3>2. doing' = [doing EXCEPT ![c].pc = "reading", ![c].id = n]
        BY <2>1, <3>1
      <3> QED BY <1>0, <3>2 DEF Activity
    <2>4. /\ child'[p].stdin = Append(child[p].stdin, child[p].nextId)
          /\ child'[p].stdout = child[p].stdout
          /\ SameReaped /\ OnlyOwnPipe(c)
      BY <1>0, <2>1 DEF SameReaped, OnlyOwnPipe, ChildProcess
    <2>5. child' \in [Pids -> ChildProcess]
      <3>1. Append(child[p].stdin, child[p].nextId) \in Seq(Nat) /\ child[p].nextId + 1 \in Nat \ {0}
        BY <2>2
      <3> QED BY <1>0, <2>1, <3>1 DEF ChildProcess
    <2>6. CallFits(c) /\ Quiet(p)
      BY DEF Send, IInv, Exchange, CallFits
    <2>7. Awaiting(doing[c].pid, doing[c].id)'
      <3>1. child'[p].stdin = <<doing'[c].id>>
        BY <2>3, <2>4, <2>6 DEF Quiet
      <3>2. \A i \in 1..Len(child'[p].stdout) : ~child'[p].stdout[i].result
        BY <2>4, <2>6 DEF Quiet
      <3> QED BY <3>1, <3>2, <2>3 DEF Awaiting
    <2>8. GoesOn(c)
      BY <1>0, <2>1, <2>3, <2>4 DEF GoesOn, InCall
    <2>9. CallFits(c)'
      BY <2>1, <2>2, <2>3, <2>6, <2>7 DEF Send, CallFits
    <2> QED BY <1>0, <2>1, <2>3, <2>10, <2>5, <2>8, <2>9, OwnershipGoesOn, ExchangeGoesOn, TypesInCall
            DEF IInv
  <1>2. CASE ~Running(p)
    BY <1>0, <1>2, AnsweredStep DEF Send, SameReaped, OnlyOwnPipe
  <1> QED BY <1>1, <1>2

LEMMA ReadLineStep ==
    ASSUME IInv, NEW c \in Surfaces, ReadLine(c)
    PROVE  IInv'
  <1> DEFINE p == doing[c].pid
             line == Head(child[p].stdout)
             got == IF line.result THEN line.answers ELSE 0
  <1>0. child \in [Pids -> ChildProcess] /\ p \in Pids
    BY DEF ReadLine, IInv, RuntimeTypeOK, Ownership, BusyHasChild
  <1>1. child[p].stdout \in Seq(Line) /\ child[p].stdout # <<>>
    BY <1>0 DEF ReadLine, ChildProcess
  <1>2. line \in Line /\ line = child[p].stdout[1] /\ Tail(child[p].stdout) \in Seq(Line)
        /\ Len(child[p].stdout) \in Nat \ {0}
    BY <1>1
  <1>3. got \in Nat
    BY <1>2 DEF Line
  <1>4. child' = [child EXCEPT ![p].stdout = Tail(child[p].stdout)]
    BY DEF ReadLine
  <1>5. /\ child'[p].stdin = child[p].stdin /\ child'[p].stdout = Tail(child[p].stdout)
        /\ SameReaped /\ OnlyOwnPipe(c)
    BY <1>0, <1>4 DEF SameReaped, OnlyOwnPipe, ChildProcess
  <1>6. child' \in [Pids -> ChildProcess]
    BY <1>0, <1>2, <1>4 DEF ChildProcess
  <1>7. Awaiting(p, doing[c].id)
    BY DEF ReadLine, IInv, Exchange, CallFits
  <1>8. ASSUME got # 0
        PROVE  got = doing[c].id /\ child'[p].stdin = <<>>
               /\ \A i \in 1..Len(child'[p].stdout) : ~child'[p].stdout[i].result
    <2>1. line.result
      BY <1>8
    <2>2. 1 \in 1..Len(child[p].stdout)
      BY <1>2
    <2>3. got = doing[c].id /\ child[p].stdin = <<>>
      BY <1>2, <1>7, <2>1, <2>2 DEF Awaiting
    <2>4. ASSUME NEW i \in 1..Len(Tail(child[p].stdout))
          PROVE  ~Tail(child[p].stdout)[i].result
      <3>1. i + 1 \in 1..Len(child[p].stdout) /\ i + 1 # 1
            /\ Tail(child[p].stdout)[i] = child[p].stdout[i + 1]
        BY <1>1
      <3> QED BY <1>2, <1>7, <2>1, <2>2, <3>1 DEF Awaiting
    <2> QED BY <1>5, <2>3, <2>4
  <1>9. doing[c].pc = "reading" /\ Answered(c, got)
        /\ UNCHANGED <<registered, handle, guard, watchdog>>
    BY DEF ReadLine
  <1>10. got # 0 => got = doing[c].id /\ Quiet(doing[c].pid)'
    <2>1. ASSUME got # 0
          PROVE  Quiet(doing[c].pid)'
      <3>1. doing'[c].pid = doing[c].pid
        BY <1>9, <2>1 DEF Answered, IInv, RuntimeTypeOK, Activity
      <3> QED BY <1>8, <2>1, <3>1 DEF Quiet
    <2> QED BY <1>8, <2>1
  <1> HIDE DEF got
  <1> QED BY <1>3, <1>5, <1>6, <1>9, <1>10, AnsweredStep

LEMMA ReadEofStep ==
    ASSUME IInv, NEW c \in Surfaces, ReadEof(c)
    PROVE  IInv'
  BY AnsweredStep DEF ReadEof, SameReaped, OnlyOwnPipe, IInv, RuntimeTypeOK

\* The client that the handshake built gets into its slot, or the second request
\* of the handshake begins.
LEMMA HandshakeStepStep ==
    ASSUME IInv, NEW c \in Surfaces, HandshakeStep(c)
    PROVE  IInv'
  <1> DEFINE p == doing[c].pid
  <1>0. /\ InCall(c) /\ doing \in [Surfaces -> Activity] /\ child \in [Pids -> ChildProcess]
        /\ slot \in [SharedSessions -> Pids \cup {Nothing}] /\ p \in Pids
        /\ child[p].state # "none" /\ UNCHANGED <<registered, handle, guard, child>>
    BY DEF HandshakeStep, Joined, InCall, IInv, RuntimeTypeOK, Ownership, BusyHasChild
  <1>1. CallFits(c) /\ doing[c].stage # "operation" /\ Quiet(p) /\ watchdog[c].state = "off"
    BY DEF HandshakeStep, Joined, IInv, Exchange, CallFits
  <1>2. /\ handle[c] \in SharedSessions /\ slot[handle[c]] = Nothing
        /\ \A s \in SharedSessions : slot[s] = Nothing
    <2>1. handle[c] # Nothing /\ registered = handle[c]
      BY <1>0 DEF IInv, RuntimeTypeOK, Ownership, HandlesShared
    <2>2. slot[handle[c]] = Nothing
      BY <1>0, <1>1 DEF IInv, Ownership, SlotOfCall
    <2> QED BY <2>1, <2>2, RuntimeAssumption
            DEF IInv, RuntimeTypeOK, Ownership, HandlesShared, SlotsServed, Alive
  <1>3. CASE doing[c].stage = "initialize"
    <2>1. /\ doing' = [doing EXCEPT ![c] = [Idle EXCEPT !.pc = "sending", !.pid = p, !.stage = "list"]]
          /\ watchdog' = [watchdog EXCEPT ![c] = [state |-> "armed", pid |-> p]]
          /\ UNCHANGED slot
      BY <1>3 DEF HandshakeStep, StartHandshake
    <2>2. /\ doing'[c].pc = "sending" /\ doing'[c].pid = p /\ doing'[c].stage = "list"
          /\ OthersStay(c)
          /\ watchdog'[c].pid = p
          /\ \A d \in Surfaces : d # c => watchdog'[d] = watchdog[d]
      BY <1>0, <2>1 DEF OthersStay, Idle, IInv, RuntimeTypeOK
    <2>3. GoesOn(c)
      BY <1>0, <1>1, <2>1, <2>2 DEF GoesOn, InCall, SameReaped, OnlyOwnPipe
    <2>4. CallFits(c)'
      BY <1>0, <1>1, <2>2 DEF CallFits, Quiet
    <2>5. /\ doing' \in [Surfaces -> Activity]
          /\ watchdog' \in [Surfaces -> [state : {"off", "armed", "decided"}, pid : Pids \cup {Nothing}]]
      BY <1>0, <2>1 DEF Idle, Activity, IInv, RuntimeTypeOK
    <2>6. \A d \in Surfaces : InCall(d)' => InCall(d)
      BY <1>0, <2>2 DEF OthersStay, InCall
    <2>7. RuntimeTypeOK'
      BY <1>0, <2>1, <2>5, <2>6 DEF IInv, RuntimeTypeOK
    <2> QED BY <2>2, <2>3, <2>4, <2>7, OwnershipGoesOn, ExchangeGoesOn DEF IInv
  <1>4. CASE doing[c].stage # "initialize"
    <2>1. /\ slot' = [slot EXCEPT ![handle[c]] = p]
          /\ doing' = [doing EXCEPT ![c] = [Idle EXCEPT !.pc = "operating", !.pid = p]]
          /\ UNCHANGED watchdog
      BY <1>4 DEF HandshakeStep
    <2>2. /\ doing'[c].pc = "operating" /\ doing'[c].pid = p /\ doing'[c].stage = "operation"
          /\ OthersStay(c)
      BY <1>0, <2>1 DEF OthersStay, Idle
    <2>3. slot'[handle[c]] = p /\ \A s \in SharedSessions : s # handle[c] => slot'[s] = Nothing
      BY <1>0, <1>2, <2>1
    <2>4. \A d \in Surfaces : d # c => ~InCall(d) /\ ~InCall(d)' /\ doing[d].pid # p
                                       /\ doing'[d].pid = doing[d].pid
      BY <1>0, <2>2, OneInCall, RuntimeAssumption DEF IInv, Ownership, PidsDistinct, OthersStay, InCall
    <2>5. doing' \in [Surfaces -> Activity] /\ slot' \in [SharedSessions -> Pids \cup {Nothing}]
      BY <1>0, <2>1 DEF Idle, Activity
    <2>6. RuntimeTypeOK'
      BY <1>0, <2>1, <2>2, <2>5, TypesInCall DEF IInv
    <2>7. HandlesShared' /\ PidsDistinct' /\ BusyHasChild'
      BY <1>0, <2>2, <2>4 DEF IInv, Ownership, HandlesShared, PidsDistinct, BusyHasChild, OthersStay
    <2>8. SlotsServed' /\ SlotOfCall'
      BY <1>0, <1>2, <2>2, <2>3, <2>4 DEF SlotsServed, SlotOfCall, Alive
    <2>9. SlotNotDropped'
      <3>1. \A d \in Surfaces : doing'[d].pc = "dropping" => doing'[d].pid \in Pids /\ doing'[d].pid # p
        BY <2>2, <2>4, <2>7 DEF BusyHasChild
      <3> QED BY <2>3, <3>1, RuntimeAssumption DEF SlotNotDropped
    <2>10. NoneLeftBehind'
      <3>1. \A d \in Surfaces : doing'[d].pid = doing[d].pid
        BY <2>2, <2>4
      <3>2. ASSUME NEW q \in Pids, child[q].state # "none"
            PROVE  \E d \in Surfaces : doing'[d].pid = q
        BY <1>2, <3>1, <3>2, RuntimeAssumption DEF IInv, Ownership, NoneLeftBehind
      <3> QED BY <1>0, <3>2 DEF NoneLeftBehind
    <2>11. \A d \in Surfaces : d # c => CallFits(d)'
      BY <1>0, <2>1, <2>2, <2>4, OthersFit
    <2>12. CallFits(c)'
      BY <1>0, <1>1, <2>1, <2>2 DEF CallFits, Quiet
    <2>13. SlotPipes'
      BY <2>2, <2>3 DEF SlotPipes
    <2> QED BY <2>6, <2>7, <2>8, <2>9, <2>10, <2>11, <2>12, <2>13 DEF IInv, Ownership, Exchange
  <1> QED BY <1>3, <1>4

LEMMA HandshakeFailsStep ==
    ASSUME IInv, NEW c \in Surfaces, HandshakeFails(c)
    PROVE  IInv'
  <1>0. /\ InCall(c) /\ doing \in [Surfaces -> Activity] /\ doing[c].pid \in Pids
        /\ slot \in [SharedSessions -> Pids \cup {Nothing}]
    BY DEF HandshakeFails, Joined, InCall, IInv, RuntimeTypeOK, Ownership, BusyHasChild
  <1>1. doing[c].stage # "operation" /\ watchdog[c].state = "off"
    BY DEF HandshakeFails, Joined, IInv, Exchange, CallFits
  <1>2. slot' = [slot EXCEPT ![handle[c]] = Nothing]
    BY <1>0, <1>1 DEF HandshakeFails, IInv, Ownership, SlotOfCall
  <1>3. Ownership' /\ Exchange'
    BY <1>0, <1>1, <1>2, GivesUp DEF HandshakeFails, SameReaped, OnlyOwnPipe
  <1>4. doing' \in [Surfaces -> Activity] /\ OthersStay(c)
    BY <1>0 DEF HandshakeFails, GiveUp, Idle, Activity, OthersStay
  <1> QED BY <1>0, <1>3, <1>4, TypesInCall DEF HandshakeFails, IInv, RuntimeTypeOK

------------------------------------------------------------------------------
(* A surface enters with_client, leaves it, or drops what it has *)

\* Only the session that a surface has a handle on has a client.
LEMMA OneSlot ==
    ASSUME IInv, NEW c \in Surfaces, handle[c] # Nothing
    PROVE  /\ handle[c] \in SharedSessions /\ registered = handle[c]
           /\ \A s \in SharedSessions : s # handle[c] => slot[s] = Nothing
  BY RuntimeAssumption DEF IInv, RuntimeTypeOK, Ownership, HandlesShared, SlotsServed, Alive

\* While the mutex is free nobody is inside a call or has the client's child.
LEMMA FreeMutex ==
    ASSUME IInv, NEW c \in Surfaces, handle[c] # Nothing, guard[handle[c]] = Nothing
    PROVE  \A d \in Surfaces :
              /\ ~InCall(d)
              /\ slot[handle[c]] # Nothing => doing[d].pid # slot[handle[c]]
  <1>1. \A d \in Surfaces : ~InCall(d)
    BY RuntimeAssumption DEF IInv, RuntimeTypeOK, Ownership, HandlesShared
  <1> QED BY <1>1, OneSlot, SlotUser

\* A surface that is outside a call takes the child out of the slot to drop it.
LEMMA TakenOut ==
    ASSUME IInv, NEW c \in Surfaces, doing[c].pc = "idle", handle[c] # Nothing,
           slot[handle[c]] # Nothing,
           \A d \in Surfaces : ~InCall(d) /\ doing[d].pid # slot[handle[c]],
           GiveUp(c, slot[handle[c]]),
           slot' = [slot EXCEPT ![handle[c]] = Nothing],
           UNCHANGED <<registered, child, watchdog>>,
           \A d \in Surfaces : handle'[d] \in {handle[d], Nothing},
           handle' \in [Surfaces -> SharedSessions \cup {Nothing}],
           guard' \in [SharedSessions -> Surfaces \cup {Nothing}]
    PROVE  IInv'
  <1> DEFINE p == slot[handle[c]]
  <1>0. /\ doing \in [Surfaces -> Activity] /\ slot \in [SharedSessions -> Pids \cup {Nothing}]
        /\ p \in Pids /\ child[p].state # "none"
    BY OneSlot DEF IInv, RuntimeTypeOK, Ownership, SlotsServed
  <1>1. doing'[c].pc = "dropping" /\ doing'[c].pid = p /\ OthersStay(c)
    BY <1>0 DEF GiveUp, Idle, OthersStay
  <1>2. \A s \in SharedSessions : slot'[s] = Nothing
    BY <1>0, OneSlot
  <1>3. \A d \in Surfaces : ~InCall(d)'
    BY <1>1 DEF InCall, OthersStay
  <1>4. doing' \in [Surfaces -> Activity] /\ slot' \in [SharedSessions -> Pids \cup {Nothing}]
    BY <1>0, <1>2 DEF GiveUp, Idle, Activity
  <1>5. RuntimeTypeOK'
    BY <1>3, <1>4 DEF IInv, RuntimeTypeOK
  <1>6. HandlesShared' /\ SlotsServed' /\ SlotOfCall' /\ SlotPipes'
    BY <1>2, <1>3 DEF IInv, Ownership, HandlesShared, SlotsServed, SlotOfCall, SlotPipes
  <1>7. BusyHasChild'
    BY <1>0, <1>1 DEF IInv, Ownership, BusyHasChild, OthersStay
  <1>8. PidsDistinct'
    BY <1>0, <1>1 DEF IInv, Ownership, PidsDistinct, OthersStay
  <1>9. SlotNotDropped'
    BY <1>2, <1>7, RuntimeAssumption DEF SlotNotDropped, BusyHasChild
  <1>10. NoneLeftBehind'
    <2>1. doing[c].pid = Nothing
      BY DEF IInv, Ownership, BusyHasChild
    <2>2. ASSUME NEW q \in Pids, child[q].state # "none"
          PROVE  \E d \in Surfaces : doing'[d].pid = q
      <3>1. CASE \E d \in Surfaces : doing[d].pid = q
        BY <1>1, <2>1, <3>1, RuntimeAssumption DEF OthersStay
      <3>2. CASE \E s \in SharedSessions : slot[s] = q
        <4>1. q = p
          BY <3>2, OneSlot, RuntimeAssumption
        <4> QED BY <1>1, <4>1
      <3> QED BY <2>2, <3>1, <3>2 DEF IInv, Ownership, NoneLeftBehind
    <2> QED BY <2>2 DEF NoneLeftBehind
  <1>11. \A d \in Surfaces : d # c => CallFits(d)'
    BY <1>1, OthersFit
  <1>12. CallFits(c)'
    <2>1. watchdog[c].state = "off"
      BY DEF IInv, Exchange, CallFits
    <2> QED BY <1>1, <2>1 DEF CallFits
  <1> QED BY <1>5, <1>6, <1>7, <1>8, <1>9, <1>10, <1>11, <1>12 DEF IInv, Ownership, Exchange

LEMMA InvalidateStep ==
    ASSUME IInv, NEW c \in Surfaces, Invalidate(c)
    PROVE  IInv'
  <1>1. \A d \in Surfaces : ~InCall(d) /\ doing[d].pid # slot[handle[c]]
    BY FreeMutex DEF Invalidate, Locks
  <1>2. guard' \in [SharedSessions -> Surfaces \cup {Nothing}]
    BY DEF Invalidate, Locks, IInv, RuntimeTypeOK
  <1> QED BY <1>1, <1>2, TakenOut DEF Invalidate, Locks, IInv, RuntimeTypeOK

LEMMA DropHandleStep ==
    ASSUME IInv, NEW c \in Surfaces, DropHandle(c)
    PROVE  IInv'
  <1>0. /\ doing[c].pc = "idle" /\ handle[c] # Nothing /\ ~InCall(c)
        /\ handle' = [handle EXCEPT ![c] = Nothing]
        /\ handle' \in [Surfaces -> SharedSessions \cup {Nothing}]
        /\ UNCHANGED <<registered, guard, child, watchdog>>
    BY DEF DropHandle, IInv, RuntimeTypeOK, InCall
  <1>1. handle'[c] = Nothing /\ \A d \in Surfaces : d # c => handle'[d] = handle[d]
    BY <1>0 DEF IInv, RuntimeTypeOK
  <1>2. CASE slot[handle[c]] # Nothing /\ \A d \in Surfaces \ {c} : handle[d] # handle[c]
    <2>1. \A d \in Surfaces : ~InCall(d)
      BY <1>0, <1>2 DEF IInv, RuntimeTypeOK, Ownership, HandlesShared
    <2>2. \A d \in Surfaces : doing[d].pid # slot[handle[c]]
      BY <1>0, <1>2, <2>1, OneSlot, SlotUser
    <2>3. GiveUp(c, slot[handle[c]]) /\ slot' = [slot EXCEPT ![handle[c]] = Nothing]
      BY <1>2 DEF DropHandle
    <2>4. guard' \in [SharedSessions -> Surfaces \cup {Nothing}]
      BY <1>0 DEF IInv, RuntimeTypeOK
    <2> QED BY <1>0, <1>1, <1>2, <2>1, <2>2, <2>3, <2>4, TakenOut
  <1>3. CASE ~(slot[handle[c]] # Nothing /\ \A d \in Surfaces \ {c} : handle[d] # handle[c])
    <2>1. UNCHANGED <<slot, doing>>
      BY <1>3 DEF DropHandle
    <2>2. RuntimeTypeOK'
      BY <1>0, <1>1, <2>1 DEF IInv, RuntimeTypeOK, InCall
    <2>3. HandlesShared' /\ SlotOfCall'
      BY <1>0, <1>1, <2>1 DEF IInv, Ownership, HandlesShared, SlotOfCall, InCall
    <2>4. BusyHasChild' /\ PidsDistinct' /\ SlotNotDropped' /\ NoneLeftBehind'
      BY <1>0, <2>1 DEF IInv, Ownership, BusyHasChild, PidsDistinct, SlotNotDropped, NoneLeftBehind
    <2>5. SlotsServed'
      <3> SUFFICES ASSUME NEW s \in SharedSessions, slot[s] # Nothing
                   PROVE  (\E d \in Surfaces : handle'[d] = s) /\ child[slot[s]].state # "none"
        BY <1>0, <2>1 DEF SlotsServed, Alive
      <3>1. s = handle[c]
        BY <1>0, OneSlot
      <3>2. PICK d \in Surfaces \ {c} : handle[d] = handle[c]
        BY <1>3, <3>1
      <3> QED BY <1>1, <3>1, <3>2 DEF IInv, Ownership, SlotsServed
    <2>6. Exchange'
      BY <1>0, <2>1 DEF IInv, Exchange, CallFits, SlotPipes, Quiet, Awaiting
    <2> QED BY <2>2, <2>3, <2>4, <2>5, <2>6 DEF IInv, Ownership
  <1> QED BY <1>2, <1>3

LEMMA ConnectInStep ==
    ASSUME IInv, NEW c \in Surfaces, ConnectIn(c)
    PROVE  IInv'
  <1>0. /\ doing[c].pc = "idle" /\ handle[c] = Nothing /\ ~InCall(c)
        /\ registered' = Upgraded /\ handle' = [handle EXCEPT ![c] = Upgraded]
        /\ UNCHANGED <<slot, guard, child, doing, watchdog>>
    BY DEF ConnectIn, InCall
  <1>1. Upgraded \in SharedSessions /\ \A d \in Surfaces : handle[d] # Nothing => handle[d] = Upgraded
    <2>1. CASE registered # Nothing /\ Alive(registered)
      BY <2>1 DEF Upgraded, IInv, RuntimeTypeOK, Ownership, HandlesShared
    <2>2. CASE ~(registered # Nothing /\ Alive(registered))
      <3>1. \A d \in Surfaces : handle[d] = Nothing
        BY <2>2 DEF Alive, IInv, RuntimeTypeOK, Ownership, HandlesShared
      <3>2. \E s \in SharedSessions : ~Alive(s)
        BY <3>1, RuntimeAssumption DEF Alive
      <3> QED BY <2>2, <3>1, <3>2 DEF Upgraded
    <2> QED BY <2>1, <2>2
  <1> HIDE DEF Upgraded
  <1>2. handle'[c] = Upgraded /\ \A d \in Surfaces : d # c => handle'[d] = handle[d]
    BY <1>0 DEF IInv, RuntimeTypeOK
  <1>3. RuntimeTypeOK'
    BY <1>0, <1>1, <1>2 DEF IInv, RuntimeTypeOK, InCall
  <1>4. HandlesShared' /\ SlotOfCall'
    BY <1>0, <1>1, <1>2 DEF IInv, Ownership, HandlesShared, SlotOfCall, InCall
  <1>5. BusyHasChild' /\ PidsDistinct' /\ SlotNotDropped' /\ NoneLeftBehind'
    BY <1>0 DEF IInv, Ownership, BusyHasChild, PidsDistinct, SlotNotDropped, NoneLeftBehind
  <1>6. SlotsServed'
    <2> SUFFICES ASSUME NEW s \in SharedSessions, slot[s] # Nothing
                 PROVE  (\E d \in Surfaces : handle'[d] = s) /\ child[slot[s]].state # "none"
      BY <1>0 DEF SlotsServed, Alive
    <2>1. PICK d \in Surfaces : handle[d] = s
      BY DEF IInv, Ownership, SlotsServed, Alive
    <2> QED BY <1>0, <1>2, <2>1, RuntimeAssumption DEF IInv, Ownership, SlotsServed
  <1>7. Exchange'
    BY <1>0 DEF IInv, Exchange, CallFits, SlotPipes, Quiet, Awaiting
  <1> QED BY <1>3, <1>4, <1>5, <1>6, <1>7 DEF IInv, Ownership

\* spawn_in begins a handshake with a child that was not there before.
LEMMA SpawnInStep ==
    ASSUME IInv, NEW c \in Surfaces, SpawnIn(c)
    PROVE  IInv'
  <1>0. /\ doing[c].pc = "idle" /\ handle[c] # Nothing /\ guard[handle[c]] = Nothing
        /\ guard' = [guard EXCEPT ![handle[c]] = c] /\ slot[handle[c]] = Nothing
        /\ UNCHANGED <<registered, handle, slot>>
    BY DEF SpawnIn, Locks
  <1>1. PICK p \in Pids :
           /\ child[p].state = "none"
           /\ child' = [child EXCEPT ![p] = [NoChild EXCEPT !.state = "alive"]]
           /\ doing' = [doing EXCEPT ![c] = [Idle EXCEPT !.pc = "sending", !.pid = p,
                                                         !.stage = "initialize"]]
           /\ watchdog' = [watchdog EXCEPT ![c] = [state |-> "armed", pid |-> p]]
    BY DEF SpawnIn, StartHandshake
  <1>2. /\ doing'[c].pc = "sending" /\ doing'[c].pid = p /\ doing'[c].stage = "initialize"
        /\ OthersStay(c) /\ watchdog'[c].pid = p
        /\ \A d \in Surfaces : d # c => watchdog'[d] = watchdog[d]
        /\ child'[p].state = "alive" /\ child'[p].stdin = <<>> /\ child'[p].stdout = <<>>
        /\ \A q \in Pids : q # p => child'[q] = child[q]
    BY <1>1 DEF Idle, NoChild, OthersStay, IInv, RuntimeTypeOK
  <1>3. \A s \in SharedSessions : slot[s] = Nothing
    BY <1>0, OneSlot
  <1>4. \A d \in Surfaces : ~InCall(d) /\ doing[d].pid # p
    <2>1. \A d \in Surfaces : ~InCall(d)
      BY <1>0, FreeMutex
    <2> QED BY <1>1, <2>1, RuntimeAssumption DEF IInv, Ownership, BusyHasChild
  <1>5. \A d \in Surfaces : d # c => ~InCall(d)'
    BY <1>2, <1>4 DEF InCall, OthersStay
  <1>6. /\ doing' \in [Surfaces -> Activity] /\ child' \in [Pids -> ChildProcess]
        /\ watchdog' \in [Surfaces -> [state : {"off", "armed", "decided"}, pid : Pids \cup {Nothing}]]
    <2>1. doing' \in [Surfaces -> Activity]
      BY <1>1 DEF Idle, Activity, IInv, RuntimeTypeOK
    <2>2. [NoChild EXCEPT !.state = "alive"] \in ChildProcess
      <3>1. NoChild \in ChildProcess
        BY DEF NoChild, ChildProcess, Line
      <3> QED BY <3>1 DEF ChildProcess
    <2>3. child' \in [Pids -> ChildProcess]
      BY <1>1, <2>2 DEF IInv, RuntimeTypeOK
    <2> QED BY <1>1, <2>1, <2>3 DEF IInv, RuntimeTypeOK
  <1>7. guard' \in [SharedSessions -> Surfaces \cup {Nothing}] /\ guard'[handle[c]] = c
    BY <1>0, OneSlot DEF IInv, RuntimeTypeOK
  <1>8. RuntimeTypeOK'
    BY <1>0, <1>5, <1>6, <1>7 DEF IInv, RuntimeTypeOK
  <1>9. HandlesShared' /\ SlotsServed' /\ SlotPipes'
    BY <1>0, <1>3 DEF IInv, Ownership, HandlesShared, SlotsServed, SlotPipes
  <1>10. BusyHasChild'
    BY <1>2, <1>4 DEF IInv, Ownership, BusyHasChild, OthersStay
  <1>11. PidsDistinct'
    BY <1>2, <1>4 DEF IInv, Ownership, PidsDistinct, OthersStay
  <1>12. SlotOfCall'
    BY <1>0, <1>2, <1>5 DEF SlotOfCall
  <1>13. SlotNotDropped'
    BY <1>0, <1>3, <1>10, RuntimeAssumption DEF SlotNotDropped, BusyHasChild
  <1>14. NoneLeftBehind'
    <2>1. doing[c].pid = Nothing
      BY <1>0 DEF IInv, Ownership, BusyHasChild
    <2>2. ASSUME NEW q \in Pids, child'[q].state # "none", q # p
          PROVE  \E d \in Surfaces : doing'[d].pid = q
      <3>1. PICK d \in Surfaces : doing[d].pid = q
        BY <1>2, <1>3, <2>2, RuntimeAssumption DEF IInv, Ownership, NoneLeftBehind
      <3> QED BY <1>2, <2>1, <3>1, RuntimeAssumption DEF OthersStay
    <2> QED BY <1>2, <2>2 DEF NoneLeftBehind
  <1>15. \A d \in Surfaces : d # c => CallFits(d)'
    BY <1>2, <1>4, OthersFit
  <1>16. CallFits(c)'
    BY <1>2 DEF CallFits, Quiet
  <1> QED BY <1>8, <1>9, <1>10, <1>11, <1>12, <1>13, <1>14, <1>15, <1>16 DEF IInv, Ownership, Exchange

\* The client of an earlier call has nothing unread in its pipes.
LEMMA ReuseStep ==
    ASSUME IInv, NEW c \in Surfaces, Reuse(c)
    PROVE  IInv'
  <1> DEFINE p == slot[handle[c]]
  <1>0. /\ doing[c].pc = "idle" /\ handle[c] # Nothing /\ guard[handle[c]] = Nothing
        /\ guard' = [guard EXCEPT ![handle[c]] = c] /\ p # Nothing
        /\ doing' = [doing EXCEPT ![c] = [Idle EXCEPT !.pc = "operating", !.pid = p]]
        /\ UNCHANGED <<registered, handle, slot, child, watchdog>>
    BY DEF Reuse, Locks
  <1>1. p \in Pids /\ child[p].state # "none" /\ handle[c] \in SharedSessions
    BY <1>0, OneSlot DEF IInv, RuntimeTypeOK, Ownership, SlotsServed
  <1>2. /\ doing'[c].pc = "operating" /\ doing'[c].pid = p /\ doing'[c].stage = "operation"
        /\ OthersStay(c)
    BY <1>0 DEF Idle, OthersStay, IInv, RuntimeTypeOK
  <1>3. \A d \in Surfaces : ~InCall(d) /\ doing[d].pid # p
    BY <1>0, FreeMutex
  <1>4. \A d \in Surfaces : d # c => ~InCall(d)'
    BY <1>2, <1>3 DEF InCall, OthersStay
  <1>5. /\ doing' \in [Surfaces -> Activity]
        /\ guard' \in [SharedSessions -> Surfaces \cup {Nothing}] /\ guard'[handle[c]] = c
    BY <1>0, <1>1 DEF Idle, Activity, IInv, RuntimeTypeOK
  <1>6. RuntimeTypeOK'
    BY <1>0, <1>4, <1>5 DEF IInv, RuntimeTypeOK
  <1>7. HandlesShared' /\ SlotsServed'
    BY <1>0 DEF IInv, Ownership, HandlesShared, SlotsServed, Alive
  <1>8. BusyHasChild'
    BY <1>0, <1>1, <1>2 DEF IInv, Ownership, BusyHasChild, OthersStay
  <1>9. PidsDistinct'
    BY <1>2, <1>3 DEF IInv, Ownership, PidsDistinct, OthersStay
  <1>10. SlotOfCall'
    BY <1>0, <1>2, <1>4 DEF SlotOfCall
  <1>11. SlotNotDropped'
    BY <1>0, <1>2 DEF IInv, Ownership, SlotNotDropped, OthersStay
  <1>12. NoneLeftBehind'
    <2>1. doing[c].pid = Nothing
      BY <1>0 DEF IInv, Ownership, BusyHasChild
    <2>2. ASSUME NEW q \in Pids, child[q].state # "none"
          PROVE  (\E s \in SharedSessions : slot[s] = q) \/ \E d \in Surfaces : doing'[d].pid = q
      <3>1. CASE \E d \in Surfaces : doing[d].pid = q
        BY <1>2, <2>1, <3>1, RuntimeAssumption DEF OthersStay
      <3> QED BY <2>2, <3>1 DEF IInv, Ownership, NoneLeftBehind
    <2> QED BY <1>0, <2>2 DEF NoneLeftBehind
  <1>13. \A d \in Surfaces : d # c => CallFits(d)'
    BY <1>0, <1>2, <1>3, OthersFit
  <1>14. CallFits(c)'
    <2>1. Quiet(p)
      BY <1>0, <1>1, <1>3 DEF IInv, Exchange, SlotPipes
    <2>2. watchdog[c].state = "off"
      BY <1>0 DEF IInv, Exchange, CallFits
    <2> QED BY <1>0, <1>2, <2>1, <2>2 DEF CallFits, Quiet
  <1>15. SlotPipes'
    <2> SUFFICES ASSUME NEW s \in SharedSessions, slot'[s] # Nothing,
                        \A d \in Surfaces : doing'[d].pid # slot'[s]
                 PROVE  Quiet(slot[s])'
      BY DEF SlotPipes
    <2>1. s = handle[c]
      BY <1>0, OneSlot
    <2> QED BY <1>0, <1>2, <2>1
  <1> QED BY <1>6, <1>7, <1>8, <1>9, <1>10, <1>11, <1>12, <1>13, <1>14, <1>15 DEF IInv, Ownership, Exchange

\* A call that ends well leaves its client in the slot, with nothing unread.
LEMMA ReturnStep ==
    ASSUME IInv, NEW c \in Surfaces, Return(c)
    PROVE  IInv'
  <1> DEFINE p == doing[c].pid
  <1>0. /\ InCall(c) /\ doing[c].pc = "returning" /\ doing' = [doing EXCEPT ![c] = Idle]
        /\ guard' = Unlocked(c) /\ UNCHANGED <<registered, handle, slot, child, watchdog>>
    BY DEF Return, InCall
  <1>1. /\ doing[c].stage = "operation" /\ watchdog[c].state = "off" /\ Quiet(p)
        /\ p \in Pids /\ handle[c] \in SharedSessions /\ slot[handle[c]] = p
    BY <1>0, RuntimeAssumption
       DEF IInv, RuntimeTypeOK, Exchange, CallFits, Ownership, BusyHasChild, SlotOfCall
  <1>2. doing'[c].pc = "idle" /\ doing'[c].pid = Nothing /\ OthersStay(c)
    BY <1>0 DEF Idle, OthersStay, IInv, RuntimeTypeOK
  <1>3. \A d \in Surfaces : ~InCall(d)' /\ (d # c => doing[d].pid # p)
    <2>1. \A d \in Surfaces : d # c => ~InCall(d)
      BY <1>0, OneInCall
    <2> QED BY <1>1, <1>2, <2>1, RuntimeAssumption DEF InCall, OthersStay, IInv, Ownership, PidsDistinct
  <1>4. doing' \in [Surfaces -> Activity] /\ guard' \in [SharedSessions -> Surfaces \cup {Nothing}]
    BY <1>0 DEF Idle, Activity, Unlocked, IInv, RuntimeTypeOK
  <1>5. RuntimeTypeOK'
    BY <1>0, <1>3, <1>4 DEF IInv, RuntimeTypeOK
  <1>6. HandlesShared' /\ SlotsServed' /\ SlotOfCall'
    BY <1>0, <1>3 DEF IInv, Ownership, HandlesShared, SlotsServed, SlotOfCall, Alive
  <1>7. BusyHasChild' /\ SlotNotDropped'
    BY <1>0, <1>2 DEF IInv, Ownership, BusyHasChild, SlotNotDropped, OthersStay
  <1>8. PidsDistinct'
    <2> SUFFICES ASSUME NEW d \in Surfaces, NEW e \in Surfaces, d # e, doing'[d].pid # Nothing
                 PROVE  doing'[d].pid # doing'[e].pid
      BY DEF PidsDistinct
    <2> QED BY <1>2 DEF IInv, Ownership, PidsDistinct, OthersStay
  <1>9. NoneLeftBehind'
    <2>1. ASSUME NEW q \in Pids, child[q].state # "none", q # p
          PROVE  (\E s \in SharedSessions : slot[s] = q) \/ \E d \in Surfaces : doing'[d].pid = q
      BY <1>2, <2>1 DEF IInv, Ownership, NoneLeftBehind, OthersStay
    <2> QED BY <1>0, <1>1, <2>1 DEF NoneLeftBehind
  <1>10. \A d \in Surfaces : d # c => CallFits(d)'
    BY <1>0, <1>2, <1>3, OthersFit
  <1>11. CallFits(c)'
    BY <1>0, <1>1, <1>2 DEF CallFits
  <1>12. SlotPipes'
    <2> SUFFICES ASSUME NEW s \in SharedSessions, slot'[s] # Nothing
                 PROVE  Quiet(slot[s])'
      BY <1>0 DEF SlotPipes
    <2>1. s = handle[c]
      BY <1>0, <1>1, OneSlot, RuntimeAssumption
    <2> QED BY <1>0, <1>1, <2>1 DEF Quiet
  <1> QED BY <1>5, <1>6, <1>7, <1>8, <1>9, <1>10, <1>11, <1>12 DEF IInv, Ownership, Exchange

\* The child that is reaped is nobody else's.
LEMMA DropClientStep ==
    ASSUME IInv, NEW c \in Surfaces, DropClient(c)
    PROVE  IInv'
  <1> DEFINE p == doing[c].pid
  <1>0. /\ doing[c].pc = "dropping" /\ ~InCall(c) /\ doing' = [doing EXCEPT ![c] = Idle]
        /\ child' = [child EXCEPT ![p] = NoChild]
        /\ guard' = Unlocked(c) /\ UNCHANGED <<registered, handle, slot, watchdog>>
    BY DEF DropClient, InCall
  <1>1. /\ p \in Pids /\ watchdog[c].state = "off"
        /\ \A s \in SharedSessions : slot[s] # p
        /\ \A d \in Surfaces : d # c => doing[d].pid # p
    BY <1>0, RuntimeAssumption
       DEF IInv, Exchange, CallFits, Ownership, BusyHasChild, SlotNotDropped, PidsDistinct
  <1>2. /\ doing'[c].pc = "idle" /\ doing'[c].pid = Nothing /\ OthersStay(c)
        /\ child'[p].state = "none" /\ \A q \in Pids : q # p => child'[q] = child[q]
    BY <1>0, <1>1 DEF Idle, NoChild, OthersStay, IInv, RuntimeTypeOK
  <1>3. \A d \in Surfaces : InCall(d)' => d # c /\ InCall(d)
    BY <1>2 DEF InCall, OthersStay
  <1>4. /\ doing' \in [Surfaces -> Activity] /\ child' \in [Pids -> ChildProcess]
        /\ guard' \in [SharedSessions -> Surfaces \cup {Nothing}]
    <2>1. doing' \in [Surfaces -> Activity]
      BY <1>0 DEF Idle, Activity, IInv, RuntimeTypeOK
    <2>2. NoChild \in ChildProcess
      BY DEF NoChild, ChildProcess, Line
    <2>3. child' \in [Pids -> ChildProcess]
      BY <1>0, <2>2 DEF IInv, RuntimeTypeOK
    <2>4. guard' \in [SharedSessions -> Surfaces \cup {Nothing}]
      BY <1>0 DEF Unlocked, IInv, RuntimeTypeOK
    <2> QED BY <2>1, <2>3, <2>4
  <1>5. RuntimeTypeOK'
    <2>1. \A d \in Surfaces : InCall(d)' => handle'[d] # Nothing /\ guard'[handle'[d]] = d
      BY <1>0, <1>3 DEF Unlocked, IInv, RuntimeTypeOK
    <2> QED BY <1>0, <1>4, <2>1 DEF IInv, RuntimeTypeOK
  <1>6. HandlesShared'
    BY <1>0 DEF IInv, Ownership, HandlesShared
  <1>7. SlotsServed'
    <2> SUFFICES ASSUME NEW s \in SharedSessions, slot[s] # Nothing
                 PROVE  (\E d \in Surfaces : handle[d] = s) /\ child'[slot[s]].state # "none"
      BY <1>0 DEF SlotsServed, Alive
    <2>1. slot[s] \in Pids
      BY DEF IInv, RuntimeTypeOK
    <2> QED BY <1>1, <1>2, <2>1 DEF IInv, Ownership, SlotsServed, Alive
  <1>8. SlotOfCall' /\ SlotNotDropped'
    BY <1>0, <1>2, <1>3 DEF IInv, Ownership, SlotOfCall, SlotNotDropped, OthersStay
  <1>9. BusyHasChild'
    BY <1>1, <1>2 DEF IInv, Ownership, BusyHasChild, OthersStay
  <1>10. PidsDistinct'
    <2> SUFFICES ASSUME NEW d \in Surfaces, NEW e \in Surfaces, d # e, doing'[d].pid # Nothing
                 PROVE  doing'[d].pid # doing'[e].pid
      BY DEF PidsDistinct
    <2> QED BY <1>2 DEF IInv, Ownership, PidsDistinct, OthersStay
  <1>11. NoneLeftBehind'
    <2>1. ASSUME NEW q \in Pids, child[q].state # "none", q # p
          PROVE  (\E s \in SharedSessions : slot[s] = q) \/ \E d \in Surfaces : doing'[d].pid = q
      BY <1>2, <2>1 DEF IInv, Ownership, NoneLeftBehind, OthersStay
    <2> QED BY <1>0, <1>2, <2>1 DEF NoneLeftBehind
  <1>12. \A d \in Surfaces : d # c => CallFits(d)'
    BY <1>0, <1>1, <1>2, OthersFit
  <1>13. CallFits(c)'
    BY <1>0, <1>1, <1>2 DEF CallFits
  <1>14. SlotPipes'
    <2> SUFFICES ASSUME NEW s \in SharedSessions, slot'[s] # Nothing,
                        \A d \in Surfaces : doing'[d].pid # slot'[s]
                 PROVE  Quiet(slot[s])'
      BY DEF SlotPipes
    <2>1. slot'[s] = slot[s] /\ slot[s] \in Pids /\ slot[s] # p
      BY <1>0, <1>1 DEF IInv, RuntimeTypeOK
    <2>2. \A d \in Surfaces : doing[d].pid # slot[s]
      BY <1>2, <2>1 DEF OthersStay
    <2>3. Quiet(slot[s])
      BY <2>1, <2>2 DEF IInv, Exchange, SlotPipes
    <2> QED BY <1>2, <2>1, <2>3 DEF Quiet
  <1> QED BY <1>5, <1>6, <1>7, <1>8, <1>9, <1>10, <1>11, <1>12, <1>13, <1>14 DEF IInv, Ownership, Exchange

------------------------------------------------------------------------------
(* The watcher and the Runtime *)

\* A step of the watcher or of the Runtime that keeps the pipes in order.
LEMMA PipesInOrder ==
    ASSUME IInv, UNCHANGED <<registered, handle, slot, guard, doing>>,
           child' \in [Pids -> ChildProcess], SameReaped,
           \A p \in Pids : Quiet(p) => Quiet(p)',
           \A p \in Pids, id \in Nat \ {0} : Awaiting(p, id) => Awaiting(p, id)',
           watchdog' \in [Surfaces -> [state : {"off", "armed", "decided"}, pid : Pids \cup {Nothing}]],
           \A c \in Surfaces :
              watchdog'[c].state # "off" =>
                 watchdog[c].state # "off" /\ watchdog'[c].pid = watchdog[c].pid
    PROVE  IInv'
  <1>1. RuntimeTypeOK'
    BY DEF IInv, RuntimeTypeOK, InCall
  <1>2. HandlesShared' /\ PidsDistinct' /\ SlotOfCall' /\ SlotNotDropped'
    BY DEF IInv, Ownership, HandlesShared, PidsDistinct, SlotOfCall, SlotNotDropped, InCall
  <1>3. BusyHasChild' /\ NoneLeftBehind'
    BY DEF SameReaped, IInv, Ownership, BusyHasChild, NoneLeftBehind
  <1>4. SlotsServed'
    BY DEF SameReaped, IInv, RuntimeTypeOK, Ownership, SlotsServed, Alive
  <1>5. ASSUME NEW c \in Surfaces
        PROVE  CallFits(c)'
    <2>1. CallFits(c) /\ doing[c] \in Activity
      BY DEF IInv, Exchange, RuntimeTypeOK
    <2>2. doing[c].pc # "idle" => doing[c].pid \in Pids
      BY DEF IInv, Ownership, BusyHasChild
    <2>3. doing[c].id \in Nat
      BY <2>1 DEF Activity
    <2>4. doing[c].pc # "idle" /\ Quiet(doing[c].pid) => Quiet(doing[c].pid)'
      BY <2>2 DEF Quiet
    <2>5. doing[c].pc # "idle" /\ doing[c].id # 0 /\ Awaiting(doing[c].pid, doing[c].id)
             => Awaiting(doing[c].pid, doing[c].id)'
      <3>1. ASSUME NEW p \in Pids, NEW id \in Nat \ {0}, Awaiting(p, id),
                   p = doing[c].pid, id = doing[c].id
            PROVE  Awaiting(doing[c].pid, doing[c].id)'
        <4>1. Awaiting(p, id)'
          BY <3>1
        <4>2. p = doing'[c].pid /\ id = doing'[c].id
          BY <3>1
        <4> QED BY <4>1, <4>2 DEF Awaiting
      <3> QED BY <2>2, <2>3, <3>1
    <2> QED BY <2>1, <2>4, <2>5 DEF CallFits
  <1>6. SlotPipes'
    <2> SUFFICES ASSUME NEW s \in SharedSessions, slot[s] # Nothing, Quiet(slot[s])
                 PROVE  Quiet(slot[s])'
      BY DEF IInv, Exchange, SlotPipes
    <2> QED BY DEF IInv, RuntimeTypeOK, Quiet
  <1> QED BY <1>1, <1>2, <1>3, <1>4, <1>5, <1>6 DEF IInv, Ownership, Exchange

\* A child that ends keeps its pipes.
LEMMA ChildEnds ==
    ASSUME IInv, NEW p \in Pids, NEW state \in {"none", "alive", "spared", "dead"},
           state = "none" <=> child[p].state = "none",
           child' = [child EXCEPT ![p].state = state]
    PROVE  /\ child' \in [Pids -> ChildProcess] /\ SameReaped
           /\ \A q \in Pids : Quiet(q) => Quiet(q)'
           /\ \A q \in Pids, id \in Nat \ {0} : Awaiting(q, id) => Awaiting(q, id)'
  <1>1. child \in [Pids -> ChildProcess]
    BY DEF IInv, RuntimeTypeOK
  <1>2. \A q \in Pids : child'[q].stdin = child[q].stdin /\ child'[q].stdout = child[q].stdout
    BY <1>1 DEF ChildProcess
  <1>3. child' \in [Pids -> ChildProcess] /\ SameReaped
    BY <1>1 DEF ChildProcess, SameReaped
  <1> QED BY <1>2, <1>3 DEF Quiet, Awaiting

LEMMA WatcherLooksStep ==
    ASSUME IInv, NEW c \in Surfaces, WatcherEnds(c) \/ WatcherDecides(c)
    PROVE  IInv'
  <1>1. PICK state \in {"off", "decided"} :
           Watches(c, state) /\ watchdog[c].state = "armed"
    BY DEF WatcherEnds, WatcherDecides
  <1>2. UNCHANGED <<registered, handle, slot, guard, child, doing>>
    BY DEF WatcherEnds, WatcherDecides
  <1>3. /\ watchdog' \in [Surfaces -> [state : {"off", "armed", "decided"}, pid : Pids \cup {Nothing}]]
        /\ \A d \in Surfaces :
              watchdog'[d].state # "off" =>
                 watchdog[d].state # "off" /\ watchdog'[d].pid = watchdog[d].pid
    BY <1>1 DEF Watches, NoWatcher, IInv, RuntimeTypeOK
  <1>4. SameReaped /\ child' \in [Pids -> ChildProcess]
        /\ (\A p \in Pids : Quiet(p) => Quiet(p)')
        /\ \A p \in Pids, id \in Nat \ {0} : Awaiting(p, id) => Awaiting(p, id)'
    BY <1>2 DEF SameReaped, Quiet, Awaiting, IInv, RuntimeTypeOK
  <1> QED BY <1>2, <1>3, <1>4, PipesInOrder

LEMMA WatcherKillsStep ==
    ASSUME IInv, NEW c \in Surfaces, WatcherKills(c)
    PROVE  IInv'
  <1> DEFINE p == watchdog[c].pid
  <1>1. /\ watchdog[c].state = "decided" /\ Watches(c, "off")
        /\ UNCHANGED <<registered, handle, slot, guard, doing>>
    BY DEF WatcherKills
  <1>2. p \in Pids
    BY <1>1 DEF IInv, Exchange, CallFits, Ownership, BusyHasChild
  <1>3. child \in [Pids -> ChildProcess]
    BY DEF IInv, RuntimeTypeOK
  <1>4. PICK state \in {"none", "alive", "spared", "dead"} :
           /\ child' = [child EXCEPT ![p].state = state]
           /\ state = "none" <=> child[p].state = "none"
    BY <1>2, <1>3 DEF WatcherKills, Running, ChildProcess
  <1>5. /\ watchdog' \in [Surfaces -> [state : {"off", "armed", "decided"}, pid : Pids \cup {Nothing}]]
        /\ \A d \in Surfaces :
              watchdog'[d].state # "off" =>
                 watchdog[d].state # "off" /\ watchdog'[d].pid = watchdog[d].pid
    BY <1>1 DEF Watches, NoWatcher, IInv, RuntimeTypeOK
  <1> HIDE DEF p
  <1>6. /\ child' \in [Pids -> ChildProcess] /\ SameReaped
        /\ \A q \in Pids : Quiet(q) => Quiet(q)'
        /\ \A q \in Pids, id \in Nat \ {0} : Awaiting(q, id) => Awaiting(q, id)'
    BY <1>2, <1>4, ChildEnds
  <1> QED BY <1>1, <1>5, <1>6, PipesInOrder

LEMMA RuntimeExitsStep ==
    ASSUME IInv, NEW p \in Pids, RuntimeExits(p)
    PROVE  IInv'
  <1>1. /\ child[p].state # "none" /\ child' = [child EXCEPT ![p].state = "dead"]
        /\ UNCHANGED <<registered, handle, slot, guard, doing, watchdog>>
    BY DEF RuntimeExits, Running
  <1>2. /\ child' \in [Pids -> ChildProcess] /\ SameReaped
        /\ \A q \in Pids : Quiet(q) => Quiet(q)'
        /\ \A q \in Pids, id \in Nat \ {0} : Awaiting(q, id) => Awaiting(q, id)'
    BY <1>1, ChildEnds
  <1> QED BY <1>1, <1>2, PipesInOrder DEF IInv, RuntimeTypeOK

\* A line of the child's output answers the request it has read, or none.
LEMMA PrintsStep ==
    ASSUME IInv, NEW p \in Pids, NEW line \in Line, Prints(p, line),
           \/ line = [answers |-> 0, result |-> FALSE]
           \/ child[p].stdin # <<>> /\ line.answers = Head(child[p].stdin)
    PROVE  IInv'
  <1> DEFINE in == IF line.answers = 0 THEN child[p].stdin ELSE Tail(child[p].stdin)
             out == Append(child[p].stdout, line)
  <1>1. /\ child \in [Pids -> ChildProcess] /\ Running(p)
        /\ child[p].stdin \in Seq(Nat) /\ child[p].stdout \in Seq(Line)
        /\ UNCHANGED <<registered, handle, slot, guard, doing, watchdog>>
    BY DEF Prints, IInv, RuntimeTypeOK, ChildProcess
  <1>2. child' = [child EXCEPT ![p].stdout = out, ![p].stdin = in]
    BY <1>1 DEF Prints
  <1>3. in \in Seq(Nat) /\ out \in Seq(Line)
    <2>1. line.answers # 0 => child[p].stdin # <<>>
      OBVIOUS
    <2> QED BY <1>1, <2>1
  <1>4. /\ Len(out) = Len(child[p].stdout) + 1 /\ out[Len(out)] = line
        /\ \A i \in 1..Len(child[p].stdout) : out[i] = child[p].stdout[i]
    BY <1>1
  <1>5. ASSUME Quiet(p)
        PROVE  in = <<>> /\ \A i \in 1..Len(out) : ~out[i].result
    BY <1>1, <1>4, <1>5 DEF Quiet
  <1>6. ASSUME NEW id \in Nat \ {0}, Awaiting(p, id)
        PROVE  /\ in \in {<<>>, <<id>>}
               /\ \A i \in 1..Len(out) :
                     out[i].result =>
                        /\ out[i].answers = id
                        /\ in = <<>>
                        /\ \A j \in 1..Len(out) : out[j].result => i = j
    <2>1. CASE line = [answers |-> 0, result |-> FALSE]
      <3>1. in = child[p].stdin /\ ~line.result
        BY <2>1
      <3>2. \A i \in 1..Len(out) : out[i].result => i \in 1..Len(child[p].stdout)
        BY <1>1, <1>4, <3>1
      <3> HIDE DEF in, out
      <3> QED BY <1>4, <1>6, <3>1, <3>2 DEF Awaiting
    <2>2. CASE child[p].stdin # <<>> /\ line.answers = Head(child[p].stdin)
      <3>1. child[p].stdin = <<id>> /\ line.answers = id
        BY <1>6, <2>2 DEF Awaiting
      <3>2. in = <<>>
        BY <3>1
      <3>3. \A i \in 1..Len(child[p].stdout) : ~out[i].result
        BY <1>4, <1>6, <3>1 DEF Awaiting
      <3>4. \A i \in 1..Len(out) : out[i].result => i = Len(out)
        BY <1>1, <1>3, <1>4, <3>3
      <3> HIDE DEF in, out
      <3> QED BY <1>4, <3>1, <3>2, <3>4
    <2> QED BY <2>1, <2>2
  <1> HIDE DEF in, out
  <1>7. /\ child' \in [Pids -> ChildProcess] /\ SameReaped
        /\ child'[p].stdin = in /\ child'[p].stdout = out
        /\ \A q \in Pids : q # p => child'[q] = child[q]
    BY <1>1, <1>2, <1>3 DEF ChildProcess, SameReaped
  <1>8. \A q \in Pids : Quiet(q) => Quiet(q)'
    BY <1>5, <1>7 DEF Quiet
  <1>9. \A q \in Pids, id \in Nat \ {0} : Awaiting(q, id) => Awaiting(q, id)'
    <2> SUFFICES ASSUME NEW q \in Pids, NEW id \in Nat \ {0}, Awaiting(q, id)
                 PROVE  Awaiting(q, id)'
      OBVIOUS
    <2>1. CASE q = p
      BY <1>6, <1>7, <2>1 DEF Awaiting
    <2>2. CASE q # p
      BY <1>7, <2>2 DEF Awaiting
    <2> QED BY <2>1, <2>2
  <1> QED BY <1>1, <1>7, <1>8, <1>9, PipesInOrder DEF IInv, RuntimeTypeOK

LEMMA RuntimeOutputStep ==
    ASSUME IInv, NEW p \in Pids, RuntimeAnswers(p) \/ RuntimePrints(p)
    PROVE  IInv'
  <1>1. CASE RuntimePrints(p)
    <2>1. [answers |-> 0, result |-> FALSE] \in Line
      BY DEF Line
    <2> QED BY <1>1, <2>1, PrintsStep DEF RuntimePrints
  <1>2. CASE RuntimeAnswers(p)
    <2>1. PICK ok \in BOOLEAN : Prints(p, [answers |-> Head(child[p].stdin), result |-> ok])
      BY <1>2 DEF RuntimeAnswers
    <2>2. child[p].stdin # <<>> /\ child[p].stdin \in Seq(Nat)
      BY <1>2 DEF RuntimeAnswers, IInv, RuntimeTypeOK, ChildProcess
    <2>3. [answers |-> Head(child[p].stdin), result |-> ok] \in Line
      BY <2>2 DEF Line
    <2> QED BY <2>1, <2>2, <2>3, PrintsStep
  <1> QED BY <1>1, <1>2

------------------------------------------------------------------------------
(* The theorems *)

LEMMA Invariant == RuntimeSpec => []IInv
  <1>1. ASSUME RuntimeInit
        PROVE  IInv
    <2> USE <1>1 DEF RuntimeInit, Idle, NoChild, NoWatcher
    <2>1. RuntimeTypeOK
      BY DEF RuntimeTypeOK, Activity, ChildProcess, Line, InCall
    <2>2. Ownership
      BY DEF Ownership, HandlesShared, BusyHasChild, PidsDistinct, SlotsServed, SlotOfCall,
             SlotNotDropped, NoneLeftBehind, InCall
    <2>3. Exchange
      BY DEF Exchange, CallFits, SlotPipes
    <2> QED BY <2>1, <2>2, <2>3 DEF IInv
  <1>2. ASSUME IInv, [RuntimeNext]_runtimeVars
        PROVE  IInv'
    <2>1. CASE RuntimeNext
      <3>1. CASE \E c \in Surfaces :
                    \/ ConnectIn(c) \/ DropHandle(c) \/ SpawnIn(c) \/ Reuse(c) \/ Invalidate(c)
                    \/ Proceeds(c) \/ Watcher(c)
        BY <1>2, <3>1, ConnectInStep, DropHandleStep, SpawnInStep, ReuseStep, InvalidateStep,
           OperateStep, SendStep, ReadLineStep, ReadEofStep, HandshakeStepStep,
           HandshakeFailsStep, ReturnStep, DropClientStep, WatcherLooksStep, WatcherKillsStep
           DEF Proceeds, Watcher
      <3>2. CASE \E p \in Pids : RuntimeAnswers(p) \/ RuntimePrints(p) \/ RuntimeExits(p)
        BY <1>2, <3>2, RuntimeOutputStep, RuntimeExitsStep
      <3> QED BY <2>1, <3>1, <3>2 DEF RuntimeNext
    <2>2. CASE UNCHANGED runtimeVars
      <3>1. RuntimeTypeOK'
        BY <1>2, <2>2 DEF runtimeVars, IInv, RuntimeTypeOK, InCall
      <3>2. Ownership'
        BY <1>2, <2>2 DEF runtimeVars, IInv, Ownership, HandlesShared, BusyHasChild, PidsDistinct,
               SlotsServed, SlotOfCall, SlotNotDropped, NoneLeftBehind, InCall, Alive
      <3>3. Exchange'
        BY <1>2, <2>2 DEF runtimeVars, IInv, Exchange, CallFits, SlotPipes, Quiet, Awaiting
      <3> QED BY <3>1, <3>2, <3>3 DEF IInv
    <2> QED BY <1>2, <2>1, <2>2
  <1> QED BY <1>1, <1>2, PTL DEF RuntimeSpec

\* Types, and that a surface inside with_client holds its session's mutex.
THEOREM RuntimeTypeCorrect == RuntimeSpec => []RuntimeTypeOK
  <1>1. IInv => RuntimeTypeOK
    BY DEF IInv
  <1> QED BY <1>1, Invariant, PTL

\* What request returns answers the request it sent, although no id is compared.
THEOREM AnswersOwn == RuntimeSpec => []AnswersAreOwn
  <1>1. IInv => AnswersAreOwn
    BY DEF IInv, Exchange, CallFits, AnswersAreOwn
  <1> QED BY <1>1, Invariant, PTL

\* The watcher of request_with_timeout kills its own child or none.
THEOREM KillsOwn == RuntimeSpec => []KillsOwnChild
  <1>1. IInv => KillsOwnChild
    BY DEF IInv, Exchange, CallFits, Ownership, BusyHasChild, KillsOwnChild
  <1> QED BY <1>1, Invariant, PTL

\* The surfaces of a workspace use one Runtime child, and none is left behind by
\* connect_in, with_client, invalidate or a dropped handle.
THEOREM OneRuntimeServes == RuntimeSpec => []OneRuntime
  <1>1. ASSUME IInv
        PROVE  OneRuntime
    <2> DEFINE unreaped == {p \in Pids : child[p].state # "none"}
               serving == {slot[s] : s \in {t \in SharedSessions : Alive(t)}}
                          \cup {doing[c].pid : c \in {d \in Surfaces : doing[d].pc # "dropping"}}
    <2>1. ASSUME NEW p \in unreaped
          PROVE  p \in serving \cup {doing[c].pid : c \in Surfaces}
      <3>1. CASE \E s \in SharedSessions : slot[s] = p
        <4>1. PICK s \in SharedSessions : slot[s] = p
          BY <3>1
        <4>2. Alive(s)
          BY <1>1, <2>1, <4>1, RuntimeAssumption DEF IInv, Ownership, SlotsServed
        <4> QED BY <4>1, <4>2
      <3>2. CASE \E c \in Surfaces : doing[c].pid = p
        BY <3>2
      <3> QED BY <1>1, <2>1, <3>1, <3>2 DEF IInv, Ownership, NoneLeftBehind
    <2>2. ASSUME NEW p \in serving \ {Nothing}
          PROVE  \/ \E c \in Surfaces : InCall(c) /\ doing[c].pid = p
                 \/ \E s \in SharedSessions : slot[s] = p
      <3>1. CASE \E s \in SharedSessions : slot[s] = p
        BY <3>1
      <3>2. CASE \E c \in Surfaces : doing[c].pc # "dropping" /\ doing[c].pid = p
        BY <1>1, <2>2, <3>2 DEF IInv, Ownership, BusyHasChild, InCall
      <3> QED BY <2>2, <3>1, <3>2
    <2>3. ASSUME NEW c \in Surfaces, NEW s \in SharedSessions, InCall(c), slot[s] # Nothing
          PROVE  slot[s] = doing[c].pid
      <3>1. handle[c] # Nothing
        BY <1>1, <2>3 DEF IInv, RuntimeTypeOK
      <3>2. s = handle[c]
        BY <1>1, <2>3, <3>1, OneSlot
      <3> QED BY <1>1, <2>3, <3>2 DEF IInv, Ownership, SlotOfCall
    <2>4. ASSUME NEW s \in SharedSessions, NEW t \in SharedSessions,
                 slot[s] # Nothing, slot[t] # Nothing
          PROVE  slot[s] = slot[t]
      <3>1. PICK c \in Surfaces : handle[c] = s
        BY <1>1, <2>4 DEF IInv, Ownership, SlotsServed, Alive
      <3>2. t = handle[c]
        BY <1>1, <2>4, <3>1, OneSlot, RuntimeAssumption
      <3> QED BY <3>1, <3>2
    <2>5. ASSUME NEW p \in serving \ {Nothing}, NEW q \in serving \ {Nothing}
          PROVE  p = q
      BY <1>1, <2>2, <2>3, <2>4, <2>5, OneInCall
    <2> HIDE DEF unreaped, serving
    <2>6. unreaped \subseteq serving \cup {doing[c].pid : c \in Surfaces}
      BY <2>1
    <2>7. \A p, q \in serving \ {Nothing} : p = q
      BY <2>5
    <2> QED BY <2>6, <2>7 DEF OneRuntime, unreaped, serving
  <1> QED BY <1>1, Invariant, PTL
==============================================================================
