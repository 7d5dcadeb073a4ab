------------------------------ MODULE NetProof ------------------------------
(***************************************************************************)
(* The network layer is safe to put on top of the scheduler: its steps are *)
(* steps of Sched, so the theorems of SchedProof hold of it, and no node,  *)
(* write request or descriptor is used by two parties at once.             *)
(***************************************************************************)
EXTENDS Net, SchedProof

nvars == <<vars, netvars>>

CallType == {NoCall} \cup CallOf("accept") \cup CallOf("read") \cup CallOf("write")

Blocked(a) == status[a] = "wait_ev"
Waiter(a, f) == Blocked(a) /\ call[a].op \in {"accept", "read"} /\ call[a].fd = f
Writer(a, f) == Blocked(a) /\ call[a].op = "write" /\ call[a].fd = f

QueueTypes ==
  /\ waitq \in [Fd -> Seq(Actor)]
  /\ wreqs \in [Fd -> Seq(Actor)]
  /\ call \in [Actor -> CallType]

\* The queues of the network layer hold the blocked actors.
WInv == QueueTypes /\ WaitersLinkedOnce /\ RequestsOfBlocked

-----------------------------------------------------------------------------
(* The steps of Net are steps of Sched *)

\* A queue of some actors is an order in which unblock_all can find them.
LEMMA QueueIsOrder ==
  ASSUME NEW S, IsFiniteSet(S), NEW ws \in Seq(Actor), ws # <<>>, IsInjective(ws), Range(ws) \subseteq S
  PROVE  ws \in Orders(S)
<1>1. Len(ws) \in Nat /\ ws \in [1..Len(ws) -> S]
  BY LenProperties DEF Range
<1>2. ws \in Injection(1..Len(ws), S)
  BY <1>1 DEF Injection
<1>3. Cardinality(1..Len(ws)) <= Cardinality(S)
  BY <1>2, FS_Injection
<1>4. Len(ws) # 0
  BY EmptySeq, LenProperties
<1>5. Cardinality(1..Len(ws)) = Len(ws)
  BY <1>1, <1>4, FS_Interval
<1>6. Cardinality(S) \in Nat
  BY FS_CardinalityType
<1>7. Len(ws) \in 1..Cardinality(S)
  BY <1>1, <1>3, <1>4, <1>5, <1>6
<1> QED BY <1>2, <1>7 DEF Orders

LEMMA BlockedFinite == IsFiniteSet({a \in Actor : status[a] = "wait_ev"})
  BY SchedAssumption, FS_Subset

LEMMA WakeIsCallback ==
  ASSUME WInv, NEW f \in Fd, WakeReaders(f)
  PROVE  [Next]_vars
<1>1. CASE waitq[f] = <<>>
  BY <1>1 DEF WakeReaders
<1>2. CASE waitq[f] # <<>>
  <2>1. waitq[f] \in Seq(Actor) /\ IsInjective(waitq[f])
    BY DEF WInv, QueueTypes, WaitersLinkedOnce
  <2>2. Range(waitq[f]) \subseteq Actor
    BY <2>1, LenProperties DEF Range
  <2>3. Range(waitq[f]) \subseteq {a \in Actor : status[a] = "wait_ev"}
    BY <2>2 DEF WInv, WaitersLinkedOnce
  <2>4. waitq[f] \in Orders({a \in Actor : status[a] = "wait_ev"})
    BY <1>2, <2>1, <2>3, BlockedFinite, QueueIsOrder
  <2> QED BY <1>2, <2>4 DEF WakeReaders, Next
<1> QED BY <1>1, <1>2

LEMMA HeadWriter ==
  ASSUME WInv, NEW f \in Fd, wreqs[f] # <<>>
  PROVE  Head(wreqs[f]) \in Actor /\ Writer(Head(wreqs[f]), f)
<1>1. wreqs[f] \in Seq(Actor) /\ IsInjective(wreqs[f])
  BY DEF WInv, QueueTypes, RequestsOfBlocked
<1>2. Head(wreqs[f]) \in Actor /\ Head(wreqs[f]) \in Range(wreqs[f])
  BY <1>1, Dequeue
<1> QED BY <1>2 DEF WInv, RequestsOfBlocked, Writer, Blocked

LEMMA WriteCbIsCallback ==
  ASSUME WInv, NEW f \in Fd, write_cb(f)
  PROVE  Next
<1> DEFINE a == Head(wreqs[f])
<1>1. a \in Actor /\ status[a] = "wait_ev"
  BY HeadWriter DEF write_cb, Writer, Blocked
<1>2. <<a>> \in Seq(Actor) /\ <<a>> # <<>> /\ IsInjective(<<a>>) /\ Range(<<a>>) = {a}
  BY <1>1 DEF IsInjective, Range
<1>3. <<a>> \in Orders({b \in Actor : status[b] = "wait_ev"})
  BY <1>1, <1>2, BlockedFinite, QueueIsOrder
<1> QED BY <1>1, <1>3 DEF write_cb, Next

LEMMA CallIsStep ==
  ASSUME NEW a \in Actor, NetCall(a)
  PROVE  [Next]_vars
<1>1. ASSUME Returns(a)  PROVE [Next]_vars
  BY <1>1 DEF Returns, Next, ActorStep
<1>2. ASSUME NEW c, Blocks(a, c)  PROVE [Next]_vars
  BY <1>2 DEF Blocks, Next, ActorStep
<1>3. ASSUME NEW c, AcceptLoop(a, c)  PROVE [Next]_vars
  BY <1>1, <1>2, <1>3 DEF AcceptLoop
<1>4. ASSUME NEW c, ReadLoop(a, c)  PROVE [Next]_vars
  BY <1>1, <1>2, <1>4 DEF ReadLoop
<1>5. ASSUME NEW f \in Fd, sherry_write(a, f)  PROVE [Next]_vars
  BY <1>5 DEF sherry_write, Next, ActorStep
<1>6. ASSUME NEW f \in Fd, sherry_fd_tcp(a, f) \/ sherry_listen(a, f) \/ sherry_fd_close(a, f)
      PROVE  [Next]_vars
  BY <1>6 DEF sherry_fd_tcp, sherry_listen, sherry_fd_close
<1> QED BY <1>1, <1>3, <1>4, <1>5, <1>6
        DEF NetCall, sherry_accept, AcceptResume, sherry_read, ReadStarted, ReadRefused, ReadResume,
            WriteResume

LEMMA NetStepIsStep ==
  ASSUME WInv, [NetNext]_nvars
  PROVE  [Next]_vars
<1>1. CASE CoreStep
  BY <1>1 DEF CoreStep, Next, ActorStep
<1>2. ASSUME NEW a \in Actor, NetCall(a)  PROVE [Next]_vars
  BY <1>2, CallIsStep
<1>3. ASSUME NEW f \in Fd, NetCallback(f)  PROVE [Next]_vars
  BY <1>3, WakeIsCallback, WriteCbIsCallback
     DEF NetCallback, listen_cb, read_cb, read_cbNothing, close_cb
<1>4. CASE UNCHANGED nvars
  BY <1>4 DEF nvars
<1> QED BY <1>1, <1>2, <1>3, <1>4 DEF NetNext

-----------------------------------------------------------------------------
(* The queues hold the blocked actors *)

\* Without a change of the blocked actors, their calls and the two queues.
LEMMA QueuesFrame ==
  ASSUME WInv, UNCHANGED <<waitq, wreqs, call>>,
         \A a \in Actor : Blocked(a)' <=> Blocked(a)
  PROVE  WInv'
<1>1. QueueTypes'
  BY DEF WInv, QueueTypes
<1>2. WaitersLinkedOnce'
  BY DEF WInv, WaitersLinkedOnce, Blocked
<1>3. RequestsOfBlocked'
  BY DEF WInv, RequestsOfBlocked, Blocked
<1> QED BY <1>1, <1>2, <1>3 DEF WInv

\* The core blocks nobody on a descriptor and wakes nobody who is.
LEMMA CoreKeepsBlocked ==
  ASSUME IInv, CoreStep
  PROVE  \A b \in Actor : Blocked(b)' <=> Blocked(b)
<1> USE DEF Blocked
<1>1. status \in [Actor -> Status]
  BY DEF IInv, TypeOK
<1>2. ASSUME NEW a \in Actor, ctl = "actor", running = a  PROVE status[a] = "running"
  BY <1>2 DEF IInv, HoldsThread
<1>3. ASSUME NEW a \in Actor, status[a] # "wait_ev", setready(a)
      PROVE  \A b \in Actor : Blocked(b)' <=> Blocked(b)
  BY <1>1, <1>3 DEF setready
<1>4. ASSUME NEW m \in Mains \ heap, sherry_init(m)
      PROVE  \A b \in Actor : Blocked(b)' <=> Blocked(b)
  <2>1. m \in Actor /\ status[m] = "none"
    BY <1>4, SchedAssumption DEF IInv, Allocated
  <2> QED BY <1>1, <1>4, <2>1 DEF sherry_init, setrunning
<1>5. ASSUME NEW a \in Actor, CoreCall(a)
      PROVE  \A b \in Actor : Blocked(b)' <=> Blocked(b)
  <2>1. ASSUME NEW new \in Actor \ (heap \cup Mains), NEW id \in 0..sizeactors, sherry_spawn(a, new, id)
        PROVE  \A b \in Actor : Blocked(b)' <=> Blocked(b)
    <3>1. status[new] = "none"
      BY <2>1 DEF IInv, Allocated
    <3> QED BY <1>3, <2>1, <3>1 DEF sherry_spawn
  <2>2. ASSUME sherry_yield(a) \/ ExitYield(a)
        PROVE  \A b \in Actor : Blocked(b)' <=> Blocked(b)
    BY <1>2, <1>3, <2>2 DEF sherry_yield, ExitYield, InActor
  <2>3. ASSUME NEW dst \in 0..(sizeactors - 1), NEW t \in MsgType, sherry_msg_send(a, dst, t)
        PROVE  \A b \in Actor : Blocked(b)' <=> Blocked(b)
    <3>1. actors[dst] \in Actor /\ Revoke(actors[dst])
      BY <2>3 DEF sherry_msg_send, IInv, TypeOK
    <3> QED BY <1>3, <3>1 DEF Revoke, queues
  <2>4. ASSUME RecvBlock(a)
        PROVE  \A b \in Actor : Blocked(b)' <=> Blocked(b)
    BY <1>1, <1>2, <2>4 DEF RecvBlock, InActor
  <2>5. ASSUME UNCHANGED status
        PROVE  \A b \in Actor : Blocked(b)' <=> Blocked(b)
    BY <2>5
  <2>6. ASSUME NEW dst \in 0..(sizeactors - 1), SendToExited(a, dst)  PROVE UNCHANGED status
    BY <2>6 DEF SendToExited, queues
  <2>7. ASSUME sherry_msg_recv(a) \/ RecvResume(a) \/ sherry_main(a) \/ sherry_exit(a)
        PROVE  UNCHANGED status
    BY <2>7 DEF sherry_msg_recv, RecvResume, sherry_main, sherry_exit, queues
  <2> QED BY <1>5, <2>1, <2>2, <2>3, <2>4, <2>5, <2>6, <2>7 DEF CoreCall
<1>6. CASE schdule
  <2>1. readyq \in Seq(Actor) /\ readyq # <<>> /\ IsInjective(readyq)
    BY <1>6 DEF schdule, IInv, TypeOK, OneQueuePerNode
  <2>2. Head(readyq) \in Actor /\ status[Head(readyq)] = "ready"
    BY <2>1, Dequeue DEF IInv, OneQueuePerNode
  <2> QED BY <1>1, <1>6, <2>2 DEF schdule, setrunning
<1>7. CASE uv_run \/ UvReturn
  BY <1>7 DEF uv_run, UvReturn, queues
<1> QED BY <1>4, <1>5, <1>6, <1>7 DEF CoreStep

\* block_fd puts the running actor, which is in no queue, into one.
LEMMA BlockStatus ==
  ASSUME IInv, NEW a \in Actor, block_fd(a)
  PROVE  /\ ~Blocked(a)
         /\ \A b \in Actor : Blocked(b)' <=> (b = a \/ Blocked(b))
BY DEF IInv, TypeOK, HoldsThread, block_fd, Blocked

LEMMA WBlocks ==
  ASSUME IInv, WInv, NEW a \in Actor,
         NEW c \in CallOf("accept") \cup CallOf("read"), Blocks(a, c), UNCHANGED wreqs
  PROVE  WInv'
<1> DEFINE g == c.fd
<1>1. g \in Fd /\ c.op \in {"accept", "read"} /\ c.op # "write" /\ c \in CallType
  BY DEF CallOf, CallType
<1>2. /\ ~Blocked(a)
      /\ \A b \in Actor : Blocked(b)' <=> (b = a \/ Blocked(b))
  BY BlockStatus DEF Blocks
<1>3. /\ waitq' = [waitq EXCEPT ![g] = Append(@, a)]
      /\ call' = [call EXCEPT ![a] = c]
  BY DEF Blocks
<1>4. waitq[g] \in Seq(Actor) /\ IsInjective(waitq[g]) /\ a \notin Range(waitq[g])
  BY <1>1, <1>2 DEF WInv, QueueTypes, WaitersLinkedOnce, Blocked
<1>5. /\ Append(waitq[g], a) \in Seq(Actor)
      /\ Range(Append(waitq[g], a)) = Range(waitq[g]) \cup {a}
      /\ IsInjective(Append(waitq[g], a))
  BY <1>4, Enqueue
<1>6. QueueTypes'
  BY <1>1, <1>3, <1>5 DEF WInv, QueueTypes
<1>7. \A f \in Fd : waitq'[f] = IF f = g THEN Append(waitq[g], a) ELSE waitq[f]
  BY <1>1, <1>3 DEF WInv, QueueTypes
<1>8. \A b \in Actor : call'[b] = IF b = a THEN c ELSE call[b]
  BY <1>3 DEF WInv, QueueTypes
<1>9. WaitersLinkedOnce'
  <2>1. \A f \in Fd : IsInjective(waitq'[f])
    BY <1>5, <1>7 DEF WInv, WaitersLinkedOnce
  <2>2. ASSUME NEW f \in Fd, NEW b \in Actor
        PROVE  b \in Range(waitq'[f]) <=>
                 Blocked(b)' /\ call'[b].op \in {"accept", "read"} /\ call'[b].fd = f
    <3>1. b \in Range(waitq[f]) <=> Waiter(b, f)
      BY DEF WInv, WaitersLinkedOnce, Waiter, Blocked
    <3>2. CASE b = a
      BY <1>1, <1>2, <1>5, <1>7, <1>8, <3>1, <3>2 DEF Waiter
    <3>3. CASE b # a
      BY <1>1, <1>2, <1>5, <1>7, <1>8, <3>1, <3>3 DEF Waiter
    <3> QED BY <3>2, <3>3
  <2> QED BY <2>1, <2>2 DEF WaitersLinkedOnce, Blocked
<1>10. RequestsOfBlocked'
  <2>1. ASSUME NEW f \in Fd, NEW b \in Actor
        PROVE  b \in Range(wreqs'[f]) <=>
                 Blocked(b)' /\ call'[b].op = "write" /\ call'[b].fd = f
    <3>1. b \in Range(wreqs[f]) <=> Writer(b, f)
      BY DEF WInv, RequestsOfBlocked, Writer, Blocked
    <3> QED BY <1>1, <1>2, <1>8, <3>1 DEF Writer
  <2> QED BY <2>1 DEF WInv, RequestsOfBlocked, Blocked
<1> QED BY <1>6, <1>9, <1>10 DEF WInv

LEMMA WWrite ==
  ASSUME IInv, WInv, NEW a \in Actor, NEW g \in Fd, sherry_write(a, g)
  PROVE  WInv'
<1> DEFINE c == [op |-> "write", fd |-> g, client |-> Null, count |-> 0]
<1>1. c \in CallOf("write") /\ c \in CallType
  BY DEF CallOf, CallType
<1>2. /\ ~Blocked(a)
      /\ \A b \in Actor : Blocked(b)' <=> (b = a \/ Blocked(b))
  BY BlockStatus DEF sherry_write
<1>3. /\ wreqs' = [wreqs EXCEPT ![g] = Append(@, a)]
      /\ call' = [call EXCEPT ![a] = c]
      /\ waitq' = waitq
  BY DEF sherry_write, fds
<1>4. wreqs[g] \in Seq(Actor) /\ IsInjective(wreqs[g]) /\ a \notin Range(wreqs[g])
  BY <1>2 DEF WInv, QueueTypes, RequestsOfBlocked, Blocked
<1>5. /\ Append(wreqs[g], a) \in Seq(Actor)
      /\ Range(Append(wreqs[g], a)) = Range(wreqs[g]) \cup {a}
      /\ IsInjective(Append(wreqs[g], a))
  BY <1>4, Enqueue
<1>6. QueueTypes'
  BY <1>1, <1>3, <1>5 DEF WInv, QueueTypes
<1>7. \A f \in Fd : wreqs'[f] = IF f = g THEN Append(wreqs[g], a) ELSE wreqs[f]
  BY <1>3 DEF WInv, QueueTypes
<1>8. \A b \in Actor : call'[b] = IF b = a THEN c ELSE call[b]
  BY <1>3 DEF WInv, QueueTypes
<1>9. RequestsOfBlocked'
  <2>1. \A f \in Fd : IsInjective(wreqs'[f])
    BY <1>5, <1>7 DEF WInv, RequestsOfBlocked
  <2>2. ASSUME NEW f \in Fd, NEW b \in Actor
        PROVE  b \in Range(wreqs'[f]) <=>
                 Blocked(b)' /\ call'[b].op = "write" /\ call'[b].fd = f
    <3>1. b \in Range(wreqs[f]) <=> Writer(b, f)
      BY DEF WInv, RequestsOfBlocked, Writer, Blocked
    <3>2. CASE b = a
      BY <1>2, <1>5, <1>7, <1>8, <3>1, <3>2 DEF Writer
    <3>3. CASE b # a
      BY <1>2, <1>5, <1>7, <1>8, <3>1, <3>3 DEF Writer
    <3> QED BY <3>2, <3>3
  <2> QED BY <2>1, <2>2 DEF RequestsOfBlocked, Blocked
<1>10. WaitersLinkedOnce'
  <2>1. ASSUME NEW f \in Fd, NEW b \in Actor
        PROVE  b \in Range(waitq'[f]) <=>
                 Blocked(b)' /\ call'[b].op \in {"accept", "read"} /\ call'[b].fd = f
    <3>1. b \in Range(waitq[f]) <=> Waiter(b, f)
      BY DEF WInv, WaitersLinkedOnce, Waiter, Blocked
    <3> QED BY <1>2, <1>3, <1>8, <3>1 DEF Waiter
  <2> QED BY <1>3, <2>1 DEF WInv, WaitersLinkedOnce, Blocked
<1> QED BY <1>6, <1>9, <1>10 DEF WInv

\* A call that returns was running, so its actor was in no queue.
LEMMA WReturns ==
  ASSUME IInv, WInv, NEW a \in Actor, Returns(a), UNCHANGED <<waitq, wreqs>>
  PROVE  WInv'
<1>1. status' = status /\ call' = [call EXCEPT ![a] = NoCall]
  BY DEF Returns, IoReturn, vars, queues
<1>2. ~Blocked(a)
  <2>1. ctl = "actor" /\ running = a
    BY DEF Returns, IoReturn, InActor
  <2> QED BY <2>1 DEF IInv, HoldsThread, Blocked
<1>3. \A b \in Actor : call'[b] = IF b = a THEN NoCall ELSE call[b]
  BY <1>1 DEF WInv, QueueTypes
<1>4. QueueTypes'
  BY <1>1 DEF WInv, QueueTypes, CallType
<1>5. WaitersLinkedOnce'
  BY <1>1, <1>2, <1>3 DEF WInv, WaitersLinkedOnce, Blocked
<1>6. RequestsOfBlocked'
  BY <1>1, <1>2, <1>3 DEF WInv, RequestsOfBlocked, Blocked
<1> QED BY <1>4, <1>5, <1>6 DEF WInv

LEMMA CallsTyped ==
  ASSUME WInv, NEW a \in Actor
  PROVE  /\ Resumed(a, "accept") => call[a] \in CallOf("accept")
         /\ Resumed(a, "read") => call[a] \in CallOf("read")
BY DEF WInv, QueueTypes, CallType, CallOf, NoCall, Resumed

LEMMA WCall ==
  ASSUME IInv, WInv, NEW a \in Actor, NetCall(a)
  PROVE  WInv'
<1>1. ASSUME NEW c \in CallOf("accept"), AcceptLoop(a, c)  PROVE WInv'
  BY <1>1, WBlocks, WReturns DEF AcceptLoop, uv
<1>2. ASSUME NEW c \in CallOf("read"), ReadLoop(a, c), UNCHANGED wreqs  PROVE WInv'
  BY <1>2, WBlocks, WReturns DEF ReadLoop
<1>3. ASSUME NEW f \in Fd, NEW g \in Fd, sherry_accept(a, f, g)  PROVE WInv'
  <2>1. [op |-> "accept", fd |-> f, client |-> g, count |-> 0] \in CallOf("accept")
    BY DEF CallOf
  <2> QED BY <1>1, <1>3, <2>1 DEF sherry_accept
<1>4. ASSUME AcceptResume(a)  PROVE WInv'
  BY <1>1, <1>4, CallsTyped DEF AcceptResume
<1>5. ASSUME NEW f \in Fd, NEW count \in 1..MaxCount, ReadStarted(a, f, count)  PROVE WInv'
  <2>1. [op |-> "read", fd |-> f, client |-> Null, count |-> count] \in CallOf("read")
    BY NetAssumption DEF CallOf
  <2> QED BY <1>2, <1>5, <2>1 DEF ReadStarted
<1>6. ASSUME ReadResume(a)  PROVE WInv'
  BY <1>2, <1>6, CallsTyped DEF ReadResume, uv
<1>7. ASSUME WriteResume(a)  PROVE WInv'
  BY <1>7, WReturns DEF WriteResume, fds, uv
<1>8. ASSUME NEW f \in Fd, sherry_fd_tcp(a, f) \/ sherry_listen(a, f) \/ sherry_fd_close(a, f)
      PROVE  WInv'
  BY <1>8, QueuesFrame DEF sherry_fd_tcp, sherry_listen, sherry_fd_close, vars, queues, uv, Blocked
<1>9. ASSUME NEW f \in Fd, ReadRefused(a, f)  PROVE WInv'
  BY <1>9, QueuesFrame DEF ReadRefused, netvars, fds, uv, vars, queues, Blocked
<1> QED BY <1>3, <1>4, <1>5, <1>6, <1>7, <1>8, <1>9, WWrite DEF NetCall, sherry_read

\* unblock_all of a wait queue wakes its waiters and empties it.
LEMMA WWake ==
  ASSUME IInv, WInv, NEW g \in Fd, WakeReaders(g), UNCHANGED <<wreqs, call>>
  PROVE  WInv'
<1>1. CASE waitq[g] = <<>>
  <2>1. waitq' = waitq /\ status' = status
    BY <1>1 DEF WakeReaders, WInv, QueueTypes, vars, queues
  <2> QED BY <2>1, QueuesFrame DEF Blocked
<1>2. CASE waitq[g] # <<>>
  <2>1. \A b \in Actor : status'[b] = IF b \in Range(waitq[g]) THEN "ready" ELSE status[b]
    BY <1>2 DEF WakeReaders, Callback, unblock_all
  <2>2. \A b \in Actor : Blocked(b)' <=> Blocked(b) /\ ~Waiter(b, g)
    BY <2>1 DEF WInv, WaitersLinkedOnce, Waiter, Blocked
  <2>3. \A f \in Fd : waitq'[f] = IF f = g THEN <<>> ELSE waitq[f]
    BY DEF WakeReaders, WInv, QueueTypes
  <2>4. QueueTypes'
    BY DEF WInv, QueueTypes, WakeReaders
  <2>5. IsInjective(<<>>) /\ Range(<<>>) = {}
    BY DEF IsInjective, Range
  <2>6. WaitersLinkedOnce'
    <3>1. \A f \in Fd : IsInjective(waitq'[f])
      BY <2>3, <2>5 DEF WInv, WaitersLinkedOnce
    <3>2. ASSUME NEW f \in Fd, NEW b \in Actor
          PROVE  b \in Range(waitq'[f]) <=>
                   Blocked(b)' /\ call'[b].op \in {"accept", "read"} /\ call'[b].fd = f
      <4>1. b \in Range(waitq[f]) <=> Waiter(b, f)
        BY DEF WInv, WaitersLinkedOnce, Waiter, Blocked
      <4> QED BY <2>2, <2>3, <2>5, <4>1 DEF Waiter
    <3> QED BY <3>1, <3>2 DEF WaitersLinkedOnce, Blocked
  <2>7. RequestsOfBlocked'
    <3>1. ASSUME NEW f \in Fd, NEW b \in Actor
          PROVE  b \in Range(wreqs'[f]) <=>
                   Blocked(b)' /\ call'[b].op = "write" /\ call'[b].fd = f
      <4>1. b \in Range(wreqs[f]) <=> Writer(b, f)
        BY DEF WInv, RequestsOfBlocked, Writer, Blocked
      <4> QED BY <2>2, <4>1 DEF Waiter, Writer
    <3> QED BY <3>1 DEF WInv, RequestsOfBlocked, Blocked
  <2> QED BY <2>4, <2>6, <2>7 DEF WInv
<1> QED BY <1>1, <1>2

\* write_cb wakes the writer of the first request, which libuv then forgets.
LEMMA WWriteCb ==
  ASSUME IInv, WInv, NEW g \in Fd, write_cb(g)
  PROVE  WInv'
<1> DEFINE a == Head(wreqs[g])
<1>1. a \in Actor /\ Writer(a, g) /\ wreqs[g] # <<>>
  BY HeadWriter DEF write_cb
<1>2. wreqs[g] \in Seq(Actor) /\ IsInjective(wreqs[g])
  BY DEF WInv, QueueTypes, RequestsOfBlocked
<1>3. /\ Tail(wreqs[g]) \in Seq(Actor)
      /\ Range(Tail(wreqs[g])) = Range(wreqs[g]) \ {a}
      /\ IsInjective(Tail(wreqs[g]))
  BY <1>1, <1>2, Dequeue
<1>4. \A b \in Actor : status'[b] = IF b = a THEN "ready" ELSE status[b]
  <2>1. CASE Callback(<<a>>)
    <3>1. Range(<<a>>) = {a}
      BY DEF Range
    <3> QED BY <2>1, <3>1 DEF Callback, unblock_all
  <2>2. CASE CallbackAborts(a)
    BY <1>1, <2>2 DEF CallbackAborts, setready, IInv, TypeOK
  <2> QED BY <2>1, <2>2 DEF write_cb
<1>5. /\ wreqs' = [wreqs EXCEPT ![g] = Tail(@)]
      /\ waitq' = waitq /\ call' = call
  BY DEF write_cb, fds
<1> HIDE DEF a
<1>6. \A f \in Fd : wreqs'[f] = IF f = g THEN Tail(wreqs[g]) ELSE wreqs[f]
  BY <1>5 DEF WInv, QueueTypes
<1>7. QueueTypes'
  BY <1>3, <1>5 DEF WInv, QueueTypes
<1>8. \A b \in Actor : Blocked(b)' <=> Blocked(b) /\ b # a
  BY <1>4 DEF Blocked
<1>9. WaitersLinkedOnce'
  <2>1. ASSUME NEW f \in Fd, NEW b \in Actor
        PROVE  b \in Range(waitq'[f]) <=>
                 Blocked(b)' /\ call'[b].op \in {"accept", "read"} /\ call'[b].fd = f
    <3>1. b \in Range(waitq[f]) <=> Waiter(b, f)
      BY DEF WInv, WaitersLinkedOnce, Waiter, Blocked
    <3> QED BY <1>1, <1>5, <1>8, <3>1 DEF Waiter, Writer
  <2> QED BY <1>5, <2>1 DEF WInv, WaitersLinkedOnce, Blocked
<1>10. RequestsOfBlocked'
  <2>1. \A f \in Fd : IsInjective(wreqs'[f])
    BY <1>3, <1>6 DEF WInv, RequestsOfBlocked
  <2>2. ASSUME NEW f \in Fd, NEW b \in Actor
        PROVE  b \in Range(wreqs'[f]) <=>
                 Blocked(b)' /\ call'[b].op = "write" /\ call'[b].fd = f
    <3>1. b \in Range(wreqs[f]) <=> Writer(b, f)
      BY DEF WInv, RequestsOfBlocked, Writer, Blocked
    <3> QED BY <1>1, <1>3, <1>5, <1>6, <1>8, <3>1 DEF Writer
  <2> QED BY <2>1, <2>2 DEF RequestsOfBlocked, Blocked
<1> QED BY <1>7, <1>9, <1>10 DEF WInv

LEMMA WStep ==
  ASSUME IInv, WInv, [NetNext]_nvars
  PROVE  WInv'
<1>1. CASE CoreStep /\ UNCHANGED netvars
  BY <1>1, CoreKeepsBlocked, QueuesFrame DEF netvars, fds, uv
<1>2. ASSUME NEW a \in Actor, NetCall(a)  PROVE WInv'
  BY <1>2, WCall
<1>3. ASSUME NEW f \in Fd, NetCallback(f)  PROVE WInv'
  <2>1. ASSUME listen_cb(f)  PROVE WInv'
    BY <2>1, WWake DEF listen_cb
  <2>2. ASSUME NEW nread \in 1..BufSize, read_cb(f, nread)  PROVE WInv'
    BY <2>2, WWake DEF read_cb
  <2>3. ASSUME NEW nread \in {"ok", "eof", "err"}, read_cbNothing(f, nread)  PROVE WInv'
    BY <2>3, QueuesFrame DEF read_cbNothing, vars, queues, Blocked
  <2>4. ASSUME close_cb(f)  PROVE WInv'
    BY <2>4, QueuesFrame DEF close_cb, vars, queues, uv, Blocked
  <2> QED BY <1>3, <2>1, <2>2, <2>3, <2>4, WWriteCb DEF NetCallback
<1>4. CASE UNCHANGED nvars
  BY <1>4, QueuesFrame DEF nvars, netvars, fds, uv, vars, queues, Blocked
<1> QED BY <1>1, <1>2, <1>3, <1>4 DEF NetNext

LEMMA WInit == NetInit => WInv
<1> SUFFICES ASSUME NetInit  PROVE WInv
  OBVIOUS
<1>1. IsInjective(<<>>) /\ Range(<<>>) = {}
  BY DEF IsInjective, Range
<1> QED BY <1>1 DEF NetInit, Init, WInv, QueueTypes, CallType, WaitersLinkedOnce, RequestsOfBlocked

LEMMA NetInductive == NetSpec => [](IInv /\ WInv)
<1>1. NetInit => IInv /\ WInv
  BY InvInit, WInit DEF NetInit
<1>2. IInv /\ WInv /\ [NetNext]_nvars => (IInv /\ WInv)'
  BY NetStepIsStep, InvStep, WStep
<1> QED BY <1>1, <1>2, PTL DEF NetSpec, nvars

-----------------------------------------------------------------------------
\* Whatever the actors, the peers and libuv do with descriptors is, for the
\* scheduler, blocking and waking: all theorems on Sched hold with the network.
THEOREM NetRefinement == NetSpec => ImplementsSched
<1>1. NetInit => Init
  BY DEF NetInit
<1>2. WInv /\ [NetNext]_nvars => [Next]_vars
  BY NetStepIsStep
<1> QED BY <1>1, <1>2, NetInductive, PTL DEF NetSpec, ImplementsSched, Spec, nvars

\* The list node of an actor is in the wait queue of its descriptor or in a queue
\* of the scheduler, never in both: unblock_all corrupts no list.
THEOREM WaitQueuesSound == NetSpec => []WaitersLinkedOnce
<1>1. WInv => WaitersLinkedOnce
  BY DEF WInv
<1> QED BY <1>1, NetInductive, PTL

\* libuv never holds a write request whose stack frame is gone.
THEOREM RequestsSound == NetSpec => []RequestsOfBlocked
<1>1. WInv => RequestsOfBlocked
  BY DEF WInv
<1> QED BY <1>1, NetInductive, PTL
=============================================================================
