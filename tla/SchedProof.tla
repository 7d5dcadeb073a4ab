----------------------------- MODULE SchedProof -----------------------------
(***************************************************************************)
(* What the core keeps true whatever the actors do, how many they are, and *)
(* however long the array and the mailboxes get: the safety properties of  *)
(* Sched, proved from one inductive invariant.                             *)
(***************************************************************************)
EXTENDS Sched, FiniteSetTheorems, SequenceTheorems, TLAPS

-----------------------------------------------------------------------------
(* The three operations on the ready queue *)

\* list_enqueue of a node that is not in the queue.
LEMMA Enqueue ==
  ASSUME NEW S, NEW q \in Seq(S), NEW e \in S
  PROVE  /\ Append(q, e) \in Seq(S)
         /\ Range(Append(q, e)) = Range(q) \cup {e}
         /\ IsInjective(q) /\ e \notin Range(q) => IsInjective(Append(q, e))
<1> DEFINE r == Append(q, e)
<1>1. r \in Seq(S) /\ DOMAIN r = 1..(Len(q) + 1) /\ DOMAIN q = 1..Len(q)
  BY AppendProperties, LenProperties
<1>2. Len(q) \in Nat /\ \A i \in 1..Len(q) : r[i] = q[i]
  BY AppendProperties, LenProperties
<1>3. r[Len(q) + 1] = e
  BY AppendProperties
<1>4. Range(r) = Range(q) \cup {e}
  <2>1. Range(r) \subseteq Range(q) \cup {e}
    BY <1>1, <1>2, <1>3 DEF Range
  <2>2. Range(q) \cup {e} \subseteq Range(r)
    BY <1>1, <1>2, <1>3 DEF Range
  <2> QED BY <2>1, <2>2
<1>5. ASSUME IsInjective(q), e \notin Range(q)  PROVE  IsInjective(r)
  BY <1>1, <1>2, <1>3, <1>5 DEF IsInjective, Range
<1> QED BY <1>1, <1>4, <1>5

\* list_dequeue of a queue that is not empty.
LEMMA Dequeue ==
  ASSUME NEW S, NEW q \in Seq(S), q # <<>>, IsInjective(q)
  PROVE  /\ Head(q) \in S
         /\ Tail(q) \in Seq(S)
         /\ Head(q) \in Range(q)
         /\ Range(Tail(q)) = Range(q) \ {Head(q)}
         /\ IsInjective(Tail(q))
<1> DEFINE r == Tail(q)
<1>1. /\ Head(q) \in S /\ r \in Seq(S)
      /\ Len(q) \in Nat \ {0} /\ DOMAIN q = 1..Len(q)
      /\ DOMAIN r = 1..(Len(q) - 1)
      /\ \A i \in 1..(Len(q) - 1) : r[i] = q[i + 1]
  BY HeadTailProperties, LenProperties, EmptySeq
<1>2. Head(q) = q[1]
  BY <1>1
<1>3. Head(q) \in Range(q)
  BY <1>1, <1>2 DEF Range
<1>4. Range(r) = Range(q) \ {Head(q)}
  <2>1. ASSUME NEW i \in DOMAIN r  PROVE  r[i] \in Range(q) \ {Head(q)}
    BY <1>1, <1>2 DEF Range, IsInjective
  <2>2. ASSUME NEW i \in DOMAIN q, q[i] # Head(q)  PROVE  q[i] \in Range(r)
    <3>1. i - 1 \in DOMAIN r /\ r[i - 1] = q[i]
      BY <1>1, <1>2, <2>2
    <3> QED BY <3>1 DEF Range
  <2> QED BY <2>1, <2>2 DEF Range
<1>5. IsInjective(r)
  BY <1>1 DEF IsInjective
<1> QED BY <1>1, <1>3, <1>4, <1>5

\* unblock_all: the nodes of another queue, one by one.
LEMMA EnqueueAll ==
  ASSUME NEW S, NEW q \in Seq(S), NEW w \in Seq(S)
  PROVE  /\ q \o w \in Seq(S)
         /\ Range(q \o w) = Range(q) \cup Range(w)
         /\ IsInjective(q) /\ IsInjective(w) /\ Range(q) \cap Range(w) = {}
              => IsInjective(q \o w)
<1> DEFINE r == q \o w
<1>1. /\ r \in Seq(S) /\ Len(q) \in Nat /\ Len(w) \in Nat
      /\ DOMAIN r = 1..(Len(q) + Len(w)) /\ DOMAIN q = 1..Len(q) /\ DOMAIN w = 1..Len(w)
  BY ConcatProperties, LenProperties
<1>2. /\ \A i \in DOMAIN q : i \in DOMAIN r /\ r[i] = q[i]
      /\ \A i \in DOMAIN w : i + Len(q) \in DOMAIN r /\ r[i + Len(q)] = w[i]
  <2>1. \A i \in 1..(Len(q) + Len(w)) : r[i] = IF i <= Len(q) THEN q[i] ELSE w[i - Len(q)]
    BY ConcatProperties
  <2>2. ASSUME NEW i \in DOMAIN w  PROVE  i + Len(q) \in DOMAIN r /\ r[i + Len(q)] = w[i]
    BY <1>1, <2>1
  <2> QED BY <1>1, <2>1, <2>2
<1>3. \A i \in DOMAIN r : i \in DOMAIN q \/ \E j \in DOMAIN w : i = j + Len(q)
  <2> SUFFICES ASSUME NEW i \in DOMAIN r, i \notin DOMAIN q
               PROVE  \E j \in DOMAIN w : i = j + Len(q)
    OBVIOUS
  <2>1. i - Len(q) \in DOMAIN w /\ i = (i - Len(q)) + Len(q)
    BY <1>1
  <2> QED BY <2>1
<1>4. Range(r) = Range(q) \cup Range(w)
  <2>1. Range(r) \subseteq Range(q) \cup Range(w)
    BY <1>2, <1>3 DEF Range
  <2>2. Range(q) \cup Range(w) \subseteq Range(r)
    BY <1>2 DEF Range
  <2> QED BY <2>1, <2>2
<1>5. ASSUME IsInjective(q), IsInjective(w), Range(q) \cap Range(w) = {}
      PROVE  IsInjective(r)
  <2> SUFFICES ASSUME NEW i \in DOMAIN r, NEW j \in DOMAIN r, r[i] = r[j]  PROVE  i = j
    BY DEF IsInjective
  <2>1. CASE i \in DOMAIN q /\ j \in DOMAIN q
    BY <1>2, <1>5, <2>1 DEF IsInjective
  <2>2. CASE i \notin DOMAIN q /\ j \notin DOMAIN q
    <3>1. PICK k \in DOMAIN w, l \in DOMAIN w : i = k + Len(q) /\ j = l + Len(q)
      BY <1>3, <2>2
    <3>2. w[k] = w[l]
      BY <1>2, <3>1
    <3> QED BY <1>5, <3>1, <3>2 DEF IsInjective
  <2>3. ASSUME NEW k \in DOMAIN q, NEW l \in DOMAIN r, l \notin DOMAIN q  PROVE  r[k] # r[l]
    <3>1. PICK m \in DOMAIN w : l = m + Len(q)
      BY <1>3, <2>3
    <3>2. r[k] = q[k] /\ r[l] = w[m]
      BY <1>2, <3>1
    <3> QED BY <1>5, <3>2 DEF Range
  <2> QED BY <2>1, <2>2, <2>3
<1> QED BY <1>1, <1>4, <1>5

\* A wait queue holds some of the actors, each once.
LEMMA OrderOfSome ==
  ASSUME NEW S, NEW ws \in Orders(S)
  PROVE  ws \in Seq(S) /\ IsInjective(ws) /\ Range(ws) \subseteq S
<1>1. PICK n \in 1..Cardinality(S) : ws \in [1..n -> S] /\ IsInjective(ws)
  BY DEF Orders, Injection
<1>2. ws \in Seq(S)
  BY <1>1, SeqDef
<1> QED BY <1>1, <1>2 DEF Range

-----------------------------------------------------------------------------
(* Type correctness *)

LEMMA TypeInit == Init => TypeOK
  BY SchedAssumption DEF Init, TypeOK, Status, Place

LEMMA TypeSetready ==
  ASSUME readyq \in Seq(Actor), status \in [Actor -> Status],
         NEW a \in Actor, setready(a)
  PROVE  readyq' \in Seq(Actor) /\ status' \in [Actor -> Status]
<1>1. CASE status[a] # "ready"
  <2>1. Append(readyq, a) \in Seq(Actor)
    BY AppendProperties
  <2> QED BY <1>1, <2>1 DEF setready, Status
<1>2. CASE status[a] = "ready"
  BY <1>2 DEF setready
<1> QED BY <1>1, <1>2

LEMMA TypeUnreg ==
  ASSUME TypeOK, NEW id, unreg_actor(id)
  PROVE  /\ actors' \in [0..(sizeactors' - 1) -> Actor \cup {Null}]
         /\ curractors' \in Int
         /\ UNCHANGED <<sizeactors, main, heap, aid>>
<1>1. CASE id \in 0..(sizeactors - 1) /\ actors[id] # Null
  BY <1>1 DEF TypeOK, unreg_actor
<1>2. CASE ~(id \in 0..(sizeactors - 1) /\ actors[id] # Null)
  BY <1>2 DEF TypeOK, unreg_actor
<1> QED BY <1>1, <1>2

\* A call of a running actor keeps the types.
LEMMA TypeActorStep ==
  ASSUME TypeOK, NEW a \in Actor, ActorStep(a)
  PROVE  TypeOK'
<1> USE SchedAssumption DEF table, queues, new_actor, setrunning, yield
<1>1. ASSUME NEW new \in Actor \ (heap \cup Mains), NEW id \in 0..sizeactors, sherry_spawn(a, new, id)
      PROVE  TypeOK'
  <2>1. sizeactors' \in Nat \ {0} /\ id \in Int
    BY <1>1 DEF TypeOK, sherry_spawn, reg_actor
  <2>2. actors' \in [0..(sizeactors' - 1) -> Actor \cup {Null}]
    BY <1>1, <2>1 DEF TypeOK, sherry_spawn, reg_actor
  <2>3. readyq' \in Seq(Actor) /\ status' \in [Actor -> Status]
    BY <1>1, TypeSetready DEF TypeOK, sherry_spawn
  <2>4. mailbox' \in [Actor -> Seq(Msg)]
    BY <1>1 DEF TypeOK, sherry_spawn
  <2>5. heap' \subseteq Actor /\ curractors' \in Int /\ aid' \in [Actor -> Int]
    BY <1>1, <2>1 DEF TypeOK, sherry_spawn, reg_actor
  <2>6. at' \in [Actor -> Place]
    BY <1>1 DEF TypeOK, sherry_spawn, Place
  <2> QED BY <1>1, <2>1, <2>2, <2>3, <2>4, <2>5, <2>6 DEF TypeOK, sherry_spawn
<1>2. CASE sherry_yield(a)
  <2>1. readyq' \in Seq(Actor) /\ status' \in [Actor -> Status]
    BY <1>2, TypeSetready DEF TypeOK, sherry_yield
  <2> QED BY <1>2, <2>1 DEF TypeOK, sherry_yield
<1>3. ASSUME NEW dst \in 0..(sizeactors - 1), NEW t \in MsgType, sherry_msg_send(a, dst, t)
      PROVE  TypeOK'
  <2>1. actors[dst] \in Actor
    BY <1>3 DEF TypeOK, sherry_msg_send
  <2>2. mailbox' \in [Actor -> Seq(Msg)]
    <3> DEFINE msg == [sender |-> aid[a], recver |-> aid[actors[dst]], type |-> t]
    <3>1. msg \in Msg
      BY <2>1 DEF TypeOK, Msg
    <3>2. Append(mailbox[actors[dst]], msg) \in Seq(Msg)
      BY <2>1, <3>1, AppendProperties DEF TypeOK
    <3>3. mailbox' = [mailbox EXCEPT ![actors[dst]] = Append(@, msg)]
      BY <1>3 DEF sherry_msg_send
    <3> HIDE DEF msg
    <3> QED BY <2>1, <3>2, <3>3 DEF TypeOK
  <2>3. readyq' \in Seq(Actor) /\ status' \in [Actor -> Status] /\ waitingmsg' \subseteq Actor
    BY <1>3, <2>1, TypeSetready DEF TypeOK, sherry_msg_send, Revoke
  <2> QED BY <1>3, <2>2, <2>3 DEF TypeOK, sherry_msg_send
<1>4. ASSUME NEW dst \in 0..(sizeactors - 1), SendToExited(a, dst)
      PROVE  TypeOK'
  BY <1>4 DEF TypeOK, SendToExited
<1>5. CASE sherry_msg_recv(a)
  <2>1. mailbox' \in [Actor -> Seq(Msg)]
    BY <1>5, HeadTailProperties DEF TypeOK, sherry_msg_recv, Dequeued
  <2> QED BY <1>5, <2>1 DEF TypeOK, sherry_msg_recv
<1>6. CASE RecvBlock(a)
  BY <1>6 DEF TypeOK, RecvBlock, Status, Place
<1>7. CASE RecvResume(a)
  <2>1. mailbox' \in [Actor -> Seq(Msg)]
    BY <1>7, HeadTailProperties DEF TypeOK, RecvResume, Dequeued
  <2> QED BY <1>7, <2>1 DEF TypeOK, RecvResume, Place
<1>8. CASE block_fd(a)
  BY <1>8 DEF TypeOK, block_fd, Status, Place
<1>9. CASE IoReturn(a)
  BY <1>9 DEF TypeOK, IoReturn, Place
<1>10. CASE sherry_main(a)
  BY <1>10, TypeUnreg DEF TypeOK, sherry_main, Place
<1>11. CASE ExitYield(a)
  <2>1. readyq' \in Seq(Actor) /\ status' \in [Actor -> Status]
    BY <1>11, TypeSetready DEF TypeOK, ExitYield
  <2> QED BY <1>11, <2>1 DEF TypeOK, ExitYield, Place
<1>12. CASE sherry_exit(a)
  BY <1>12, TypeUnreg DEF TypeOK, sherry_exit, Place
<1> QED BY <1>1, <1>2, <1>3, <1>4, <1>5, <1>6, <1>7, <1>8, <1>9, <1>10, <1>11, <1>12
        DEF ActorStep, CoreCall

LEMMA TypeStep == TypeOK /\ [Next]_vars => TypeOK'
<1> SUFFICES ASSUME TypeOK, [Next]_vars  PROVE TypeOK'
  OBVIOUS
<1> USE SchedAssumption DEF table, queues, new_actor, setrunning, yield
<1>1. ASSUME NEW m \in Mains \ heap, sherry_init(m)  PROVE TypeOK'
  BY <1>1 DEF TypeOK, sherry_init, Status, Place
<1>2. ASSUME NEW a \in Actor, ActorStep(a)  PROVE TypeOK'
  BY <1>2, TypeActorStep
<1>3. CASE schdule
  <2>1. Head(readyq) \in Actor /\ Tail(readyq) \in Seq(Actor)
    BY <1>3, HeadTailProperties DEF TypeOK, schdule
  <2> QED BY <1>3, <2>1 DEF TypeOK, schdule, Status
<1>4. CASE uv_run
  BY <1>4 DEF TypeOK, uv_run
<1>5. ASSUME NEW ws \in Orders({a \in Actor : status[a] = "wait_ev"}), Callback(ws)
      PROVE TypeOK'
  <2>1. ws \in Seq(Actor)
    BY OrderOfSome, SeqMonotonic
  <2>2. readyq' \in Seq(Actor)
    BY <1>5, <2>1, EnqueueAll DEF TypeOK, Callback, unblock_all
  <2> QED BY <1>5, <2>2 DEF TypeOK, Callback, unblock_all, Status
<1>6. ASSUME NEW a \in Actor, CallbackAborts(a)  PROVE TypeOK'
  <2>1. readyq' \in Seq(Actor) /\ status' \in [Actor -> Status]
    BY <1>6, TypeSetready DEF TypeOK, CallbackAborts
  <2> QED BY <1>6, <2>1 DEF TypeOK, CallbackAborts
<1>7. CASE UvReturn
  BY <1>7 DEF TypeOK, UvReturn
<1>8. CASE UNCHANGED vars
  BY <1>8 DEF TypeOK, vars
<1> QED BY <1>1, <1>2, <1>3, <1>4, <1>5, <1>6, <1>7, <1>8 DEF Next

\* The variables keep their types: in particular the array is as long as
\* sizeactors says, after every growth in reg_actor.
THEOREM TypeCorrect == Spec => []TypeOK
  BY TypeInit, TypeStep, PTL DEF Spec

-----------------------------------------------------------------------------
(***************************************************************************)
(* The inductive invariant.  The safety properties support each other:     *)
(* that a woken receiver finds a message needs that no dead actor is       *)
(* queued, that sherry_exit leaves nobody needs that curractors counts the *)
(* slots, that a slot names the live actor needs that main keeps slot 0.   *)
(* Three facts nobody would state as a property close the induction.       *)
(***************************************************************************)

\* A struct not allocated yet has no history.
Allocated == \A a \in Actor \ heap : at[a] = "none" /\ status[a] = "none"

\* The actor that has the thread is RUNNING: setrunning and the switch are one.
HoldsThread == ctl = "actor" => running \in Actor /\ status[running] = "running"

\* Between sherry_init and sherry_exit there is a main actor.
MainUp == ctl # "off" => main \in Actor

IInv ==
  /\ TypeOK
  /\ OneQueuePerNode /\ NobodyStranded /\ NoLostWakeup /\ RecvFindsMessage /\ DeadStayDead
  /\ TableSound /\ MailForOwner /\ ExitLeavesNobody
  /\ Allocated /\ HoldsThread /\ MainUp

LEMMA InvInit == Init => IInv
<1> SUFFICES ASSUME Init PROVE IInv
  OBVIOUS
<1> USE SchedAssumption DEF Init
<1>1. TypeOK
  BY TypeInit
<1>2. OneQueuePerNode
  BY DEF OneQueuePerNode, IsInjective, Range
<1>3. NobodyStranded /\ NoLostWakeup /\ RecvFindsMessage /\ DeadStayDead
  BY DEF NobodyStranded, NoLostWakeup, RecvFindsMessage, DeadStayDead, Live
<1>4. TableSound
  <2>1. {i \in DOMAIN actors : actors[i] # Null} = {}
    OBVIOUS
  <2> QED BY <2>1, FS_EmptySet DEF TableSound, Range, Live
<1>5. MailForOwner /\ ExitLeavesNobody /\ Allocated /\ HoldsThread /\ MainUp
  BY DEF MailForOwner, ExitLeavesNobody, Allocated, HoldsThread, MainUp, Live
<1> QED BY <1>1, <1>2, <1>3, <1>4, <1>5 DEF IInv

\* setready keeps the ready queue in step with the status.
LEMMA SetreadyQueue ==
  ASSUME TypeOK, OneQueuePerNode, NEW a \in Actor, setready(a)
  PROVE  /\ status' = [status EXCEPT ![a] = "ready"]
         /\ IsInjective(readyq')
         /\ Range(readyq') = {b \in Actor : status'[b] = "ready"}
<1>1. CASE status[a] # "ready"
  <2>1. IsInjective(readyq') /\ Range(readyq') = Range(readyq) \cup {a}
    <3>1. readyq \in Seq(Actor) /\ readyq' = Append(readyq, a)
      BY <1>1 DEF TypeOK, setready
    <3>2. IsInjective(readyq) /\ a \notin Range(readyq)
      BY <1>1 DEF OneQueuePerNode
    <3> QED BY <3>1, <3>2, Enqueue
  <2> QED BY <1>1, <2>1 DEF TypeOK, OneQueuePerNode, setready
<1>2. CASE status[a] = "ready"
  BY <1>2 DEF TypeOK, OneQueuePerNode, setready
<1> QED BY <1>1, <1>2

LEMMA InvYield ==
  ASSUME IInv, NEW a \in Actor, sherry_yield(a)
  PROVE  IInv'
<1> USE DEF table, yield
<1>1. TypeOK'
  BY TypeActorStep DEF IInv, ActorStep, CoreCall
<1>2. /\ status' = [status EXCEPT ![a] = "ready"]
      /\ IsInjective(readyq')
      /\ Range(readyq') = {b \in Actor : status'[b] = "ready"}
  BY SetreadyQueue DEF IInv, sherry_yield
<1>3. status[a] = "running" /\ running = a /\ at[a] = "fn" /\ ctl = "actor"
  BY DEF IInv, HoldsThread, sherry_yield, InActor
<1>4. OneQueuePerNode'
  BY <1>2, <1>3 DEF IInv, TypeOK, OneQueuePerNode, sherry_yield
<1>5. NobodyStranded' /\ NoLostWakeup'
  BY <1>2, <1>3 DEF IInv, TypeOK, NobodyStranded, NoLostWakeup, sherry_yield, Live
<1>6. RecvFindsMessage' /\ DeadStayDead'
  BY <1>2, <1>3 DEF IInv, TypeOK, RecvFindsMessage, DeadStayDead, sherry_yield, Live
<1>7. TableSound' /\ MailForOwner' /\ ExitLeavesNobody'
  BY <1>3 DEF IInv, TableSound, MailForOwner, ExitLeavesNobody, sherry_yield, Live
<1>8. Allocated' /\ HoldsThread' /\ MainUp'
  BY <1>2, <1>3 DEF IInv, TypeOK, Allocated, HoldsThread, MainUp, sherry_yield
<1> QED BY <1>1, <1>4, <1>5, <1>6, <1>7, <1>8 DEF IInv

LEMMA InvExitYield ==
  ASSUME IInv, NEW a \in Actor, ExitYield(a)
  PROVE  IInv'
<1> USE DEF table, yield
<1>1. TypeOK'
  BY TypeActorStep DEF IInv, ActorStep, CoreCall
<1>2. /\ status' = [status EXCEPT ![a] = "ready"]
      /\ IsInjective(readyq')
      /\ Range(readyq') = {b \in Actor : status'[b] = "ready"}
  BY SetreadyQueue DEF IInv, ExitYield
<1>3. /\ status[a] = "running" /\ running = a /\ ctl = "actor"
      /\ at[a] \in {"fn", "exit"} /\ at' = [at EXCEPT ![a] = "exit"]
  BY DEF IInv, HoldsThread, ExitYield
<1>4. Live(a) /\ \A b \in Actor : Live(b)' <=> Live(b)
  BY <1>3 DEF IInv, TypeOK, Live
<1>5. OneQueuePerNode'
  BY <1>2, <1>3 DEF IInv, TypeOK, OneQueuePerNode, ExitYield
<1>6. NobodyStranded' /\ NoLostWakeup'
  BY <1>2, <1>3, <1>4 DEF IInv, TypeOK, NobodyStranded, NoLostWakeup, ExitYield
<1>7. RecvFindsMessage' /\ DeadStayDead'
  BY <1>2, <1>3, <1>4 DEF IInv, TypeOK, RecvFindsMessage, DeadStayDead, ExitYield
<1>8. TableSound' /\ MailForOwner' /\ ExitLeavesNobody'
  BY <1>3, <1>4 DEF IInv, TableSound, MailForOwner, ExitLeavesNobody, ExitYield
<1>9. Allocated' /\ HoldsThread' /\ MainUp'
  BY <1>2, <1>3 DEF IInv, TypeOK, Allocated, HoldsThread, MainUp, ExitYield
<1> QED BY <1>1, <1>5, <1>6, <1>7, <1>8, <1>9 DEF IInv

LEMMA InvSend ==
  ASSUME IInv, NEW a \in Actor, NEW dst \in 0..(sizeactors - 1), NEW t \in MsgType,
         sherry_msg_send(a, dst, t)
  PROVE  IInv'
<1> USE DEF table, yield
<1> DEFINE r == actors[dst]
           msg == [sender |-> aid[a], recver |-> aid[r], type |-> t]
<1>1. TypeOK'
  BY TypeActorStep DEF IInv, ActorStep, CoreCall
<1>2. r \in Actor /\ Live(r)
  BY DEF IInv, TypeOK, TableSound, Range, sherry_msg_send
<1>3. /\ mailbox' = [mailbox EXCEPT ![r] = Append(@, msg)]
      /\ Revoke(r)
      /\ UNCHANGED <<table, running, at, ctl>>
  BY DEF sherry_msg_send
<1>4. mailbox'[r] # <<>> /\ \A b \in Actor \ {r} : mailbox'[b] = mailbox[b]
  BY <1>2, <1>3 DEF IInv, TypeOK
<1>5. MailForOwner'
  <2>1. ASSUME NEW i \in DOMAIN mailbox'[r]  PROVE mailbox'[r][i].recver = aid[r]
    <3>1. mailbox'[r] = Append(mailbox[r], msg) /\ msg.recver = aid[r]
      BY <1>2, <1>3 DEF IInv, TypeOK
    <3>2. /\ DOMAIN mailbox'[r] = 1..(Len(mailbox[r]) + 1) /\ Len(mailbox[r]) \in Nat
          /\ DOMAIN mailbox[r] = 1..Len(mailbox[r])
          /\ mailbox'[r][Len(mailbox[r]) + 1] = msg
          /\ \A j \in 1..Len(mailbox[r]) : mailbox'[r][j] = mailbox[r][j]
      BY <1>1, <1>2, <3>1, AppendProperties, LenProperties DEF IInv, TypeOK
    <3>3. CASE i = Len(mailbox[r]) + 1
      BY <3>1, <3>2, <3>3
    <3>4. CASE i \in DOMAIN mailbox[r]
      BY <1>2, <3>2, <3>4 DEF IInv, MailForOwner
    <3> QED BY <3>2, <3>3, <3>4
  <2> QED BY <1>3, <1>4, <2>1 DEF IInv, MailForOwner, Live
<1>6. /\ OneQueuePerNode' /\ NobodyStranded' /\ NoLostWakeup'
      /\ RecvFindsMessage' /\ DeadStayDead' /\ HoldsThread' /\ ExitLeavesNobody' /\ Allocated'
  <2>0. ctl # "off"
    BY <1>2 DEF IInv, ExitLeavesNobody
  <2>1. CASE status[r] = "wait_msg"
    <3>1. /\ status' = [status EXCEPT ![r] = "ready"]
          /\ IsInjective(readyq')
          /\ Range(readyq') = {b \in Actor : status'[b] = "ready"}
          /\ waitingmsg' = waitingmsg \ {r}
      BY <1>2, <1>3, <2>1, SetreadyQueue DEF IInv, Revoke
    <3>2. OneQueuePerNode' /\ NobodyStranded'
      BY <1>2, <1>3, <2>1, <3>1 DEF IInv, TypeOK, OneQueuePerNode, NobodyStranded, Live
    <3>3. NoLostWakeup' /\ RecvFindsMessage' /\ DeadStayDead'
      BY <1>2, <1>3, <1>4, <3>1
      DEF IInv, TypeOK, NoLostWakeup, RecvFindsMessage, DeadStayDead, Live
    <3>4. HoldsThread' /\ ExitLeavesNobody' /\ Allocated'
      BY <1>2, <1>3, <2>0, <2>1, <3>1
      DEF IInv, TypeOK, HoldsThread, ExitLeavesNobody, Allocated, Live
    <3> QED BY <3>2, <3>3, <3>4
  <2>2. CASE status[r] # "wait_msg"
    <3>1. UNCHANGED queues
      BY <1>3, <2>2 DEF Revoke
    <3>2. OneQueuePerNode' /\ NobodyStranded' /\ DeadStayDead'
      BY <1>3, <3>1 DEF IInv, OneQueuePerNode, NobodyStranded, DeadStayDead, Live, queues
    <3>3. NoLostWakeup' /\ RecvFindsMessage'
      BY <1>3, <1>4, <2>2, <3>1 DEF IInv, NoLostWakeup, RecvFindsMessage, queues
    <3>4. HoldsThread' /\ ExitLeavesNobody' /\ Allocated'
      BY <1>3, <2>0, <3>1 DEF IInv, HoldsThread, ExitLeavesNobody, Allocated, queues
    <3> QED BY <3>2, <3>3, <3>4
  <2> QED BY <2>1, <2>2
<1>7. TableSound' /\ MainUp'
  BY <1>3 DEF IInv, TableSound, MainUp, Live
<1> QED BY <1>1, <1>5, <1>6, <1>7 DEF IInv

\* Both ways out of sherry_msg_recv take the first message.
LEMMA InvDequeue ==
  ASSUME IInv, NEW a \in Actor,
         ctl = "actor", running = a, at[a] \in {"fn", "recv"},
         mailbox' = [mailbox EXCEPT ![a] = Dequeued(@)],
         at' = [at EXCEPT ![a] = "fn"],
         UNCHANGED <<table, queues, running, ctl>>
  PROVE  OneQueuePerNode' /\ NobodyStranded' /\ NoLostWakeup' /\ RecvFindsMessage' /\ DeadStayDead'
         /\ TableSound' /\ MailForOwner' /\ ExitLeavesNobody' /\ Allocated' /\ HoldsThread' /\ MainUp'
<1> USE DEF table, queues, yield
<1>1. status[a] = "running"
  BY DEF IInv, HoldsThread
<1>2. \A b \in Actor : Live(b)' <=> Live(b)
  BY DEF IInv, TypeOK, Live
<1>3. MailForOwner'
  <2>1. ASSUME NEW i \in DOMAIN mailbox'[a]
        PROVE  \E j \in DOMAIN mailbox[a] : mailbox'[a][i] = mailbox[a][j]
    <3>1. mailbox[a] \in Seq(Msg) /\ mailbox'[a] = Dequeued(mailbox[a])
      BY DEF IInv, TypeOK
    <3>2. CASE mailbox[a] = <<>>
      BY <3>1, <3>2 DEF Dequeued
    <3>3. CASE mailbox[a] # <<>>
      <4>1. i + 1 \in DOMAIN mailbox[a] /\ mailbox'[a][i] = mailbox[a][i + 1]
        <5>1. mailbox'[a] = Tail(mailbox[a])
          BY <3>1, <3>3 DEF Dequeued
        <5>2. /\ Tail(mailbox[a]) \in Seq(Msg)
              /\ Len(Tail(mailbox[a])) = Len(mailbox[a]) - 1
              /\ \A j \in 1..Len(Tail(mailbox[a])) : Tail(mailbox[a])[j] = mailbox[a][j + 1]
          BY <3>1, <3>3, HeadTailProperties
        <5>3. /\ DOMAIN Tail(mailbox[a]) = 1..Len(Tail(mailbox[a]))
              /\ DOMAIN mailbox[a] = 1..Len(mailbox[a]) /\ Len(mailbox[a]) \in Nat
          BY <3>1, <5>2, LenProperties
        <5>4. i \in 1..Len(Tail(mailbox[a]))
          BY <5>1, <5>3
        <5>5. i + 1 \in DOMAIN mailbox[a]
          BY <5>2, <5>3, <5>4
        <5>6. Tail(mailbox[a])[i] = mailbox[a][i + 1]
          BY <5>2, <5>4
        <5> QED BY <5>1, <5>5, <5>6
      <4> QED BY <4>1
    <3> QED BY <3>2, <3>3
  <2>2. \A b \in Actor \ {a} : mailbox'[b] = mailbox[b]
    BY DEF IInv, TypeOK
  <2> QED BY <1>2, <2>1, <2>2 DEF IInv, MailForOwner
<1>4. OneQueuePerNode' /\ NobodyStranded' /\ DeadStayDead'
  BY <1>1, <1>2 DEF IInv, TypeOK, OneQueuePerNode, NobodyStranded, DeadStayDead
<1>5. NoLostWakeup' /\ RecvFindsMessage'
  BY <1>1 DEF IInv, TypeOK, NoLostWakeup, RecvFindsMessage
<1>6. TableSound' /\ ExitLeavesNobody'
  BY <1>2 DEF IInv, TableSound, ExitLeavesNobody
<1>7. Allocated' /\ HoldsThread' /\ MainUp'
  BY <1>1 DEF IInv, TypeOK, Allocated, HoldsThread, MainUp
<1> QED BY <1>3, <1>4, <1>5, <1>6, <1>7

LEMMA InvRecv ==
  ASSUME IInv, NEW a \in Actor, sherry_msg_recv(a) \/ RecvResume(a)
  PROVE  IInv'
<1>1. TypeOK'
  BY TypeActorStep DEF IInv, ActorStep, CoreCall
<1>2. CASE sherry_msg_recv(a)
  <2>1. at' = [at EXCEPT ![a] = "fn"]
    BY <1>2 DEF IInv, TypeOK, sherry_msg_recv, InActor
  <2> QED BY <1>1, <1>2, <2>1, InvDequeue DEF IInv, sherry_msg_recv, InActor
<1>3. CASE RecvResume(a)
  BY <1>1, <1>3, InvDequeue DEF IInv, RecvResume
<1> QED BY <1>2, <1>3

LEMMA InvRecvBlock ==
  ASSUME IInv, NEW a \in Actor, RecvBlock(a)
  PROVE  IInv'
<1> USE DEF table, yield
<1>1. TypeOK'
  BY TypeActorStep DEF IInv, ActorStep, CoreCall
<1>2. status[a] = "running" /\ running = a /\ at[a] = "fn" /\ ctl = "actor"
  BY DEF IInv, HoldsThread, RecvBlock, InActor
<1>3. /\ status' = [status EXCEPT ![a] = "wait_msg"] /\ at' = [at EXCEPT ![a] = "recv"]
      /\ mailbox[a] = <<>> /\ waitingmsg' = waitingmsg \cup {a} /\ ctl' = "schdule"
      /\ UNCHANGED <<table, readyq, running, mailbox>>
  BY DEF RecvBlock
<1>4. Live(a) /\ \A b \in Actor : Live(b)' <=> Live(b)
  BY <1>2, <1>3 DEF IInv, TypeOK, Live
<1>5. OneQueuePerNode' /\ NobodyStranded' /\ NoLostWakeup'
  BY <1>2, <1>3, <1>4 DEF IInv, TypeOK, OneQueuePerNode, NobodyStranded, NoLostWakeup
<1>6. RecvFindsMessage' /\ DeadStayDead'
  BY <1>2, <1>3, <1>4 DEF IInv, TypeOK, RecvFindsMessage, DeadStayDead
<1>7. TableSound' /\ MailForOwner' /\ ExitLeavesNobody'
  BY <1>3, <1>4 DEF IInv, TableSound, MailForOwner, ExitLeavesNobody
<1>8. Allocated' /\ HoldsThread' /\ MainUp'
  BY <1>2, <1>3 DEF IInv, TypeOK, Allocated, HoldsThread, MainUp
<1> QED BY <1>1, <1>5, <1>6, <1>7, <1>8 DEF IInv

LEMMA InvBlockFd ==
  ASSUME IInv, NEW a \in Actor, block_fd(a)
  PROVE  IInv'
<1> USE DEF table, yield
<1>1. TypeOK'
  BY TypeActorStep DEF IInv, ActorStep, CoreCall
<1>2. status[a] = "running" /\ running = a /\ at[a] \in {"fn", "io"} /\ ctl = "actor"
  BY DEF IInv, HoldsThread, block_fd
<1>3. /\ status' = [status EXCEPT ![a] = "wait_ev"] /\ at' = [at EXCEPT ![a] = "io"]
      /\ ctl' = "schdule" /\ UNCHANGED <<table, readyq, waitingmsg, running, mailbox>>
  BY DEF block_fd
<1>4. Live(a) /\ \A b \in Actor : Live(b)' <=> Live(b)
  BY <1>2, <1>3 DEF IInv, TypeOK, Live
<1>5. OneQueuePerNode' /\ NobodyStranded' /\ NoLostWakeup'
  BY <1>2, <1>3, <1>4 DEF IInv, TypeOK, OneQueuePerNode, NobodyStranded, NoLostWakeup
<1>6. RecvFindsMessage' /\ DeadStayDead'
  BY <1>2, <1>3, <1>4 DEF IInv, TypeOK, RecvFindsMessage, DeadStayDead
<1>7. TableSound' /\ MailForOwner' /\ ExitLeavesNobody'
  BY <1>3, <1>4 DEF IInv, TableSound, MailForOwner, ExitLeavesNobody
<1>8. Allocated' /\ HoldsThread' /\ MainUp'
  BY <1>2, <1>3 DEF IInv, TypeOK, Allocated, HoldsThread, MainUp
<1> QED BY <1>1, <1>5, <1>6, <1>7, <1>8 DEF IInv

LEMMA InvIoReturn ==
  ASSUME IInv, NEW a \in Actor, IoReturn(a)
  PROVE  IInv'
<1> USE DEF table, queues, yield
<1>1. TypeOK'
  BY TypeActorStep DEF IInv, ActorStep, CoreCall
<1>2. status[a] = "running" /\ running = a /\ at[a] = "io" /\ ctl = "actor"
  BY DEF IInv, HoldsThread, IoReturn
<1>3. at' = [at EXCEPT ![a] = "fn"] /\ UNCHANGED <<table, queues, running, mailbox, ctl>>
  BY DEF IoReturn
<1>4. Live(a) /\ \A b \in Actor : Live(b)' <=> Live(b)
  BY <1>2, <1>3 DEF IInv, TypeOK, Live
<1>5. OneQueuePerNode' /\ NobodyStranded' /\ NoLostWakeup'
  BY <1>2, <1>3, <1>4 DEF IInv, TypeOK, OneQueuePerNode, NobodyStranded, NoLostWakeup
<1>6. RecvFindsMessage' /\ DeadStayDead'
  BY <1>2, <1>3, <1>4 DEF IInv, TypeOK, RecvFindsMessage, DeadStayDead
<1>7. TableSound' /\ MailForOwner' /\ ExitLeavesNobody'
  BY <1>3, <1>4 DEF IInv, TableSound, MailForOwner, ExitLeavesNobody
<1>8. Allocated' /\ HoldsThread' /\ MainUp'
  BY <1>2, <1>3 DEF IInv, TypeOK, Allocated, HoldsThread, MainUp
<1> QED BY <1>1, <1>5, <1>6, <1>7, <1>8 DEF IInv

\* The thread changes hands and nothing else: uv_run, its return, and the
\* dereference of a NULL recver.
LEMMA InvHandOver ==
  ASSUME IInv, TypeOK', UNCHANGED <<table, queues, running, mailbox, at>>,
         ctl \notin {"off", "crashed"}, ctl' \in {"schdule", "uv_run", "crashed"},
         ctl = "actor" => ctl' = "crashed"
  PROVE  IInv'
<1> USE DEF table, queues, yield
<1>1. OneQueuePerNode' /\ NobodyStranded' /\ NoLostWakeup'
  BY DEF IInv, OneQueuePerNode, NobodyStranded, NoLostWakeup, Live
<1>2. RecvFindsMessage' /\ DeadStayDead'
  BY DEF IInv, RecvFindsMessage, DeadStayDead, Live
<1>3. TableSound' /\ MailForOwner' /\ ExitLeavesNobody'
  BY DEF IInv, TableSound, MailForOwner, ExitLeavesNobody, Live
<1>4. Allocated' /\ HoldsThread' /\ MainUp'
  BY DEF IInv, Allocated, HoldsThread, MainUp
<1> QED BY <1>1, <1>2, <1>3, <1>4 DEF IInv

\* The slots in use; curractors counts them.
Used == {i \in DOMAIN actors : actors[i] # Null}

LEMMA UsedFinite ==
  ASSUME TypeOK
  PROVE  IsFiniteSet(Used) /\ Cardinality(Used) \in Nat
<1>1. IsFiniteSet(0..(sizeactors - 1))
  BY FS_Interval DEF TypeOK
<1>2. Used \subseteq 0..(sizeactors - 1)
  BY DEF TypeOK, Used
<1> QED BY <1>1, <1>2, FS_Subset, FS_CardinalityType

\* unreg_actor finds the actor in the slot of its aid, and frees that slot only.
LEMMA Unregister ==
  ASSUME IInv, NEW a \in Actor, Live(a), unreg_actor(aid[a]),
         at' = [at EXCEPT ![a] = "done"]
  PROVE  /\ aid[a] \in DOMAIN actors /\ actors[aid[a]] = a
         /\ actors' = [actors EXCEPT ![aid[a]] = Null]
         /\ \A b \in Actor : Live(b)' <=> Live(b) /\ b # a
         /\ Range(actors') \ {Null} = {b \in Actor : Live(b)'}
         /\ curractors' = Cardinality({i \in DOMAIN actors' : actors'[i] # Null})
         /\ UNCHANGED <<sizeactors, main, heap, aid>>
<1>1. PICK i \in DOMAIN actors : actors[i] = a
  BY DEF IInv, TableSound, Range
<1>2. aid[a] = i /\ a # Null /\ i \in 0..(sizeactors - 1)
  BY <1>1, SchedAssumption DEF IInv, TypeOK, TableSound
<1>3. /\ actors' = [actors EXCEPT ![i] = Null] /\ curractors' = curractors - 1
      /\ UNCHANGED <<sizeactors, main, heap, aid>>
  BY <1>1, <1>2 DEF unreg_actor
<1>4. \A b \in Actor : Live(b)' <=> Live(b) /\ b # a
  BY DEF IInv, TypeOK, Live
<1>5. \A b \in Actor : Live(b) <=> b \in Range(actors) \ {Null}
  BY DEF IInv, TableSound
<1>6. Range(actors') \ {Null} = {b \in Actor : Live(b)'}
  <2>1. ASSUME NEW b \in Range(actors') \ {Null}  PROVE  b \in Actor /\ Live(b)'
    <3>1. PICK j \in DOMAIN actors : j # i /\ actors[j] = b
      BY <1>3, <2>1 DEF IInv, TypeOK, Range
    <3>2. b # a
      BY <1>2, <2>1, <3>1 DEF IInv, TableSound
    <3>3. b \in Actor /\ b \in Range(actors)
      BY <2>1, <3>1 DEF IInv, TypeOK, Range
    <3> QED BY <1>4, <1>5, <2>1, <3>2, <3>3
  <2>2. ASSUME NEW b \in Actor, Live(b)'  PROVE  b \in Range(actors') \ {Null}
    <3>1. b # a /\ b \in Range(actors) \ {Null}
      BY <1>4, <1>5, <2>2
    <3>2. PICK j \in DOMAIN actors : actors[j] = b
      BY <3>1 DEF Range
    <3>3. j \in DOMAIN actors' /\ actors'[j] = b
      BY <1>1, <1>3, <3>1, <3>2 DEF IInv, TypeOK
    <3> QED BY <3>1, <3>3 DEF Range
  <2> QED BY <2>1, <2>2
<1>7. curractors' = Cardinality({j \in DOMAIN actors' : actors'[j] # Null})
  <2>1. {j \in DOMAIN actors' : actors'[j] # Null} = Used \ {i} /\ i \in Used
    BY <1>1, <1>2, <1>3 DEF IInv, TypeOK, Used
  <2>2. Cardinality(Used \ {i}) = Cardinality(Used) - 1
    BY <2>1, UsedFinite, FS_RemoveElement DEF IInv
  <2>3. curractors = Cardinality(Used)
    BY DEF IInv, TableSound, Used
  <2> QED BY <1>3, <2>1, <2>2, <2>3
<1> QED BY <1>1, <1>2, <1>3, <1>4, <1>6, <1>7

LEMMA InvMain ==
  ASSUME IInv, NEW a \in Actor, sherry_main(a)
  PROVE  IInv'
<1>1. TypeOK'
  BY TypeActorStep DEF IInv, ActorStep, CoreCall
<1>2. status[a] = "running" /\ running = a /\ at[a] = "fn" /\ ctl = "actor" /\ Live(a)
  BY DEF IInv, HoldsThread, sherry_main, InActor, Live
<1>3. /\ a # main /\ at' = [at EXCEPT ![a] = "done"] /\ ctl' = "schdule"
      /\ UNCHANGED <<queues, running, mailbox>>
  BY DEF sherry_main, yield
<1>4. /\ aid[a] \in DOMAIN actors /\ actors[aid[a]] = a
      /\ actors' = [actors EXCEPT ![aid[a]] = Null]
      /\ \A b \in Actor : Live(b)' <=> Live(b) /\ b # a
      /\ Range(actors') \ {Null} = {b \in Actor : Live(b)'}
      /\ curractors' = Cardinality({i \in DOMAIN actors' : actors'[i] # Null})
      /\ UNCHANGED <<sizeactors, main, heap, aid>>
  BY <1>2, Unregister DEF sherry_main
<1>5. OneQueuePerNode' /\ NoLostWakeup' /\ RecvFindsMessage'
  BY <1>2, <1>3 DEF IInv, TypeOK, OneQueuePerNode, NoLostWakeup, RecvFindsMessage, queues
<1>6. NobodyStranded' /\ DeadStayDead'
  BY <1>2, <1>3, <1>4 DEF IInv, TypeOK, NobodyStranded, DeadStayDead, queues
<1>7. TableSound'
  <2>1. \A i \in DOMAIN actors' : actors'[i] # Null => i \in DOMAIN actors /\ actors'[i] = actors[i]
    BY <1>4 DEF IInv, TypeOK
  <2>2. actors'[0] = main'
    BY <1>2, <1>3, <1>4 DEF IInv, TypeOK, TableSound
  <2> QED BY <1>4, <2>1, <2>2 DEF IInv, TableSound
<1>8. MailForOwner' /\ ExitLeavesNobody' /\ MainUp'
  BY <1>2, <1>3, <1>4 DEF IInv, MailForOwner, ExitLeavesNobody, MainUp
<1>9. Allocated' /\ HoldsThread'
  BY <1>2, <1>3, <1>4 DEF IInv, TypeOK, Allocated, HoldsThread, queues
<1> QED BY <1>1, <1>5, <1>6, <1>7, <1>8, <1>9 DEF IInv

\* When curractors is down to one, the slot of main is the only one in use.
LEMMA InvExit ==
  ASSUME IInv, NEW a \in Actor, sherry_exit(a)
  PROVE  IInv'
<1>1. TypeOK'
  BY TypeActorStep DEF IInv, ActorStep, CoreCall
<1>2. /\ status[a] = "running" /\ running = a /\ ctl = "actor" /\ a = main
      /\ at[a] \in {"fn", "exit"} /\ Live(a) /\ curractors <= 1
  BY DEF IInv, HoldsThread, sherry_exit, Live
<1>3. /\ at' = [at EXCEPT ![a] = "done"] /\ ctl' = "off"
      /\ UNCHANGED <<queues, running, mailbox>>
  BY DEF sherry_exit
<1>4. /\ aid[a] \in DOMAIN actors /\ actors[aid[a]] = a
      /\ actors' = [actors EXCEPT ![aid[a]] = Null]
      /\ \A b \in Actor : Live(b)' <=> Live(b) /\ b # a
      /\ Range(actors') \ {Null} = {b \in Actor : Live(b)'}
      /\ curractors' = Cardinality({i \in DOMAIN actors' : actors'[i] # Null})
      /\ UNCHANGED <<sizeactors, main, heap, aid>>
  BY <1>2, Unregister DEF sherry_exit
<1>5. \A b \in Actor : ~Live(b)'
  <2>1. aid[a] \in Used /\ IsFiniteSet(Used) /\ Cardinality(Used) \in Nat
    BY <1>4, UsedFinite, SchedAssumption DEF IInv, Used
  <2>2. Cardinality(Used) <= 1
    BY <1>2 DEF IInv, TableSound, Used
  <2>3. Cardinality(Used \ {aid[a]}) = 0 /\ IsFiniteSet(Used \ {aid[a]})
    <3>1. IsFiniteSet(Used \ {aid[a]}) /\ Cardinality(Used \ {aid[a]}) = Cardinality(Used) - 1
      BY <2>1, FS_RemoveElement
    <3>2. Cardinality(Used \ {aid[a]}) \in Nat
      BY <3>1, FS_CardinalityType
    <3> QED BY <2>1, <2>2, <3>1, <3>2
  <2>4. Used \ {aid[a]} = {}
    BY <2>3, FS_EmptySet
  <2>5. Range(actors') \ {Null} = {}
    BY <1>4, <2>4 DEF IInv, TypeOK, Range, Used
  <2> QED BY <1>4, <2>5
<1>6. \A b \in Actor : status[b] \notin {"ready", "wait_msg", "wait_ev"}
  BY <1>2, <1>4, <1>5 DEF IInv, DeadStayDead
<1>7. readyq = <<>> /\ waitingmsg = {}
  <2>1. Range(readyq) = {} /\ waitingmsg = {}
    BY <1>6 DEF IInv, OneQueuePerNode
  <2>2. readyq # <<>> => Head(readyq) \in Range(readyq)
    BY Dequeue DEF IInv, TypeOK, OneQueuePerNode
  <2> QED BY <2>1, <2>2
<1>8. OneQueuePerNode' /\ NoLostWakeup' /\ RecvFindsMessage'
  BY <1>2, <1>3 DEF IInv, TypeOK, OneQueuePerNode, NoLostWakeup, RecvFindsMessage, queues
<1>9. NobodyStranded' /\ DeadStayDead' /\ MailForOwner'
  BY <1>3, <1>5, <1>6 DEF NobodyStranded, DeadStayDead, MailForOwner, queues
<1>10. ExitLeavesNobody' /\ HoldsThread' /\ MainUp'
  BY <1>3, <1>5, <1>7 DEF ExitLeavesNobody, HoldsThread, MainUp, queues
<1>11. TableSound'
  <2>1. \A i \in DOMAIN actors' : actors'[i] # Null => i \in DOMAIN actors /\ actors'[i] = actors[i]
    BY <1>4 DEF IInv, TypeOK
  <2> QED BY <1>3, <1>4, <2>1 DEF IInv, TableSound
<1>12. Allocated'
  BY <1>2, <1>3, <1>4 DEF IInv, TypeOK, Allocated, queues
<1> QED BY <1>1, <1>8, <1>9, <1>10, <1>11, <1>12 DEF IInv

LEMMA InvSpawn ==
  ASSUME IInv, NEW a \in Actor, NEW new \in Actor \ (heap \cup Mains), NEW id \in 0..sizeactors,
         sherry_spawn(a, new, id)
  PROVE  IInv'
<1>1. TypeOK'
  BY TypeActorStep DEF IInv, ActorStep, CoreCall
<1>2. status[a] = "running" /\ running = a /\ at[a] = "fn" /\ ctl = "actor"
  BY DEF IInv, HoldsThread, sherry_spawn, InActor
<1>3. at[new] = "none" /\ status[new] = "none" /\ new # a /\ ~Live(new)
  BY <1>2 DEF IInv, Allocated, Live
<1>4. /\ status' = [status EXCEPT ![new] = "ready"]
      /\ IsInjective(readyq')
      /\ Range(readyq') = {b \in Actor : status'[b] = "ready"}
  BY SetreadyQueue DEF IInv, sherry_spawn
<1>5. /\ mailbox' = [mailbox EXCEPT ![new] = <<>>] /\ at' = [at EXCEPT ![new] = "fn"]
      /\ aid' = [aid EXCEPT ![new] = id] /\ heap' = heap \cup {new}
      /\ curractors' = curractors + 1
      /\ UNCHANGED <<main, running, waitingmsg, ctl>>
  BY DEF sherry_spawn, new_actor, reg_actor
<1>6. \A b \in Actor : Live(b)' <=> Live(b) \/ b = new
  BY <1>5 DEF IInv, TypeOK, Live
<1>7. OneQueuePerNode' /\ NobodyStranded' /\ NoLostWakeup'
  BY <1>2, <1>3, <1>4, <1>5, <1>6 DEF IInv, TypeOK, OneQueuePerNode, NobodyStranded, NoLostWakeup
<1>8. RecvFindsMessage' /\ DeadStayDead'
  BY <1>2, <1>3, <1>4, <1>5, <1>6 DEF IInv, TypeOK, RecvFindsMessage, DeadStayDead
<1>9. MailForOwner' /\ ExitLeavesNobody'
  BY <1>2, <1>3, <1>5, <1>6 DEF IInv, TypeOK, MailForOwner, ExitLeavesNobody
<1>10. Allocated' /\ HoldsThread' /\ MainUp'
  BY <1>2, <1>3, <1>4, <1>5 DEF IInv, TypeOK, Allocated, HoldsThread, MainUp
<1>11. TableSound'
  <2>1. /\ id \in DOMAIN actors' /\ actors'[id] = new
        /\ \A i \in DOMAIN actors : i \in DOMAIN actors' /\ (i # id => actors'[i] = actors[i])
        /\ \A i \in DOMAIN actors' : i # id /\ i \notin DOMAIN actors => actors'[i] = Null
        /\ id \in DOMAIN actors => actors[id] = Null
    BY DEF IInv, TypeOK, sherry_spawn, reg_actor, IsSlot
  <2>2. new # Null /\ main \in Actor /\ main # Null /\ actors[0] = main /\ 0 \in DOMAIN actors
    BY <1>2, SchedAssumption DEF IInv, TypeOK, MainUp, TableSound
  <2>3. \A i \in DOMAIN actors : actors[i] # Null => i # id /\ actors[i] # new
    BY <1>3, <2>1 DEF IInv, TableSound, Range
  <2>4. \A i \in DOMAIN actors' :
          actors'[i] # Null <=> i = id \/ (i \in DOMAIN actors /\ actors[i] # Null)
    BY <2>1, <2>2, <2>3
  <2>5. Range(actors') \ {Null} = (Range(actors) \ {Null}) \cup {new}
    <3>1. ASSUME NEW i \in DOMAIN actors', actors'[i] # Null
          PROVE  actors'[i] \in (Range(actors) \ {Null}) \cup {new}
      BY <2>1, <2>4, <3>1 DEF Range
    <3>2. ASSUME NEW i \in DOMAIN actors, actors[i] # Null
          PROVE  actors[i] \in Range(actors')
      BY <2>1, <2>3, <3>2 DEF Range
    <3>3. new \in Range(actors')
      BY <2>1 DEF Range
    <3> QED BY <2>2, <3>1, <3>2, <3>3 DEF Range
  <2>6. Range(actors') \ {Null} = {b \in Actor : Live(b)'}
    BY <1>6, <2>5 DEF IInv, TableSound
  <2>7. \A i \in DOMAIN actors' : actors'[i] # Null => aid'[actors'[i]] = i
    <3> SUFFICES ASSUME NEW i \in DOMAIN actors', actors'[i] # Null  PROVE aid'[actors'[i]] = i
      OBVIOUS
    <3>1. CASE i = id
      BY <1>5, <2>1, <3>1 DEF IInv, TypeOK
    <3>2. CASE i # id
      <4>1. i \in DOMAIN actors /\ actors'[i] = actors[i] /\ actors[i] # new /\ actors[i] # Null
        BY <2>1, <2>3, <2>4, <3>2
      <4>2. aid[actors[i]] = i /\ actors[i] \in Actor
        BY <4>1 DEF IInv, TypeOK, TableSound
      <4> QED BY <1>5, <4>1, <4>2 DEF IInv, TypeOK
    <3> QED BY <3>1, <3>2
  <2>8. curractors' = Cardinality({i \in DOMAIN actors' : actors'[i] # Null})
    <3>1. {i \in DOMAIN actors' : actors'[i] # Null} = Used \cup {id} /\ id \notin Used
      BY <2>1, <2>4 DEF Used
    <3>2. Cardinality(Used \cup {id}) = Cardinality(Used) + 1
      BY <3>1, UsedFinite, FS_AddElement DEF IInv
    <3>3. curractors = Cardinality(Used)
      BY DEF IInv, TableSound, Used
    <3> QED BY <1>5, <3>1, <3>2, <3>3
  <2>9. actors'[0] = main'
    BY <1>5, <2>1, <2>2
  <2> QED BY <2>6, <2>7, <2>8, <2>9 DEF TableSound
<1> QED BY <1>1, <1>7, <1>8, <1>9, <1>10, <1>11 DEF IInv

LEMMA InvSherryInit ==
  ASSUME IInv, NEW m \in Mains \ heap, sherry_init(m)
  PROVE  IInv'
<1>1. TypeOK'
  BY TypeStep DEF IInv, Next
<1>2. /\ ctl = "off" /\ ctl' = "actor" /\ main' = m /\ running' = m /\ curractors' = 1
      /\ sizeactors' = InitSize /\ heap' = heap \cup {m} /\ readyq' = <<>> /\ waitingmsg' = {}
      /\ actors' = [i \in 0..(InitSize - 1) |-> IF i = 0 THEN m ELSE Null]
      /\ aid' = [aid EXCEPT ![m] = 0] /\ status' = [status EXCEPT ![m] = "running"]
      /\ mailbox' = [mailbox EXCEPT ![m] = <<>>] /\ at' = [at EXCEPT ![m] = "fn"]
  BY DEF sherry_init, new_actor, setrunning
<1>3. m \in Actor /\ m # Null /\ 0 \in 0..(InitSize - 1)
  BY SchedAssumption
<1>4. /\ \A b \in Actor : ~Live(b) /\ status[b] \notin {"ready", "wait_msg", "wait_ev"}
      /\ \A b \in Actor : Live(b)' <=> b = m
  BY <1>2, <1>3 DEF IInv, TypeOK, ExitLeavesNobody, DeadStayDead, Live
<1>5. OneQueuePerNode'
  <2>1. IsInjective(readyq') /\ Range(readyq') = {}
    BY <1>2 DEF IsInjective, Range
  <2> QED BY <1>2, <1>3, <1>4, <2>1 DEF IInv, TypeOK, OneQueuePerNode
<1>6. NobodyStranded' /\ NoLostWakeup' /\ DeadStayDead'
  BY <1>2, <1>3, <1>4 DEF IInv, TypeOK, NobodyStranded, NoLostWakeup, DeadStayDead
<1>7. RecvFindsMessage' /\ MailForOwner' /\ ExitLeavesNobody'
  BY <1>2, <1>3, <1>4 DEF IInv, TypeOK, RecvFindsMessage, MailForOwner, ExitLeavesNobody, Live
<1>8. Allocated' /\ HoldsThread' /\ MainUp'
  BY <1>2, <1>3 DEF IInv, TypeOK, Allocated, HoldsThread, MainUp
<1>9. TableSound'
  <2>1. {i \in DOMAIN actors' : actors'[i] # Null} = {0}
    BY <1>2, <1>3
  <2>2. Range(actors') \ {Null} = {m}
    BY <1>2, <1>3 DEF Range
  <2>3. aid'[m] = 0
    BY <1>2, <1>3 DEF IInv, TypeOK
  <2>4. \A i \in DOMAIN actors' : actors'[i] # Null => aid'[actors'[i]] = i
    BY <1>2, <2>3
  <2>5. curractors' = Cardinality({i \in DOMAIN actors' : actors'[i] # Null})
    BY <1>2, <2>1, FS_Singleton
  <2>6. Range(actors') \ {Null} = {b \in Actor : Live(b)'}
    BY <1>3, <1>4, <2>2
  <2>7. actors'[0] = main'
    BY <1>2, <1>3
  <2> QED BY <2>4, <2>5, <2>6, <2>7 DEF TableSound
<1> QED BY <1>1, <1>5, <1>6, <1>7, <1>8, <1>9 DEF IInv

LEMMA InvSchdule ==
  ASSUME IInv, schdule
  PROVE  IInv'
<1> DEFINE h == Head(readyq)
<1>1. TypeOK'
  BY TypeStep DEF IInv, Next
<1>2. /\ h \in Range(readyq) /\ IsInjective(Tail(readyq))
      /\ Range(Tail(readyq)) = Range(readyq) \ {h}
  BY Dequeue DEF IInv, TypeOK, OneQueuePerNode, schdule
<1>3. h \in Actor /\ status[h] = "ready" /\ Live(h)
  BY <1>2 DEF IInv, OneQueuePerNode, DeadStayDead
<1>4. /\ ctl = "schdule" /\ ctl' = "actor" /\ running' = h /\ readyq' = Tail(readyq)
      /\ status' = [status EXCEPT ![h] = "running"]
      /\ UNCHANGED <<table, waitingmsg, mailbox, at>>
  BY DEF schdule, setrunning
<1> HIDE DEF h
<1>5. OneQueuePerNode'
  BY <1>2, <1>3, <1>4 DEF IInv, TypeOK, OneQueuePerNode
<1>6. NobodyStranded' /\ NoLostWakeup'
  BY <1>3, <1>4 DEF IInv, TypeOK, NobodyStranded, NoLostWakeup, Live
<1>7. RecvFindsMessage' /\ DeadStayDead'
  BY <1>3, <1>4 DEF IInv, TypeOK, RecvFindsMessage, DeadStayDead, Live
<1>8. TableSound' /\ MailForOwner' /\ ExitLeavesNobody'
  BY <1>4 DEF IInv, TableSound, MailForOwner, ExitLeavesNobody, Live, table
<1>9. Allocated' /\ HoldsThread' /\ MainUp'
  BY <1>3, <1>4 DEF IInv, TypeOK, Allocated, HoldsThread, MainUp, Live, table
<1> QED BY <1>1, <1>5, <1>6, <1>7, <1>8, <1>9 DEF IInv

\* A callback makes some of the actors that wait for an event ready.
LEMMA InvWake ==
  ASSUME IInv, TypeOK', ctl = "uv_run", ctl' \in {"uv_run", "crashed"},
         NEW W \in SUBSET {a \in Actor : status[a] = "wait_ev"},
         status' = [a \in Actor |-> IF a \in W THEN "ready" ELSE status[a]],
         IsInjective(readyq'), Range(readyq') = Range(readyq) \cup W,
         UNCHANGED <<table, waitingmsg, running, mailbox, at>>
  PROVE  IInv'
<1>1. \A a \in W : a \in Actor /\ status[a] = "wait_ev" /\ Live(a) /\ at[a] = "io"
  BY DEF IInv, NobodyStranded, DeadStayDead
<1>2. OneQueuePerNode'
  BY DEF IInv, OneQueuePerNode
<1>3. NobodyStranded' /\ NoLostWakeup'
  BY <1>1 DEF IInv, NobodyStranded, NoLostWakeup, Live
<1>4. RecvFindsMessage' /\ DeadStayDead'
  BY <1>1 DEF IInv, RecvFindsMessage, DeadStayDead, Live
<1>5. TableSound' /\ MailForOwner' /\ ExitLeavesNobody'
  BY DEF IInv, TableSound, MailForOwner, ExitLeavesNobody, Live, table
<1>6. Allocated' /\ HoldsThread' /\ MainUp'
  BY <1>1 DEF IInv, Allocated, HoldsThread, MainUp, table
<1> QED BY <1>2, <1>3, <1>4, <1>5, <1>6 DEF IInv

LEMMA InvCallback ==
  ASSUME IInv, NEW ws \in Orders({a \in Actor : status[a] = "wait_ev"}), Callback(ws)
  PROVE  IInv'
<1>1. TypeOK'
  BY TypeStep DEF IInv, Next
<1>2. /\ ws \in Seq(Actor) /\ IsInjective(ws)
      /\ Range(ws) \subseteq {a \in Actor : status[a] = "wait_ev"}
  BY OrderOfSome, SeqMonotonic
<1>3. readyq \in Seq(Actor) /\ IsInjective(readyq) /\ Range(readyq) \cap Range(ws) = {}
  BY <1>2 DEF IInv, TypeOK, OneQueuePerNode
<1>4. readyq' = readyq \o ws
  BY DEF Callback, unblock_all
<1>5. IsInjective(readyq') /\ Range(readyq') = Range(readyq) \cup Range(ws)
  BY <1>2, <1>3, <1>4, EnqueueAll
<1> QED BY <1>1, <1>2, <1>5, InvWake DEF Callback, unblock_all

LEMMA InvCallbackAborts ==
  ASSUME IInv, NEW a \in Actor, CallbackAborts(a)
  PROVE  IInv'
<1>1. TypeOK'
  BY TypeStep DEF IInv, Next
<1>2. /\ status' = [status EXCEPT ![a] = "ready"]
      /\ IsInjective(readyq')
      /\ Range(readyq') = {b \in Actor : status'[b] = "ready"}
  BY SetreadyQueue DEF IInv, CallbackAborts
<1>3. Range(readyq') = Range(readyq) \cup {a}
  BY <1>2 DEF IInv, TypeOK, OneQueuePerNode
<1>4. status' = [b \in Actor |-> IF b \in {a} THEN "ready" ELSE status[b]]
  BY <1>2 DEF IInv, TypeOK
<1>5. {a} \in SUBSET {b \in Actor : status[b] = "wait_ev"}
  BY DEF CallbackAborts
<1> QED BY <1>1, <1>2, <1>3, <1>4, <1>5, InvWake DEF CallbackAborts

LEMMA InvStep == IInv /\ [Next]_vars => IInv'
<1> SUFFICES ASSUME IInv, [Next]_vars  PROVE IInv'
  OBVIOUS
<1>1. TypeOK'
  BY TypeStep DEF IInv
<1>2. ASSUME NEW m \in Mains \ heap, sherry_init(m)  PROVE IInv'
  BY <1>2, InvSherryInit
<1>3. ASSUME NEW a \in Actor, ActorStep(a)  PROVE IInv'
  <2>1. ASSUME NEW dst \in 0..(sizeactors - 1), SendToExited(a, dst)  PROVE IInv'
    BY <1>1, <2>1, InvHandOver DEF SendToExited, InActor
  <2> QED BY <1>3, <2>1, InvSpawn, InvYield, InvSend, InvRecv, InvRecvBlock, InvBlockFd, InvIoReturn,
             InvMain, InvExitYield, InvExit
          DEF ActorStep, CoreCall
<1>4. CASE schdule
  BY <1>4, InvSchdule
<1>5. CASE uv_run \/ UvReturn
  BY <1>1, <1>5, InvHandOver DEF uv_run, UvReturn
<1>6. ASSUME NEW ws \in Orders({a \in Actor : status[a] = "wait_ev"}), Callback(ws)  PROVE IInv'
  BY <1>6, InvCallback
<1>7. ASSUME NEW a \in Actor, CallbackAborts(a)  PROVE IInv'
  BY <1>7, InvCallbackAborts
<1>8. CASE UNCHANGED vars
  <2> USE <1>8 DEF vars, table, queues
  <2>1. (OneQueuePerNode /\ NobodyStranded /\ NoLostWakeup /\ RecvFindsMessage /\ DeadStayDead)'
    BY DEF IInv, OneQueuePerNode, NobodyStranded, NoLostWakeup, RecvFindsMessage, DeadStayDead, Live
  <2>2. (TableSound /\ MailForOwner /\ ExitLeavesNobody /\ Allocated /\ HoldsThread /\ MainUp)'
    BY DEF IInv, TableSound, MailForOwner, ExitLeavesNobody, Allocated, HoldsThread, MainUp, Live
  <2> QED BY <1>1, <2>1, <2>2 DEF IInv
<1> QED BY <1>2, <1>3, <1>4, <1>5, <1>6, <1>7, <1>8 DEF Next

-----------------------------------------------------------------------------
THEOREM Inductive == Spec => []IInv
  BY InvInit, InvStep, PTL DEF Spec

\* The one list node of an actor is linked into the queue its status names and
\* into no other: no enqueue, erase or unblock of the core corrupts a list.
THEOREM QueuesSound == Spec => []OneQueuePerNode
<1>1. IInv => OneQueuePerNode
  BY DEF IInv
<1> QED BY <1>1, Inductive, PTL

\* No context switch loses an actor: every live one is running, ready, or where
\* a message or an event will find it.
THEOREM NoActorLost == Spec => []NobodyStranded
<1>1. IInv => NobodyStranded
  BY DEF IInv
<1> QED BY <1>1, Inductive, PTL

\* sherry_msg_recv never blocks past a message, and its unchecked second half
\* always finds one.
THEOREM ReceiveSafe == Spec => [](NoLostWakeup /\ RecvFindsMessage)
<1>1. IInv => NoLostWakeup /\ RecvFindsMessage
  BY DEF IInv
<1> QED BY <1>1, Inductive, PTL

\* The scheduler never switches to an actor whose function has returned.
THEOREM NoResurrection == Spec => []DeadStayDead
<1>1. IInv => DeadStayDead
  BY DEF IInv
<1> QED BY <1>1, Inductive, PTL

\* Slots, aids and curractors agree with the live actors through every reuse
\* and growth, and every waiting message is in the mailbox of its recver.
THEOREM TableCorrect == Spec => [](TableSound /\ MailForOwner)
<1>1. IInv => TableSound /\ MailForOwner
  BY DEF IInv
<1> QED BY <1>1, Inductive, PTL

\* sherry_exit frees the scheduler only when no actor is left in it.
THEOREM ExitSafe == Spec => []ExitLeavesNobody
<1>1. IInv => ExitLeavesNobody
  BY DEF IInv
<1> QED BY <1>1, Inductive, PTL

=============================================================================
