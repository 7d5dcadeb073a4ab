---------------------------- MODULE SchedRefines ----------------------------
(***************************************************************************)
(* The core implements the actor model: every step of the scheduler, the   *)
(* queues and the slots is one step of ActorModel, or none that an actor   *)
(* could see.                                                              *)
(***************************************************************************)
EXTENDS SchedProof

\* The values the refinement mapping gives to the variables of ActorModel.
live == {a \in Actor : Live(a)}
id == [a \in live |-> aid[a]]
inbox == [a \in live |-> mailbox[a]]
waiting == {a \in Actor : at[a] = "recv"}
up == ctl \notin {"off", "crashed"}

LEMMA RefInit == Init => AM!AMInit
<1> SUFFICES ASSUME Init PROVE AM!AMInit
  OBVIOUS
<1>1. {a \in Actor : Live(a)} = {} /\ {a \in Actor : at[a] = "recv"} = {}
  BY DEF Init, Live
<1>2. \A f : f = [a \in {} |-> f[a]] => f = <<>>
  OBVIOUS
<1> QED BY <1>1, <1>2 DEF Init, AM!AMInit

\* Live actors have the ids of their slots, all different.
LEMMA LiveIds ==
  ASSUME IInv
  PROVE  /\ \A a \in live : aid[a] \in DOMAIN actors /\ actors[aid[a]] = a /\ aid[a] \in Nat
         /\ \A a, b \in live : a # b => aid[a] # aid[b]
<1>1. ASSUME NEW a \in live  PROVE aid[a] \in DOMAIN actors /\ actors[aid[a]] = a /\ aid[a] \in Nat
  <2>1. PICK i \in DOMAIN actors : actors[i] = a
    BY DEF IInv, TableSound, Range, live
  <2> QED BY <2>1, SchedAssumption DEF IInv, TypeOK, TableSound, live
<1> QED BY <1>1

\* What moves an actor between the queues is invisible.
LEMMA RefStutter ==
  ASSUME UNCHANGED <<aid, mailbox>>, up' = up,
         \A a \in Actor : (Live(a)' <=> Live(a)) /\ (at'[a] = "recv" <=> at[a] = "recv")
  PROVE  UNCHANGED AM!amvars
<1>1. live' = live /\ waiting' = waiting
  BY DEF live, waiting
<1>2. id' = id /\ inbox' = inbox
  BY <1>1 DEF id, inbox
<1> QED BY <1>1, <1>2 DEF AM!amvars, live, id, inbox, waiting, up

\* One step of each kind, in terms of the mapped values.
LEMMA RefSpawn ==
  ASSUME IInv, IInv', NEW a \in Actor, NEW new \in Actor \ (heap \cup Mains),
         NEW n \in 0..sizeactors, sherry_spawn(a, new, n)
  PROVE  AM!Spawn(a, new)
<1>1. /\ ctl = "actor" /\ ctl' = "actor" /\ at[a] = "fn" /\ at[new] = "none"
      /\ at' = [at EXCEPT ![new] = "fn"] /\ aid' = [aid EXCEPT ![new] = n]
      /\ mailbox' = [mailbox EXCEPT ![new] = <<>>]
  BY DEF IInv, Allocated, sherry_spawn, InActor, new_actor, reg_actor
<1>2. live' = live \cup {new} /\ a \in live \ waiting /\ new \notin live /\ waiting' = waiting
  <2>1. at'[new] = "fn" /\ \A c \in Actor : c # new => at'[c] = at[c]
    BY <1>1 DEF IInv, TypeOK
  <2>2. \A c \in Actor : Live(c)' <=> Live(c) \/ c = new
    BY <1>1, <2>1 DEF Live
  <2>3. Live(a) /\ ~Live(new)
    BY <1>1 DEF Live
  <2>4. live' = live \cup {new} /\ a \in live /\ new \notin live
    BY <2>2, <2>3 DEF live
  <2> QED BY <1>1, <2>1, <2>2, <2>3, <2>4 DEF live, waiting
<1>3. \A c \in live : aid'[c] = aid[c] /\ mailbox'[c] = mailbox[c]
  BY <1>1, <1>2 DEF IInv, TypeOK, live
<1>4. id' \in [live' -> Nat]
  <2>1. \A c \in live' : aid'[c] \in Nat
    <3>1. n \in Nat
      BY DEF IInv, TypeOK
    <3>2. aid'[new] = n
      BY <1>1 DEF IInv, TypeOK
    <3> QED BY <1>2, <1>3, <3>1, <3>2, LiveIds
  <2> QED BY <2>1 DEF id
<1>5. \A c \in live : id'[c] = id[c] /\ id'[new] # id[c]
  <2>1. \A c \in live : aid[c] # n
    <3>1. \A c \in live : aid[c] \in DOMAIN actors /\ actors[aid[c]] = c
      BY LiveIds
    <3>2. n \in DOMAIN actors => actors[n] = Null
      BY DEF IInv, TypeOK, sherry_spawn, reg_actor, IsSlot
    <3> QED BY <3>1, <3>2, SchedAssumption DEF live
  <2>2. aid'[new] = n
    BY <1>1 DEF IInv, TypeOK
  <2> QED BY <1>2, <1>3, <2>1, <2>2 DEF id
<1>6. inbox' = [c \in live' |-> IF c = new THEN <<>> ELSE inbox[c]]
  <2>1. mailbox'[new] = <<>>
    BY <1>1 DEF IInv, TypeOK
  <2> QED BY <1>2, <1>3, <2>1 DEF inbox
<1>7. up /\ up' = up
  BY <1>1 DEF up
<1> QED BY <1>2, <1>4, <1>5, <1>6, <1>7 DEF AM!Spawn, live, id, inbox, waiting, up

LEMMA RefSend ==
  ASSUME IInv, NEW a \in Actor, NEW dst \in 0..(sizeactors - 1), NEW t \in MsgType,
         sherry_msg_send(a, dst, t)
  PROVE  actors[dst] \in Actor /\ AM!Send(a, actors[dst], t)
<1> DEFINE r == actors[dst]
           msg == [sender |-> aid[a], recver |-> aid[r], type |-> t]
<1>1. /\ ctl = "actor" /\ ctl' = "actor" /\ at[a] = "fn" /\ r # Null /\ dst \in DOMAIN actors
      /\ mailbox' = [mailbox EXCEPT ![r] = Append(@, msg)]
      /\ UNCHANGED <<aid, at>>
  BY DEF sherry_msg_send, InActor, table
<1>2. r \in Actor /\ r \in live /\ a \in live \ waiting
  BY <1>1 DEF IInv, TypeOK, TableSound, Range, Live, live, waiting
<1>3. live' = live /\ waiting' = waiting /\ id' = id /\ up /\ up' = up
  BY <1>1 DEF live, Live, waiting, id, up
<1>4. AM!Letter(a, r, t) = msg
  BY <1>2 DEF AM!Letter, live
<1>5. inbox' = [inbox EXCEPT ![r] = Append(@, msg)]
  <2>1. \A c \in live : mailbox'[c] = IF c = r THEN Append(mailbox[r], msg) ELSE mailbox[c]
    BY <1>1, <1>2 DEF IInv, TypeOK, live
  <2> HIDE DEF msg
  <2> QED BY <1>2, <1>3, <2>1 DEF inbox
<1> QED BY <1>2, <1>3, <1>4, <1>5 DEF AM!Send, live, id, inbox, waiting, up

LEMMA RefWait ==
  ASSUME IInv, NEW a \in Actor, RecvBlock(a)
  PROVE  AM!Wait(a)
<1>1. /\ ctl = "actor" /\ ctl' = "schdule" /\ at[a] = "fn" /\ mailbox[a] = <<>>
      /\ at' = [at EXCEPT ![a] = "recv"] /\ UNCHANGED <<aid, mailbox>>
  BY DEF RecvBlock, InActor, yield, table
<1>2. live' = live /\ a \in live \ waiting /\ waiting' = waiting \cup {a}
  BY <1>1 DEF IInv, TypeOK, live, waiting, Live
<1>3. id' = id /\ inbox' = inbox /\ up /\ up' = up /\ inbox[a] = <<>>
  BY <1>1, <1>2 DEF id, inbox, up
<1> QED BY <1>2, <1>3 DEF AM!Wait, live, id, inbox, waiting, up

\* Both ways out of sherry_msg_recv; the second needs RecvFindsMessage.
LEMMA RefReceive ==
  ASSUME IInv, NEW a \in Actor, sherry_msg_recv(a) \/ RecvResume(a)
  PROVE  AM!Receive(a)
<1>1. /\ ctl = "actor" /\ ctl' = "actor" /\ at[a] \in {"fn", "recv"}
      /\ mailbox[a] # <<>>
      /\ at' = [at EXCEPT ![a] = "fn"] /\ mailbox' = [mailbox EXCEPT ![a] = Tail(@)]
      /\ UNCHANGED aid
  <2>1. CASE sherry_msg_recv(a)
    BY <2>1 DEF IInv, TypeOK, sherry_msg_recv, InActor, Dequeued, table
  <2>2. CASE RecvResume(a)
    <3>1. status[a] = "running" /\ at[a] = "recv" /\ mailbox[a] # <<>>
      BY <2>2 DEF IInv, HoldsThread, RecvFindsMessage, RecvResume
    <3> QED BY <2>2, <3>1 DEF RecvResume, Dequeued, table
  <2> QED BY <2>1, <2>2
<1>2. live' = live /\ a \in live /\ waiting' = waiting \ {a}
  BY <1>1 DEF IInv, TypeOK, live, waiting, Live
<1>3. id' = id /\ up /\ up' = up /\ inbox[a] # <<>>
  BY <1>1, <1>2 DEF id, inbox, up
<1>4. inbox' = [inbox EXCEPT ![a] = Tail(@)]
  BY <1>1, <1>2 DEF IInv, TypeOK, inbox, live
<1> QED BY <1>2, <1>3, <1>4 DEF AM!Receive, live, id, inbox, waiting, up

\* An actor function that returns leaves, and main leaves as the last one.
LEMMA RefLeave ==
  ASSUME IInv, IInv', NEW a \in Actor, sherry_main(a) \/ sherry_exit(a)
  PROVE  AM!Leave(a)
<1>1. /\ ctl = "actor" /\ at[a] \in {"fn", "exit"}
      /\ at' = [at EXCEPT ![a] = "done"] /\ UNCHANGED <<aid, mailbox>>
  BY DEF sherry_main, sherry_exit, InActor, unreg_actor
<1>2. live' = live \ {a} /\ a \in live \ waiting /\ waiting' = waiting
  BY <1>1 DEF IInv, TypeOK, live, waiting, Live
<1>3. /\ id' = [c \in live' |-> id[c]] /\ inbox' = [c \in live' |-> inbox[c]]
  BY <1>1, <1>2 DEF id, inbox
<1>4. up /\ up' = (live' # {})
  <2>1. CASE sherry_main(a)
    <3>1. ctl = "actor" /\ ctl' = "schdule" /\ a # main
      BY <2>1 DEF sherry_main, InActor, yield
    <3>2. main \in live
      <4>1. main \in Actor /\ main # Null /\ actors[0] = main /\ 0 \in DOMAIN actors
        BY <3>1, SchedAssumption DEF IInv, TypeOK, MainUp, TableSound
      <4> QED BY <4>1 DEF IInv, TableSound, Range, live
    <3> QED BY <1>2, <3>1, <3>2 DEF up
  <2>2. CASE sherry_exit(a)
    <3>1. ctl = "actor" /\ ctl' = "off"
      BY <2>2 DEF sherry_exit
    <3>2. live' = {}
      BY <3>1 DEF IInv, ExitLeavesNobody, live
    <3> QED BY <3>1, <3>2 DEF up
  <2> QED BY <2>1, <2>2
<1> QED BY <1>2, <1>3, <1>4 DEF AM!Leave, live, id, inbox, waiting, up

LEMMA RefStart ==
  ASSUME IInv, NEW m \in Mains \ heap, sherry_init(m)
  PROVE  AM!Start(m)
<1>1. /\ m \in Actor /\ ctl = "off" /\ ctl' = "actor" /\ at' = [at EXCEPT ![m] = "fn"]
      /\ aid' = [aid EXCEPT ![m] = 0] /\ mailbox' = [mailbox EXCEPT ![m] = <<>>]
  BY SchedAssumption DEF sherry_init, new_actor
<1>2. live = {} /\ live' = {m} /\ waiting' = {}
  BY <1>1 DEF IInv, TypeOK, ExitLeavesNobody, live, waiting, Live
<1>3. aid'[m] = 0 /\ mailbox'[m] = <<>>
  BY <1>1 DEF IInv, TypeOK
<1>4. /\ id' = [c \in {m} |-> 0] /\ inbox' = [c \in {m} |-> <<>>]
      /\ ~up /\ up' = TRUE
  BY <1>1, <1>2, <1>3 DEF id, inbox, up
<1> QED BY <1>2, <1>4 DEF AM!Start, live, id, inbox, waiting, up

LEMMA RefCrash ==
  ASSUME UNCHANGED <<aid, mailbox, at>>, ctl \notin {"off", "crashed"}, ctl' = "crashed"
  PROVE  AM!Crash
  BY DEF AM!Crash, Live

LEMMA RefStep == IInv /\ IInv' /\ [Next]_vars => [AM!AMNext]_(AM!amvars)
<1> SUFFICES ASSUME IInv, IInv', [Next]_vars  PROVE AM!AMNext \/ UNCHANGED AM!amvars
  OBVIOUS
<1>1. ASSUME NEW m \in Mains \ heap, sherry_init(m)  PROVE AM!AMNext
  BY <1>1, RefStart, SchedAssumption DEF AM!AMNext
<1>2. ASSUME NEW a \in Actor, ActorStep(a)  PROVE AM!AMNext \/ UNCHANGED AM!amvars
  <2>1. ASSUME NEW new \in Actor \ (heap \cup Mains), NEW n \in 0..sizeactors, sherry_spawn(a, new, n)
        PROVE  AM!AMNext
    BY <2>1, RefSpawn DEF AM!AMNext
  <2>2. ASSUME NEW dst \in 0..(sizeactors - 1), NEW t \in MsgType, sherry_msg_send(a, dst, t)
        PROVE  AM!AMNext
    BY <2>2, RefSend DEF AM!AMNext
  <2>3. ASSUME NEW dst \in 0..(sizeactors - 1), SendToExited(a, dst)
        PROVE  AM!AMNext
    BY <2>3, RefCrash DEF SendToExited, InActor, table, AM!AMNext
  <2>4. CASE RecvBlock(a) \/ sherry_msg_recv(a) \/ RecvResume(a)
    BY <2>4, RefWait, RefReceive DEF AM!AMNext
  <2>5. CASE sherry_main(a) \/ sherry_exit(a)
    BY <2>5, RefLeave DEF AM!AMNext
  <2>6. CASE sherry_yield(a)
    BY <2>6, RefStutter DEF sherry_yield, InActor, yield, table, up, Live
  <2>7. CASE block_fd(a) \/ IoReturn(a) \/ ExitYield(a)
    <3>1. \A b \in Actor : (Live(b)' <=> Live(b)) /\ (at'[b] = "recv" <=> at[b] = "recv")
      BY <2>7 DEF IInv, TypeOK, block_fd, IoReturn, ExitYield, Live
    <3>2. UNCHANGED <<aid, mailbox>> /\ up' = up
      BY <2>7 DEF block_fd, IoReturn, ExitYield, yield, table, up
    <3> QED BY <3>1, <3>2, RefStutter
  <2> QED BY <1>2, <2>1, <2>2, <2>3, <2>4, <2>5, <2>6, <2>7 DEF ActorStep, CoreCall
<1>3. CASE schdule \/ uv_run \/ UvReturn
  BY <1>3, RefStutter DEF schdule, setrunning, uv_run, UvReturn, table, up, Live
<1>4. ASSUME NEW ws \in Orders({a \in Actor : status[a] = "wait_ev"}), Callback(ws)
      PROVE  UNCHANGED AM!amvars
  BY <1>4, RefStutter DEF Callback, table, up, Live
<1>5. ASSUME NEW a \in Actor, CallbackAborts(a)  PROVE AM!AMNext
  BY <1>5, RefCrash DEF CallbackAborts, table, AM!AMNext
<1>6. CASE UNCHANGED vars
  BY <1>6, RefStutter DEF vars, table, up, Live
<1> QED BY <1>1, <1>2, <1>3, <1>4, <1>5, <1>6 DEF Next

-----------------------------------------------------------------------------
\* The core implements the actor model of ActorModel, for any number of actors,
\* array size, message types and mailbox bound.
THEOREM Refinement == Spec => ImplementsActorModel
<1>1. Init => AM!AMInit
  BY RefInit
<1>2. IInv /\ IInv' /\ [Next]_vars => [AM!AMNext]_(AM!amvars)
  BY RefStep
<1> QED BY <1>1, <1>2, Inductive, PTL DEF Spec, ImplementsActorModel, AM!AMSpec
=============================================================================
