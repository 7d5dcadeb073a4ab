------------------------------- MODULE Sched -------------------------------
(***************************************************************************)
(* The actor core of sherry.c: the actors array, the ready queue, the      *)
(* mailboxes, and the scheduler that hands the one thread of the process   *)
(* from actor to actor.                                                    *)
(*                                                                         *)
(* Actors are coroutines, so the code between two context switches is      *)
(* atomic; one action is what one API call does up to its yield(), or from *)
(* the point it is resumed at.  What an actor function does between the    *)
(* calls is its own business: a running actor may make any call next.      *)
(*                                                                         *)
(* Blocking on a file descriptor (block_fd, sherry_write) and the libuv    *)
(* callbacks that end it are kept abstract here: an actor leaves with      *)
(* status WAIT_EV, and a callback inside uv_run makes some of the actors   *)
(* that wait ready.  Module Net says which ones, and when.                 *)
(***************************************************************************)
EXTENDS Integers, Sequences, FiniteSets, Functions

CONSTANTS
  Actor,     \* the addresses new_actor can return; memory is never reused
  Mains,     \* those it returns to sherry_init: a bound on its calls
  Null,      \* the NULL pointer
  MsgType,   \* the message types actors send
  InitSize,  \* initial length of the actors array (1000 in sherry_init)
  MaxMail    \* bound of the model: the longest mailbox

ASSUME SchedAssumption ==
  /\ IsFiniteSet(Actor)
  /\ Mains \subseteq Actor
  /\ Null \notin Actor
  /\ InitSize \in Nat \ {0}
  /\ MaxMail \in Nat

VARIABLES
  heap,        \* the actor structs allocated so far (free_actor is never called)
  sizeactors,  \* scheduler_t.sizeactors
  curractors,  \* scheduler_t.curractors
  actors,      \* scheduler_t.actors, slot -> actor or Null
  main,        \* scheduler_t.main
  running,     \* scheduler_t.running
  readyq,      \* scheduler_t.readyq, first element next to run
  waitingmsg,  \* scheduler_t.waitingmsg; only enqueued and erased, never
               \* walked, so its order is left out
  aid,         \* actor_t.aid
  status,      \* actor_t.status
  mailbox,     \* actor_t.mailbox
  at,          \* where the saved context of an actor stands
  ctl          \* who has the thread: an actor, schdule(), uv_run(); or
               \* nobody, before sherry_init, after sherry_exit or a crash

table == <<sizeactors, curractors, actors, main, heap, aid>>
queues == <<readyq, waitingmsg, status>>
vars == <<table, queues, running, mailbox, at, ctl>>

Status == {"none", "ready", "running", "wait_msg", "wait_ev"}

\* "fn": in the actor function; "recv": inside sherry_msg_recv, after yield();
\* "io": inside block_fd or sherry_write, after yield(); "exit": inside the
\* loop of sherry_exit; "done": after the function returned, for good.
Place == {"none", "fn", "recv", "io", "exit", "done"}

Msg == [sender : Int, recver : Int, type : MsgType]

-----------------------------------------------------------------------------
(* Helpers of the core *)

\* An actor whose function has not returned.
Live(a) == at[a] \in {"fn", "recv", "io", "exit"}

\* The actor that has the thread, executing its own function.
InActor(a) == ctl = "actor" /\ running = a /\ at[a] = "fn"

\* The first free slot, or the first new one when the array is full.
IsSlot(id) ==
  /\ \A i \in 0..(id - 1) : actors[i] # Null
  /\ id = sizeactors \/ (id \in 0..(sizeactors - 1) /\ actors[id] = Null)

\* Fresh memory with an empty mailbox; the callers set aid and status.
new_actor(a) ==
  /\ heap' = heap \cup {a}
  /\ mailbox' = [mailbox EXCEPT ![a] = <<>>]

\* Mutant: the array grows by the one slot it needs, sizeactors doubles.
reg_actorShort(a, id) ==
  /\ IsSlot(id)
  /\ sizeactors' = IF id = sizeactors THEN 2 * sizeactors ELSE sizeactors
  /\ actors' = [i \in DOMAIN actors \cup {id} |-> IF i = id THEN a ELSE actors[i]]
  /\ curractors' = curractors + 1
  /\ aid' = [aid EXCEPT ![a] = id]

\* Mutant: a full array gives its last slot (id = oldsize - 1) to the new actor.
reg_actorOverwrite(a, id) ==
  /\ IsSlot(id)
  /\ sizeactors' = IF id = sizeactors THEN 2 * sizeactors ELSE sizeactors
  /\ LET slot == IF id = sizeactors THEN id - 1 ELSE id
     IN  /\ actors' = [i \in 0..(sizeactors' - 1) |->
                         IF i = slot THEN a
                         ELSE IF i < sizeactors THEN actors[i] ELSE Null]
         /\ aid' = [aid EXCEPT ![a] = slot]
  /\ curractors' = curractors + 1

reg_actor(a, id) ==
  /\ IsSlot(id)
  /\ sizeactors' = IF id = sizeactors THEN 2 * sizeactors ELSE sizeactors
  /\ actors' = [i \in 0..(sizeactors' - 1) |->
                  IF i = id THEN a
                  ELSE IF i < sizeactors THEN actors[i] ELSE Null]
  /\ curractors' = curractors + 1
  /\ aid' = [aid EXCEPT ![a] = id]

\* Mutant: the slot is cleared and curractors-- forgotten.
unreg_actorUncounted(id) ==
  /\ IF id \in 0..(sizeactors - 1) /\ actors[id] # Null
       THEN actors' = [actors EXCEPT ![id] = Null]
       ELSE UNCHANGED actors
  /\ UNCHANGED <<curractors, sizeactors, main, heap, aid>>

unreg_actor(id) ==
  /\ IF id \in 0..(sizeactors - 1) /\ actors[id] # Null
       THEN /\ actors' = [actors EXCEPT ![id] = Null]
            /\ curractors' = curractors - 1
       ELSE UNCHANGED <<actors, curractors>>
  /\ UNCHANGED <<sizeactors, main, heap, aid>>

\* Mutant: the actor goes to the head of the queue.
setreadyFirst(a) ==
  IF status[a] # "ready"
    THEN /\ status' = [status EXCEPT ![a] = "ready"]
         /\ readyq' = <<a>> \o readyq
    ELSE UNCHANGED <<status, readyq>>

setready(a) ==
  IF status[a] # "ready"
    THEN /\ status' = [status EXCEPT ![a] = "ready"]
         /\ readyq' = Append(readyq, a)
    ELSE UNCHANGED <<status, readyq>>

setrunning(a) ==
  /\ status' = [status EXCEPT ![a] = "running"]
  /\ running' = a

\* The switch to the context of schdule(), which saves that of running.
yield ==
  /\ ctl' = "schdule"
  /\ UNCHANGED running

\* list_dequeue of a mailbox: the empty list gives NULL and stays empty.
Dequeued(q) == IF q = <<>> THEN q ELSE Tail(q)

\* The orders in which a wait queue can hold some of the actors in S.
Orders(S) == UNION {Injection(1..n, S) : n \in 1..Cardinality(S)}

unblock_all(ws) ==
  /\ status' = [a \in Actor |-> IF a \in Range(ws) THEN "ready" ELSE status[a]]
  /\ readyq' = readyq \o ws
  /\ UNCHANGED waitingmsg
-----------------------------------------------------------------------------
(* sherry_init *)

Init ==
  /\ heap = {}
  /\ sizeactors = InitSize
  /\ curractors = 0
  /\ actors = [i \in 0..(InitSize - 1) |-> Null]
  /\ main = Null
  /\ running = Null
  /\ readyq = <<>>
  /\ waitingmsg = {}
  /\ aid = [a \in Actor |-> -1]
  /\ status = [a \in Actor |-> "none"]
  /\ mailbox = [a \in Actor |-> <<>>]
  /\ at = [a \in Actor |-> "none"]
  /\ ctl = "off"

\* sherry_init can be called again after sherry_exit, as test.c does.
sherry_init(m) ==
  /\ ctl = "off"
  /\ sizeactors' = InitSize
  /\ actors' = [i \in 0..(InitSize - 1) |-> IF i = 0 THEN m ELSE Null]
  /\ curractors' = 1
  /\ new_actor(m)
  /\ aid' = [aid EXCEPT ![m] = 0]
  /\ main' = m
  /\ setrunning(m)
  /\ readyq' = <<>>
  /\ waitingmsg' = {}
  /\ at' = [at EXCEPT ![m] = "fn"]
  /\ ctl' = "actor"

-----------------------------------------------------------------------------
(* Calls a running actor makes *)

sherry_spawn(a, new, id) ==
  /\ InActor(a)
  /\ new_actor(new)
  /\ reg_actor(new, id)
  /\ setready(new)
  /\ at' = [at EXCEPT ![new] = "fn"]
  /\ UNCHANGED <<main, running, waitingmsg, ctl>>

sherry_yield(a) ==
  /\ InActor(a)
  /\ setready(a)
  /\ yield
  /\ UNCHANGED <<table, waitingmsg, mailbox, at>>

\* The end of sherry_msg_send: revoke the receiver if its mailbox blocks it.
\* Mutant: without list_erase the node stays in waitingmsg.
RevokeLinked(r) ==
  IF status[r] = "wait_msg"
    THEN setready(r) /\ UNCHANGED waitingmsg
    ELSE UNCHANGED queues

\* Mutant: the receiver is not revoked at all.
RevokeNobody(r) == UNCHANGED queues

\* Mutant: every actor that waits for a message is revoked.
RevokeAll(r) ==
  IF status[r] = "wait_msg"
    THEN /\ \E ws \in Orders(waitingmsg) :
              /\ Len(ws) = Cardinality(waitingmsg)
              /\ readyq' = readyq \o ws
         /\ status' = [a \in Actor |-> IF a \in waitingmsg THEN "ready" ELSE status[a]]
         /\ waitingmsg' = {}
    ELSE UNCHANGED queues

Revoke(r) ==
  IF status[r] = "wait_msg"
    THEN waitingmsg' = waitingmsg \ {r} /\ setready(r)
    ELSE UNCHANGED queues

\* Mutant: the message is put at the head of the mailbox.
SendFirst(a, dst, t) ==
  /\ InActor(a)
  /\ dst \in DOMAIN actors
  /\ LET recver == actors[dst]
         msg == [sender |-> aid[a], recver |-> aid[recver], type |-> t]
     IN  /\ recver # Null
         /\ Len(mailbox[recver]) < MaxMail
         /\ mailbox' = [mailbox EXCEPT ![recver] = <<msg>> \o @]
         /\ Revoke(recver)
  /\ UNCHANGED <<table, running, at, ctl>>

sherry_msg_send(a, dst, t) ==
  /\ InActor(a)
  /\ dst \in DOMAIN actors
  /\ LET recver == actors[dst]
         msg == [sender |-> aid[a], recver |-> aid[recver], type |-> t]
     IN  /\ recver # Null
         /\ Len(mailbox[recver]) < MaxMail
         /\ mailbox' = [mailbox EXCEPT ![recver] = Append(@, msg)]
         /\ Revoke(recver)
  /\ UNCHANGED <<table, running, at, ctl>>

\* The slot of an actor that has exited is NULL, and sherry_msg_send reads
\* recver->aid without looking: the process dies.
SendToExited(a, dst) ==
  /\ InActor(a)
  /\ dst \in DOMAIN actors
  /\ actors[dst] = Null
  /\ \E b \in heap : aid[b] = dst
  /\ ctl' = "crashed"
  /\ UNCHANGED <<table, queues, running, mailbox, at>>

\* sherry_msg_recv on a mailbox that is not empty.
sherry_msg_recv(a) ==
  /\ InActor(a)
  /\ mailbox[a] # <<>>
  /\ mailbox' = [mailbox EXCEPT ![a] = Dequeued(@)]
  /\ UNCHANGED <<table, queues, running, at, ctl>>

\* sherry_msg_recv up to yield(), on an empty mailbox ...
RecvBlock(a) ==
  /\ InActor(a)
  /\ mailbox[a] = <<>>
  /\ status' = [status EXCEPT ![a] = "wait_msg"]
  /\ waitingmsg' = waitingmsg \cup {a}
  /\ at' = [at EXCEPT ![a] = "recv"]
  /\ yield
  /\ UNCHANGED <<table, readyq, mailbox>>

\* ... and from there on: it dequeues without another look at the mailbox.
RecvResume(a) ==
  /\ ctl = "actor" /\ running = a /\ at[a] = "recv"
  /\ mailbox' = [mailbox EXCEPT ![a] = Dequeued(@)]
  /\ at' = [at EXCEPT ![a] = "fn"]
  /\ UNCHANGED <<table, queues, running, ctl>>

\* Mutant: the actor yields without the status WAIT_EV.
block_fdRunning(a) ==
  /\ ctl = "actor" /\ running = a /\ at[a] \in {"fn", "io"}
  /\ at' = [at EXCEPT ![a] = "io"]
  /\ yield
  /\ UNCHANGED <<table, queues, mailbox>>

\* block_fd, or sherry_write once the request is handed to libuv.  A woken
\* reader or acceptor that finds nothing blocks again.
block_fd(a) ==
  /\ ctl = "actor" /\ running = a /\ at[a] \in {"fn", "io"}
  /\ status' = [status EXCEPT ![a] = "wait_ev"]
  /\ at' = [at EXCEPT ![a] = "io"]
  /\ yield
  /\ UNCHANGED <<table, readyq, waitingmsg, mailbox>>

IoReturn(a) ==
  /\ ctl = "actor" /\ running = a /\ at[a] = "io"
  /\ at' = [at EXCEPT ![a] = "fn"]
  /\ UNCHANGED <<table, queues, running, mailbox, ctl>>

\* Mutant: sherry_main ends in sherry_yield().
sherry_mainYields(a) ==
  /\ InActor(a)
  /\ a # main
  /\ unreg_actor(aid[a])
  /\ setready(a)
  /\ at' = [at EXCEPT ![a] = "done"]
  /\ yield
  /\ UNCHANGED <<waitingmsg, mailbox>>

\* The actor function returns into sherry_main, which unregisters the actor
\* and yields for good; the status stays RUNNING.
sherry_main(a) ==
  /\ InActor(a)
  /\ a # main
  /\ unreg_actor(aid[a])
  /\ at' = [at EXCEPT ![a] = "done"]
  /\ yield
  /\ UNCHANGED <<queues, mailbox>>

\* The loop of sherry_exit, called by the fake main actor.
ExitYield(a) ==
  /\ ctl = "actor" /\ running = a /\ a = main /\ at[a] \in {"fn", "exit"}
  /\ curractors > 1
  /\ setready(a)
  /\ at' = [at EXCEPT ![a] = "exit"]
  /\ yield
  /\ UNCHANGED <<table, waitingmsg, mailbox>>

\* Mutant: one actor too many is left alone.
sherry_exitEarly(a) ==
  /\ ctl = "actor" /\ running = a /\ a = main /\ at[a] \in {"fn", "exit"}
  /\ curractors <= 2
  /\ unreg_actor(aid[a])
  /\ at' = [at EXCEPT ![a] = "done"]
  /\ ctl' = "off"
  /\ UNCHANGED <<queues, running, mailbox>>

sherry_exit(a) ==
  /\ ctl = "actor" /\ running = a /\ a = main /\ at[a] \in {"fn", "exit"}
  /\ curractors <= 1
  /\ unreg_actor(aid[a])
  /\ at' = [at EXCEPT ![a] = "done"]
  /\ ctl' = "off"
  /\ UNCHANGED <<queues, running, mailbox>>

-----------------------------------------------------------------------------
(* The scheduler and the event loop *)

schdule ==
  /\ ctl = "schdule"
  /\ readyq # <<>>
  /\ readyq' = Tail(readyq)
  /\ setrunning(Head(readyq))
  /\ ctl' = "actor"
  /\ UNCHANGED <<table, waitingmsg, mailbox, at>>

uv_run ==
  /\ ctl = "schdule"
  /\ readyq = <<>>
  /\ ctl' = "uv_run"
  /\ UNCHANGED <<table, queues, running, mailbox, at>>

\* listen_cb and read_cb make ready the actors of one wait queue, write_cb the
\* one actor of the request ...
Callback(ws) ==
  /\ ctl = "uv_run"
  /\ unblock_all(ws)
  /\ UNCHANGED <<table, running, mailbox, at, ctl>>

\* ... and then asserts that the write succeeded.
CallbackAborts(a) ==
  /\ ctl = "uv_run"
  /\ status[a] = "wait_ev"
  /\ setready(a)
  /\ ctl' = "crashed"
  /\ UNCHANGED <<table, waitingmsg, running, mailbox, at>>

UvReturn ==
  /\ ctl = "uv_run"
  /\ ctl' = "schdule"
  /\ UNCHANGED <<table, queues, running, mailbox, at>>
-----------------------------------------------------------------------------
\* The calls that touch no file descriptor.
CoreCall(a) ==
  \/ \E new \in Actor \ (heap \cup Mains), id \in 0..sizeactors : sherry_spawn(a, new, id)
  \/ sherry_yield(a)
  \/ \E dst \in 0..(sizeactors - 1), t \in MsgType : sherry_msg_send(a, dst, t)
  \/ \E dst \in 0..(sizeactors - 1) : SendToExited(a, dst)
  \/ sherry_msg_recv(a)
  \/ RecvBlock(a)
  \/ RecvResume(a)
  \/ sherry_main(a)
  \/ ExitYield(a)
  \/ sherry_exit(a)

ActorStep(a) == CoreCall(a) \/ block_fd(a) \/ IoReturn(a)

Next ==
  \/ \E m \in Mains \ heap : sherry_init(m)
  \/ \E a \in Actor : ActorStep(a)
  \/ schdule
  \/ uv_run
  \/ \E ws \in Orders({a \in Actor : status[a] = "wait_ev"}) : Callback(ws)
  \/ \E a \in Actor : CallbackAborts(a)
  \/ UvReturn

Spec == Init /\ [][Next]_vars

(***************************************************************************)
(* Fairness.  schdule() and uv_run() are straight-line code, and so is the *)
(* rest of a call after its yield() returns.  GivesUp is the contract of   *)
(* cooperative scheduling: an actor that has the thread gives it up     *)
(* sooner or later; no code of sherry.c takes it away.  Only one actor has *)
(* the thread, so one condition for all of them is one for each of them.   *)
(* Nothing is assumed of the network: no fairness on Callback.             *)
(***************************************************************************)
Resumes(a) == RecvResume(a) \/ IoReturn(a) \/ ExitYield(a) \/ sherry_exit(a)

GivesUp(a) == sherry_yield(a) \/ RecvBlock(a) \/ sherry_main(a)

Fairness ==
  /\ WF_vars(\E a \in Actor : Resumes(a))
  /\ WF_vars(\E a \in Actor : GivesUp(a))
  /\ WF_vars(schdule) /\ WF_vars(uv_run) /\ WF_vars(UvReturn)

FairSpec == Spec /\ Fairness

-----------------------------------------------------------------------------
(* Properties *)

TypeOK ==
  /\ heap \subseteq Actor
  /\ sizeactors \in Nat \ {0}
  /\ curractors \in Int
  /\ actors \in [0..(sizeactors - 1) -> Actor \cup {Null}]
  /\ main \in Actor \cup {Null}
  /\ running \in Actor \cup {Null}
  /\ readyq \in Seq(Actor)
  /\ waitingmsg \subseteq Actor
  /\ aid \in [Actor -> Int]
  /\ status \in [Actor -> Status]
  /\ mailbox \in [Actor -> Seq(Msg)]
  /\ at \in [Actor -> Place]
  /\ ctl \in {"off", "actor", "schdule", "uv_run", "crashed"}

\* An actor struct has one list node.  It is linked into the ready queue once
\* when the status says READY, into waitingmsg when it says WAIT_MSG, and into
\* neither in any other status, so no list operation ever sees a node that is
\* linked somewhere else (setready, sherry_msg_send, sherry_msg_recv).
OneQueuePerNode ==
  /\ IsInjective(readyq)
  /\ Range(readyq) = {a \in Actor : status[a] = "ready"}
  /\ waitingmsg = {a \in Actor : status[a] = "wait_msg"}

\* Every live actor but the one that has the thread is in a status from which
\* something can wake it, and its context is where that status says it yielded:
\* no switch loses an actor, and none resumes at the wrong place.
NobodyStranded ==
  \A a \in Actor : Live(a) =>
    \/ status[a] = "ready"
    \/ status[a] = "running" /\ running = a /\ ctl \in {"actor", "crashed"}
    \/ status[a] = "wait_msg" /\ at[a] = "recv"
    \/ status[a] = "wait_ev" /\ at[a] = "io"

\* sherry_msg_recv and sherry_msg_send never lose a wakeup: an actor blocked on
\* its mailbox has an empty one ...
NoLostWakeup == \A a \in Actor : status[a] = "wait_msg" => mailbox[a] = <<>>

\* ... and one that was woken finds a message, however many actors ran in
\* between: the unchecked second half of sherry_msg_recv never returns NULL.
RecvFindsMessage ==
  \A a \in Actor : at[a] = "recv" /\ status[a] \in {"ready", "running"} => mailbox[a] # <<>>

\* An actor whose function has returned is never queued and never gets the
\* thread again: the last yield() of sherry_main does not return.
DeadStayDead ==
  /\ \A a \in Actor : status[a] \in {"ready", "wait_msg", "wait_ev"} => Live(a)
  /\ ctl = "actor" => Live(running)

\* The actors array has exactly the live actors, each in the slot of its aid,
\* through slot reuse and growth; curractors counts them; main is in slot
\* SHERRY_MAIN_ID until sherry_exit.
TableSound ==
  /\ Range(actors) \ {Null} = {a \in Actor : Live(a)}
  /\ \A i \in DOMAIN actors : actors[i] # Null => aid[actors[i]] = i
  /\ curractors = Cardinality({i \in DOMAIN actors : actors[i] # Null})
  /\ ctl # "off" => actors[0] = main

\* A message waits in the mailbox of the live actor its recver field names, even
\* when the aid has belonged to another actor before.
MailForOwner ==
  \A a \in Actor : Live(a) => \A i \in DOMAIN mailbox[a] : mailbox[a][i].recver = aid[a]

\* When sherry_exit frees the actors array and the scheduler, no actor is left
\* that is live, queued or blocked.
ExitLeavesNobody ==
  ctl = "off" => readyq = <<>> /\ waitingmsg = {} /\ \A a \in Actor : ~Live(a)

\* Nobody starves in the ready queue: an actor made ready gets the thread, as
\* long as the others give it up (unless a crash ends the process).
ReadyRuns ==
  \A a \in Actor : status[a] = "ready" ~> (status[a] = "running" \/ ctl = "crashed")

\* sherry_exit returns, unless some actor is blocked, if an actor function that
\* is run often enough returns, as those of test.c do.
ExitReturns ==
  SF_vars(\E a \in Actor : sherry_main(a)) =>
    ((ctl = "actor" /\ at[running] = "exit") ~>
       (ctl \in {"off", "crashed"} \/ \E a \in Actor : status[a] \in {"wait_msg", "wait_ev"}))

\* While main is in sherry_exit and an actor waits for its file descriptor, the
\* event loop that could tell it that the descriptor is ready gets to run.
ExitPollsEvents ==
  (/\ \E m \in Actor : m = main /\ at[m] = "exit"
   /\ \E a \in Actor : status[a] = "wait_ev") ~>
     ctl \in {"uv_run", "off", "crashed"}

-----------------------------------------------------------------------------
(* What the actors see of it *)

AM == INSTANCE ActorModel WITH
        up <- ctl \notin {"off", "crashed"},
        live <- {a \in Actor : Live(a)},
        id <- [a \in {b \in Actor : Live(b)} |-> aid[a]],
        inbox <- [a \in {b \in Actor : Live(b)} |-> mailbox[a]],
        waiting <- {a \in Actor : at[a] = "recv"}

\* The scheduler, the queues and the reused slots implement the actor model:
\* every message goes to the actor that has the id, is received once and in
\* the order sent, and no actor exits while it waits.
ImplementsActorModel == AM!AMSpec

\* An actor blocked in sherry_msg_recv to which a message was sent receives it:
\* the revoked actor gets through the ready queue to the second half of the call.
WaitersServed == AM!AMFairness
=============================================================================
