--------------------------------- MODULE Net ---------------------------------
(***************************************************************************)
(* The network calls of sherry.c over libuv.  Net refines the part Sched   *)
(* leaves open: which descriptor an actor blocks on, which callback makes  *)
(* it ready again, and what the call it stands in then finds.  All other   *)
(* steps are those of Sched.                                               *)
(*                                                                         *)
(* libuv and the peer are the environment, modelled by what the calls and  *)
(* callbacks of sherry.c rely on: callbacks come from uv_run only, a       *)
(* stream that is read once is read until EOF or an error (a second        *)
(* uv_read_start changes nothing, and newer versions of libuv refuse it),  *)
(* a server takes one connection at a time, write requests complete in     *)
(* order, and those pending on a closed handle are called back before      *)
(* close_cb.                                                               *)
(*                                                                         *)
(* The contract of the callers: a descriptor is used from a call of        *)
(* sherry_fd_tcp to one of sherry_fd_close, and the clientfd of an accept  *)
(* belongs to that call.  Several actors may use one descriptor, and one   *)
(* may close it while others are inside a call on it.                      *)
(***************************************************************************)
EXTENDS Sched

CONSTANTS
  Fd,        \* the addresses fdnew can return; memory is not reused
  BufSize,   \* the size libuv suggests to rbuf_alloc, 65536
  MaxBytes,  \* bound of the model: bytes a peer sends on a connection
  MaxCount   \* bound of the model: the largest count of sherry_read

ASSUME NetAssumption ==
  Null \notin Fd /\ BufSize \in Nat \ {0} /\ MaxBytes \in Nat /\ MaxCount \in Nat \ {0}

VARIABLES
  handle,    \* what became of the libuv handle of a descriptor
  waitq,     \* sherry_fd_t.waitq[SHERRY_EV_READ]; no call uses the other one
  rbuf,      \* sherry_fd_t.rbuf, a byte of the peer by its number; <<>> is NULL
  roffset,   \* sherry_fd_t.roffset
  rerror,    \* sherry_fd_t.rerror, "ok" for 0
  accepted,  \* libuv: a connection waits for uv_accept
  reading,   \* libuv: between uv_read_start and EOF, an error or uv_close
  sent,      \* libuv: how many bytes of the peer read_cb has been given
  ended,     \* libuv: the peer has closed or reset the connection
  wreqs,     \* libuv: the pending uv_write_t of a stream, by their actors
  call,      \* the network call a blocked actor stands in
  got        \* history: the bytes sherry_read has returned, in order

fds == <<handle, waitq, rbuf, roffset, rerror>>
uv == <<accepted, reading, sent, ended, wreqs>>
netvars == <<fds, uv, call, got>>

NoCall == [op |-> "none", fd |-> Null, client |-> Null, count |-> 0]

Open(f) == handle[f] \in {"tcp", "listening", "connected"}

\* A byte of fresh memory, whatever its value.
Junk == 0

\* The part of the buffer that sherry_read has not returned yet.
Unread(f) == SubSeq(rbuf[f], roffset[f] + 1, Len(rbuf[f]))

-----------------------------------------------------------------------------
NetInit ==
  /\ Init
  /\ handle = [f \in Fd |-> "none"]
  /\ waitq = [f \in Fd |-> <<>>]
  /\ rbuf = [f \in Fd |-> <<>>]
  /\ roffset = [f \in Fd |-> 0]
  /\ rerror = [f \in Fd |-> "ok"]
  /\ accepted = [f \in Fd |-> FALSE]
  /\ reading = [f \in Fd |-> FALSE]
  /\ sent = [f \in Fd |-> 0]
  /\ ended = [f \in Fd |-> FALSE]
  /\ wreqs = [f \in Fd |-> <<>>]
  /\ call = [a \in Actor |-> NoCall]
  /\ got = [f \in Fd |-> <<>>]

\* fdnew and uv_tcp_init; the fields of fresh memory are as in NetInit.
sherry_fd_tcp(a, f) ==
  /\ InActor(a)
  /\ handle[f] = "none"
  /\ handle' = [handle EXCEPT ![f] = "tcp"]
  /\ UNCHANGED <<vars, waitq, rbuf, roffset, rerror, uv, call, got>>

sherry_listen(a, f) ==
  /\ InActor(a)
  /\ handle[f] = "tcp"
  /\ \A b \in Actor : call[b].client # f
  /\ handle' = [handle EXCEPT ![f] = "listening"]
  /\ UNCHANGED <<vars, waitq, rbuf, roffset, rerror, uv, call, got>>

\* Mutant: the descriptor is freed at once, not in close_cb.
CloseNow(a, f) ==
  /\ InActor(a)
  /\ Open(f)
  /\ \A b \in Actor : call[b].client # f
  /\ handle' = [handle EXCEPT ![f] = "freed"]
  /\ accepted' = [accepted EXCEPT ![f] = FALSE]
  /\ reading' = [reading EXCEPT ![f] = FALSE]
  /\ UNCHANGED <<vars, waitq, rbuf, roffset, rerror, sent, ended, wreqs, call, got>>

\* uv_close stops all events of the handle at once.  Nobody is woken.
sherry_fd_close(a, f) ==
  /\ InActor(a)
  /\ Open(f)
  /\ \A b \in Actor : call[b].client # f
  /\ handle' = [handle EXCEPT ![f] = "closing"]
  /\ accepted' = [accepted EXCEPT ![f] = FALSE]
  /\ reading' = [reading EXCEPT ![f] = FALSE]
  /\ UNCHANGED <<vars, waitq, rbuf, roffset, rerror, sent, ended, wreqs, call, got>>

-----------------------------------------------------------------------------
(* A call that blocks is entered from the actor function and resumed where  *)
(* block_fd yielded; either way it goes on to block again or to return.     *)

Returns(a) ==
  /\ call' = [call EXCEPT ![a] = NoCall]
  /\ IF at[a] = "io" THEN IoReturn(a) ELSE InActor(a) /\ UNCHANGED vars

Blocks(a, c) ==
  /\ block_fd(a)
  /\ waitq' = [waitq EXCEPT ![c.fd] = Append(@, a)]
  /\ call' = [call EXCEPT ![a] = c]

Resumed(a, op) == ctl = "actor" /\ running = a /\ at[a] = "io" /\ call[a].op = op

\* The loop of sherry_accept.  uv_accept gives EAGAIN, or it takes the
\* connection and may still fail.
AcceptLoop(a, c) ==
  \/ /\ accepted[c.fd]
     /\ accepted' = [accepted EXCEPT ![c.fd] = FALSE]
     /\ \/ handle' = [handle EXCEPT ![c.client] = "connected"]
        \/ UNCHANGED handle
     /\ Returns(a)
     /\ UNCHANGED <<waitq, rbuf, roffset, rerror, reading, sent, ended, wreqs, got>>
  \/ /\ ~accepted[c.fd]
     /\ Blocks(a, c)
     /\ UNCHANGED <<handle, rbuf, roffset, rerror, uv, got>>

sherry_accept(a, server, client) ==
  /\ InActor(a)
  /\ handle[server] = "listening"
  /\ handle[client] = "tcp"
  /\ \A b \in Actor : call[b].client # client
  /\ AcceptLoop(a, [op |-> "accept", fd |-> server, client |-> client, count |-> 0])

AcceptResume(a) == Resumed(a, "accept") /\ AcceptLoop(a, call[a])

\* Mutant: fd->roffset += nread is forgotten.
CopyOutAgain(f, count) ==
  LET nread == IF Len(Unread(f)) > count THEN count ELSE Len(Unread(f))
  IN  /\ got' = [got EXCEPT ![f] = @ \o SubSeq(Unread(f), 1, nread)]
      /\ UNCHANGED roffset

\* Mutant: the offset moves on by count, not by what was there.
CopyOutCount(f, count) ==
  LET nread == IF Len(Unread(f)) > count THEN count ELSE Len(Unread(f))
  IN  /\ got' = [got EXCEPT ![f] = @ \o SubSeq(Unread(f), 1, nread)]
      /\ roffset' = [roffset EXCEPT ![f] = @ + count]

CopyOut(f, count) ==
  LET nread == IF Len(Unread(f)) > count THEN count ELSE Len(Unread(f))
  IN  /\ got' = [got EXCEPT ![f] = @ \o SubSeq(Unread(f), 1, nread)]
      /\ roffset' = [roffset EXCEPT ![f] = @ + nread]

\* The loop of sherry_read.
ReadLoop(a, c) ==
  \/ /\ rerror[c.fd] # "ok"
     /\ Returns(a)
     /\ UNCHANGED <<waitq, roffset, got>>
  \/ /\ rerror[c.fd] = "ok"
     /\ Unread(c.fd) # <<>>
     /\ CopyOut(c.fd, c.count)
     /\ Returns(a)
     /\ UNCHANGED waitq
  \/ /\ rerror[c.fd] = "ok"
     /\ Unread(c.fd) = <<>>
     /\ Blocks(a, c)
     /\ UNCHANGED <<roffset, got>>

ReadStarted(a, f, count) ==
  /\ InActor(a)
  /\ handle[f] = "connected"
  /\ reading' = [reading EXCEPT ![f] = TRUE]
  /\ ReadLoop(a, [op |-> "read", fd |-> f, client |-> Null, count |-> count])
  /\ UNCHANGED <<handle, rbuf, rerror, accepted, sent, ended, wreqs>>

\* uv_read_start gives an error, which sherry_read returns at once: newer versions
\* of libuv have UV_EALREADY for a stream that is being read.
ReadRefused(a, f) ==
  /\ InActor(a)
  /\ handle[f] = "connected"
  /\ reading[f]
  /\ UNCHANGED <<vars, netvars>>

sherry_read(a, f, count) == ReadStarted(a, f, count) \/ ReadRefused(a, f)

ReadResume(a) ==
  /\ Resumed(a, "read")
  /\ ReadLoop(a, call[a])
  /\ UNCHANGED <<handle, rbuf, rerror, uv>>

\* Mutant: the writer yields instead of waiting for write_cb.
WriteYields(a, f) ==
  /\ InActor(a)
  /\ handle[f] = "connected"
  /\ wreqs' = [wreqs EXCEPT ![f] = Append(@, a)]
  /\ call' = [call EXCEPT ![a] = [op |-> "write", fd |-> f, client |-> Null, count |-> 0]]
  /\ setready(a)
  /\ at' = [at EXCEPT ![a] = "io"]
  /\ yield
  /\ UNCHANGED <<table, waitingmsg, mailbox, fds, accepted, reading, sent, ended, got>>

\* The request and the buffer live on the stack of the writer.
sherry_write(a, f) ==
  /\ InActor(a)
  /\ handle[f] = "connected"
  /\ wreqs' = [wreqs EXCEPT ![f] = Append(@, a)]
  /\ call' = [call EXCEPT ![a] = [op |-> "write", fd |-> f, client |-> Null, count |-> 0]]
  /\ block_fd(a)
  /\ UNCHANGED <<fds, accepted, reading, sent, ended, got>>

WriteResume(a) ==
  /\ Resumed(a, "write")
  /\ Returns(a)
  /\ UNCHANGED <<fds, uv, got>>
-----------------------------------------------------------------------------
(* The callbacks of uv_run *)

\* Mutant: the wait queue is walked, its nodes stay linked.
WakeReadersLinked(f) ==
  /\ IF waitq[f] = <<>> THEN ctl = "uv_run" /\ UNCHANGED vars ELSE Callback(waitq[f])
  /\ UNCHANGED waitq

\* Mutant: only the first of the blocked actors is woken.
WakeOneReader(f) ==
  IF waitq[f] = <<>>
    THEN ctl = "uv_run" /\ UNCHANGED <<vars, waitq>>
    ELSE /\ Callback(<<Head(waitq[f])>>)
         /\ waitq' = [waitq EXCEPT ![f] = Tail(@)]

\* unblock_all of waitq[SHERRY_EV_READ].
WakeReaders(f) ==
  /\ IF waitq[f] = <<>> THEN ctl = "uv_run" /\ UNCHANGED vars ELSE Callback(waitq[f])
  /\ waitq' = [waitq EXCEPT ![f] = <<>>]

\* Mutant: nobody is woken, as if sherry_accept polled.
listen_cbSilent(f) ==
  /\ ctl = "uv_run"
  /\ handle[f] = "listening"
  /\ ~accepted[f]
  /\ accepted' \in {accepted, [accepted EXCEPT ![f] = TRUE]}
  /\ UNCHANGED <<vars, waitq, handle, rbuf, roffset, rerror, reading, sent, ended, wreqs, call, got>>

\* With a new connection, or with an error status, which the code ignores.
listen_cb(f) ==
  /\ handle[f] = "listening"
  /\ ~accepted[f]
  /\ accepted' \in {accepted, [accepted EXCEPT ![f] = TRUE]}
  /\ WakeReaders(f)
  /\ UNCHANGED <<handle, rbuf, roffset, rerror, reading, sent, ended, wreqs, call, got>>

\* read_cb with nread > 0: a new buffer replaces the old one.  Its length is that
\* of rbuf_alloc, for libuv leaves buf->len alone; nread is not kept.
read_cb(f, nread) ==
  /\ reading[f] /\ ~ended[f]
  /\ sent[f] + nread <= MaxBytes
  /\ sent' = [sent EXCEPT ![f] = @ + nread]
  /\ rbuf' = [rbuf EXCEPT ![f] = [i \in 1..BufSize |-> IF i <= nread THEN sent[f] + i ELSE Junk]]
  /\ roffset' = [roffset EXCEPT ![f] = 0]
  /\ WakeReaders(f)
  /\ UNCHANGED <<handle, rerror, accepted, reading, ended, wreqs, call, got>>

\* read_cb with nread <= 0: nothing to read now (0), EOF, or an error, after
\* which libuv stops reading.  It returns before unblock_all.
read_cbNothing(f, nread) ==
  /\ ctl = "uv_run"
  /\ reading[f]
  /\ ended[f] => nread = "eof"
  /\ rerror' = [rerror EXCEPT ![f] = nread]
  /\ ended' = [ended EXCEPT ![f] = @ \/ nread # "ok"]
  /\ reading' = [reading EXCEPT ![f] = nread = "ok"]
  /\ UNCHANGED <<vars, handle, waitq, rbuf, roffset, accepted, sent, wreqs, call, got>>

\* A write succeeds, or it fails (of a closed handle, with ECANCELED) and the
\* assertion ends the process.
write_cb(f) ==
  /\ wreqs[f] # <<>>
  /\ Callback(<<Head(wreqs[f])>>) \/ CallbackAborts(Head(wreqs[f]))
  /\ wreqs' = [wreqs EXCEPT ![f] = Tail(@)]
  /\ UNCHANGED <<fds, accepted, reading, sent, ended, call, got>>

close_cb(f) ==
  /\ ctl = "uv_run"
  /\ handle[f] = "closing"
  /\ wreqs[f] = <<>>
  /\ handle' = [handle EXCEPT ![f] = "freed"]
  /\ UNCHANGED <<vars, waitq, rbuf, roffset, rerror, uv, call, got>>

-----------------------------------------------------------------------------
NetCall(a) ==
  \/ \E f \in Fd : sherry_fd_tcp(a, f)
  \/ \E f \in Fd : sherry_listen(a, f)
  \/ \E f, g \in Fd : sherry_accept(a, f, g)
  \/ AcceptResume(a)
  \/ \E f \in Fd, count \in 1..MaxCount : sherry_read(a, f, count)
  \/ ReadResume(a)
  \/ \E f \in Fd : sherry_write(a, f)
  \/ WriteResume(a)
  \/ \E f \in Fd : sherry_fd_close(a, f)

NetCallback(f) ==
  \/ listen_cb(f)
  \/ \E nread \in 1..BufSize : read_cb(f, nread)
  \/ \E nread \in {"ok", "eof", "err"} : read_cbNothing(f, nread)
  \/ write_cb(f)
  \/ close_cb(f)

CoreStep ==
  \/ \E m \in Mains \ heap : sherry_init(m)
  \/ \E a \in Actor : CoreCall(a)
  \/ schdule
  \/ uv_run
  \/ UvReturn

NetNext ==
  \/ CoreStep /\ UNCHANGED netvars
  \/ \E a \in Actor : NetCall(a)
  \/ \E f \in Fd : NetCallback(f)

NetSpec == NetInit /\ [][NetNext]_<<vars, netvars>>

\* The rest of a call after its yield() is straight-line code.
NetResumes(a) ==
  \/ (RecvResume(a) \/ ExitYield(a) \/ sherry_exit(a)) /\ UNCHANGED netvars
  \/ AcceptResume(a) \/ ReadResume(a) \/ WriteResume(a)

\* As in Sched: actors give up the thread, schdule() and uv_run go on.
NetFairness ==
  /\ WF_<<vars, netvars>>(\E a \in Actor : NetResumes(a))
  /\ WF_<<vars, netvars>>((\E a \in Actor : GivesUp(a)) /\ UNCHANGED netvars)
  /\ WF_<<vars, netvars>>((schdule \/ uv_run \/ UvReturn) /\ UNCHANGED netvars)

NetFairSpec == NetSpec /\ NetFairness

-----------------------------------------------------------------------------
(* Properties *)

CallOf(op) == [op : {op}, fd : Fd, client : Fd \cup {Null}, count : Nat]

NetTypeOK ==
  /\ handle \in [Fd -> {"none", "tcp", "listening", "connected", "closing", "freed"}]
  /\ waitq \in [Fd -> Seq(Actor)]
  /\ rbuf \in [Fd -> Seq(Nat)]
  /\ roffset \in [Fd -> Nat] /\ \A f \in Fd : roffset[f] <= Len(rbuf[f])
  /\ rerror \in [Fd -> {"ok", "eof", "err"}]
  /\ accepted \in [Fd -> BOOLEAN] /\ reading \in [Fd -> BOOLEAN] /\ ended \in [Fd -> BOOLEAN]
  /\ sent \in [Fd -> Nat]
  /\ wreqs \in [Fd -> Seq(Actor)]
  /\ call \in [Actor -> {NoCall} \cup CallOf("accept") \cup CallOf("read") \cup CallOf("write")]
  /\ got \in [Fd -> Seq(Nat)]

\* The one list node of an actor, again: it is in the wait queue of the
\* descriptor it waits for, once, and in no other; only actors in WAIT_EV are in
\* a wait queue, so unblock_all never meets a node of the ready queue.
WaitersLinkedOnce ==
  /\ \A f \in Fd : IsInjective(waitq[f])
  /\ \A f \in Fd, a \in Actor :
       a \in Range(waitq[f]) <=>
         status[a] = "wait_ev" /\ call[a].op \in {"accept", "read"} /\ call[a].fd = f

\* A uv_write_t is on the stack of its writer: while libuv has it the writer
\* is blocked in that very call, and a writer that is blocked has one.
RequestsOfBlocked ==
  /\ \A f \in Fd : IsInjective(wreqs[f])
  /\ \A f \in Fd, a \in Actor :
       a \in Range(wreqs[f]) <=>
         status[a] = "wait_ev" /\ call[a].op = "write" /\ call[a].fd = f

\* A reader or acceptor that was woken goes back to its descriptor.  When another
\* actor has closed it in between, close_cb still comes after all of them, and
\* after the last write_cb; a writer that resumes needs the descriptor no more.
NoUseAfterFree ==
  /\ \A a \in Actor :
       at[a] = "io" /\ status[a] \in {"ready", "running"} /\ call[a].op # "write" =>
         /\ handle[call[a].fd] # "freed"
         /\ call[a].op = "accept" => handle[call[a].client] = "tcp"
  /\ \A f \in Fd : handle[f] = "freed" => wreqs[f] = <<>> /\ ~reading[f] /\ ~accepted[f]

\* No wakeup is lost: while an actor is blocked in sherry_accept no connection
\* waits for uv_accept, although several actors compete for it ...
AcceptNotMissed ==
  \A f \in Fd : waitq[f] # <<>> => ~accepted[f]

\* ... and while one is blocked in sherry_read the buffer has nothing for it.
ReadNotMissed ==
  \A f \in Fd : waitq[f] # <<>> => Unread(f) = <<>>

\* However many actors read a connection, no byte of the peer is returned twice or
\* out of order, and none of the buffer is skipped.
BytesInOrder ==
  \A f \in Fd :
    /\ LET all == got[f] \o Unread(f)
       IN  \A i, j \in DOMAIN all : i < j /\ all[i] # Junk /\ all[j] # Junk => all[i] < all[j]
    /\ \A i \in 1..roffset[f] : rbuf[f][i] \in Range(got[f])

\* Every step is one of Sched, so what holds of Sched holds here.
ImplementsSched == Spec

\* A connection that waits for uv_accept when an actor is inside sherry_accept is
\* taken, unless the descriptor is closed.
AcceptServed ==
  \A f \in Fd :
    (accepted[f] /\ \E a \in Actor : call[a].op = "accept" /\ call[a].fd = f)
      ~> (~accepted[f] \/ ctl = "crashed")

\* A reader learns of EOF: it is not left blocked on a connection that has ended.
EofWakesReaders ==
  \A f \in Fd : Open(f) /\ waitq[f] # <<>> => rerror[f] = "ok"

\* What sherry_read returns was sent by the peer; when there is nothing more of it
\* in the buffer, the call blocks.
OnlyBytesOfPeer == \A f \in Fd : Junk \notin Range(got[f])

\* The bytes of the peer are returned before anything else happens to them: a
\* new buffer comes when the old one is used up, and a reader gets no EOF or error
\* while bytes are left.
BytesComeFirst ==
  [][\A f \in Fd : (\E b \in Range(Unread(f)) : b # Junk) =>
       /\ rbuf'[f] = rbuf[f]
       /\ \A a \in Actor :
            call[a].op = "read" /\ call[a].fd = f /\ call'[a] = NoCall => got'[f] # got[f]
    ]_<<vars, netvars>>
=============================================================================
