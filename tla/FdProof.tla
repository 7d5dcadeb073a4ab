------------------------------ MODULE FdProof ------------------------------
(***************************************************************************)
(* Descriptors: no call goes on with one that is freed, and no wakeup is   *)
(* lost although several actors wait for the same event.                   *)
(***************************************************************************)
EXTENDS NetProof

HandleState == {"none", "tcp", "listening", "connected", "closing", "freed"}

HandleTypes ==
  handle \in [Fd -> HandleState] /\ accepted \in [Fd -> BOOLEAN] /\ reading \in [Fd -> BOOLEAN]

Accepts(a) == call[a].op = "accept"
Reads(a) == call[a].op = "read"

\* What the arguments of a call are, as long as the call lasts.
CallHandles ==
  /\ \A a \in Actor : Accepts(a) =>
       /\ call[a].client \in Fd /\ handle[call[a].client] = "tcp"
       /\ handle[call[a].fd] \in {"listening", "closing", "freed"}
       /\ \A b \in Actor \ {a} : Accepts(b) => call[b].client # call[a].client
  /\ \A a \in Actor : Reads(a) => handle[call[a].fd] \in {"connected", "closing", "freed"}

\* The handles libuv can have something for.
Pending(f) ==
  /\ accepted[f] => handle[f] = "listening"
  /\ reading[f] => handle[f] = "connected"
  /\ wreqs[f] # <<>> => handle[f] \in {"connected", "closing"}

HInv == HandleTypes /\ CallHandles /\ \A f \in Fd : Pending(f)

-----------------------------------------------------------------------------
(* Handles and calls *)

LEMMA HInit == NetInit => HInv
BY DEF NetInit, HInv, HandleTypes, HandleState, CallHandles, Accepts, Reads, Pending, NoCall

\* Without a new call and a new handle.
LEMMA HFrame ==
  ASSUME HInv, UNCHANGED <<handle, accepted, reading>>,
         \A f \in Fd : wreqs'[f] # <<>> => wreqs[f] # <<>>,
         \A b \in Actor : call'[b] = call[b] \/ call'[b].op \notin {"accept", "read"}
  PROVE  HInv'
<1>1. HandleTypes'
  BY DEF HInv, HandleTypes
<1>2. CallHandles'
  BY DEF HInv, CallHandles, Accepts, Reads
<1>3. \A f \in Fd : Pending(f)'
  BY DEF HInv, Pending
<1> QED BY <1>1, <1>2, <1>3 DEF HInv

\* Blocking in a call that satisfies what the others do.
LEMMA HBlocks ==
  ASSUME WInv, HInv, NEW a \in Actor, NEW c \in CallType, UNCHANGED <<handle, accepted, reading, wreqs>>,
         call' = [call EXCEPT ![a] = c],
         c.op = "accept" =>
           /\ c.client \in Fd /\ handle[c.client] = "tcp"
           /\ handle[c.fd] \in {"listening", "closing", "freed"}
           /\ \A b \in Actor \ {a} : Accepts(b) => call[b].client # c.client,
         c.op = "read" => handle[c.fd] \in {"connected", "closing", "freed"}
  PROVE  HInv'
<1>1. HandleTypes'
  BY DEF HInv, HandleTypes
<1>2. \A b \in Actor : call'[b] = IF b = a THEN c ELSE call[b]
  BY DEF WInv, QueueTypes
<1>3. CallHandles'
  BY <1>2 DEF HInv, CallHandles, Accepts, Reads
<1>4. \A f \in Fd : Pending(f)'
  BY DEF HInv, Pending
<1> QED BY <1>1, <1>3, <1>4 DEF HInv

LEMMA ReturnCalls ==
  ASSUME WInv, NEW a \in Actor, Returns(a)
  PROVE  \A b \in Actor : call'[b] = IF b = a THEN NoCall ELSE call[b]
BY DEF WInv, QueueTypes, Returns

LEMMA HReturns ==
  ASSUME WInv, HInv, NEW a \in Actor, Returns(a), UNCHANGED <<handle, accepted, reading, wreqs>>
  PROVE  HInv'
<1>1. \A b \in Actor : call'[b] = call[b] \/ call'[b].op \notin {"accept", "read"}
  BY ReturnCalls DEF NoCall
<1> QED BY <1>1, HFrame

\* The call of an accept has the descriptor of a server and a new one for itself.
GoodAccept(a, c) ==
  /\ c \in CallOf("accept")
  /\ c.client \in Fd /\ handle[c.client] = "tcp"
  /\ handle[c.fd] \in {"listening", "closing", "freed"}
  /\ \A b \in Actor \ {a} : Accepts(b) => call[b].client # c.client

LEMMA HAccept ==
  ASSUME WInv, HInv, NEW a \in Actor, NEW c, GoodAccept(a, c), AcceptLoop(a, c)
  PROVE  HInv'
<1> DEFINE f == c.fd  g == c.client
<1>1. c \in CallType /\ c.op = "accept" /\ f \in Fd /\ g \in Fd
  BY DEF GoodAccept, CallOf, CallType
<1>2. CASE Blocks(a, c) /\ UNCHANGED <<handle, uv>>
  BY <1>1, <1>2, HBlocks DEF Blocks, GoodAccept, uv
<1>3. CASE /\ accepted[f] /\ accepted' = [accepted EXCEPT ![f] = FALSE]
           /\ handle' = [handle EXCEPT ![g] = "connected"] \/ UNCHANGED handle
           /\ Returns(a) /\ UNCHANGED <<reading, wreqs>>
  <2>1. \A b \in Actor : call'[b] = IF b = a THEN NoCall ELSE call[b]
    BY <1>3, ReturnCalls
  <2>2. /\ \A h \in Fd : accepted'[h] => accepted[h]
        /\ \A h \in Fd : h # g => handle'[h] = handle[h]
        /\ handle'[g] \in {"tcp", "connected"} /\ handle[g] = "tcp"
    BY <1>1, <1>3 DEF HInv, HandleTypes, GoodAccept
  <2>3. HandleTypes'
    BY <1>1, <1>3 DEF HInv, HandleTypes, HandleState
  <2>4. \A b \in Actor : Accepts(b)' => b # a /\ Accepts(b) /\ call'[b] = call[b]
    BY <2>1 DEF Accepts, NoCall
  <2>5. \A b \in Actor : Reads(b)' => b # a /\ Reads(b) /\ call'[b] = call[b]
    BY <2>1 DEF Reads, NoCall
  <2>6. \A b \in Actor : call[b].op \in {"accept", "read"} => call[b].fd \in Fd
    BY DEF WInv, QueueTypes, CallType, CallOf, NoCall
  <2>7. CallHandles'
    BY <2>2, <2>4, <2>5, <2>6 DEF HInv, CallHandles, GoodAccept, Accepts, Reads
  <2>8. \A h \in Fd : Pending(h)'
    BY <1>3, <2>2 DEF HInv, Pending
  <2> QED BY <2>3, <2>7, <2>8 DEF HInv
<1> QED BY <1>2, <1>3 DEF AcceptLoop

LEMMA ResumedAccept ==
  ASSUME WInv, HInv, NEW a \in Actor, Resumed(a, "accept")
  PROVE  GoodAccept(a, call[a])
<1>1. Accepts(a) /\ call[a] \in CallOf("accept")
  BY CallsTyped DEF Resumed, Accepts
<1> QED BY <1>1 DEF HInv, CallHandles, GoodAccept

LEMMA EnteredAccept ==
  ASSUME WInv, HInv, NEW a \in Actor, NEW f \in Fd, NEW g \in Fd, sherry_accept(a, f, g)
  PROVE  GoodAccept(a, [op |-> "accept", fd |-> f, client |-> g, count |-> 0])
BY DEF sherry_accept, GoodAccept, CallOf

\* The call of a read has the descriptor of a connection.
GoodRead(c) == c \in CallOf("read") /\ handle[c.fd] \in {"connected", "closing", "freed"}

LEMMA ResumedRead ==
  ASSUME WInv, HInv, NEW a \in Actor, Resumed(a, "read")
  PROVE  GoodRead(call[a])
<1>1. Reads(a) /\ call[a] \in CallOf("read")
  BY CallsTyped DEF Resumed, Reads
<1> QED BY <1>1 DEF HInv, CallHandles, GoodRead

LEMMA HRead ==
  ASSUME WInv, HInv, NEW a \in Actor, NEW c, GoodRead(c), ReadLoop(a, c),
         UNCHANGED <<handle, accepted, wreqs>>,
         reading' \in {reading, [reading EXCEPT ![c.fd] = TRUE]},
         reading' = reading \/ handle[c.fd] = "connected"
  PROVE  HInv'
<1>1. c \in CallType /\ c.op = "read" /\ c.fd \in Fd
  BY DEF GoodRead, CallOf, CallType
<1>2. HandleTypes'
  BY <1>1 DEF HInv, HandleTypes
<1>3. \A f \in Fd : Pending(f)'
  BY <1>1 DEF HInv, Pending, HandleTypes
<1>4. CallHandles'
  <2>1. CASE Returns(a)
    BY <2>1, ReturnCalls DEF HInv, CallHandles, Accepts, Reads, NoCall
  <2>2. CASE Blocks(a, c)
    <3>1. \A b \in Actor : call'[b] = IF b = a THEN c ELSE call[b]
      BY <2>2 DEF Blocks, WInv, QueueTypes
    <3> QED BY <1>1, <3>1 DEF HInv, CallHandles, Accepts, Reads, GoodRead
  <2> QED BY <2>1, <2>2 DEF ReadLoop
<1> QED BY <1>2, <1>3, <1>4 DEF HInv

\* What becomes of a handle when a descriptor is made, listens or is closed.
LEMMA HMoves ==
  ASSUME WInv, HInv, NEW a, NEW f \in Fd,
         sherry_fd_tcp(a, f) \/ sherry_listen(a, f) \/ sherry_fd_close(a, f) \/ close_cb(f)
  PROVE  HInv'
<1>1. call' = call /\ wreqs' = wreqs
  BY DEF sherry_fd_tcp, sherry_listen, sherry_fd_close, close_cb, uv
<1>2. /\ \A h \in Fd : h # f => handle'[h] = handle[h]
      /\ \A h \in Fd : (accepted'[h] => accepted[h]) /\ (reading'[h] => reading[h])
      /\ HandleTypes'
  BY DEF sherry_fd_tcp, sherry_listen, sherry_fd_close, close_cb, uv, HInv, HandleTypes, HandleState, Open
<1>3. \/ handle[f] = "none" /\ handle'[f] = "tcp"
      \/ handle[f] = "tcp" /\ handle'[f] = "listening" /\ \A b \in Actor : call[b].client # f
      \/ /\ Open(f) /\ handle'[f] = "closing" /\ ~accepted'[f] /\ ~reading'[f]
         /\ \A b \in Actor : call[b].client # f
      \/ handle[f] = "closing" /\ handle'[f] = "freed" /\ wreqs[f] = <<>>
  BY DEF sherry_fd_tcp, sherry_listen, sherry_fd_close, close_cb, HInv, HandleTypes
<1>4. \A b \in Actor : Accepts(b) \/ Reads(b) => call[b].fd \in Fd
  BY DEF WInv, QueueTypes, CallType, CallOf, NoCall, Accepts, Reads
<1>5. CallHandles'
  BY <1>1, <1>2, <1>3, <1>4 DEF HInv, CallHandles, Accepts, Reads, Open
<1>6. \A h \in Fd : Pending(h)'
  BY <1>1, <1>2, <1>3 DEF HInv, Pending, Open
<1> QED BY <1>2, <1>5, <1>6 DEF HInv

LEMMA HWrite ==
  ASSUME WInv, HInv, NEW a \in Actor, NEW f \in Fd, sherry_write(a, f)
  PROVE  HInv'
<1> DEFINE c == [op |-> "write", fd |-> f, client |-> Null, count |-> 0]
<1>1. /\ handle[f] = "connected" /\ UNCHANGED <<handle, accepted, reading>>
      /\ wreqs' = [wreqs EXCEPT ![f] = Append(@, a)]
      /\ call' = [call EXCEPT ![a] = c]
  BY DEF sherry_write, fds
<1>2. \A b \in Actor : call'[b] = IF b = a THEN c ELSE call[b]
  BY <1>1 DEF WInv, QueueTypes
<1>3. \A h \in Fd : h # f => wreqs'[h] = wreqs[h]
  BY <1>1 DEF WInv, QueueTypes
<1>4. CallHandles'
  BY <1>1, <1>2 DEF HInv, CallHandles, Accepts, Reads
<1>5. \A h \in Fd : Pending(h)'
  BY <1>1, <1>3 DEF HInv, Pending
<1> QED BY <1>1, <1>4, <1>5 DEF HInv, HandleTypes

LEMMA HCall ==
  ASSUME WInv, HInv, NEW a \in Actor, NetCall(a)
  PROVE  HInv'
<1>1. ASSUME NEW f \in Fd, NEW g \in Fd, sherry_accept(a, f, g)  PROVE HInv'
  BY <1>1, EnteredAccept, HAccept DEF sherry_accept
<1>2. ASSUME AcceptResume(a)  PROVE HInv'
  BY <1>2, ResumedAccept, HAccept DEF AcceptResume
<1>3. ASSUME NEW f \in Fd, NEW count \in 1..MaxCount, ReadStarted(a, f, count)  PROVE HInv'
  <2> DEFINE c == [op |-> "read", fd |-> f, client |-> Null, count |-> count]
  <2>1. GoodRead(c) /\ handle[c.fd] = "connected"
    BY <1>3, NetAssumption DEF ReadStarted, GoodRead, CallOf
  <2>2. /\ ReadLoop(a, c) /\ UNCHANGED handle /\ UNCHANGED accepted /\ UNCHANGED wreqs
        /\ reading' = [reading EXCEPT ![c.fd] = TRUE]
    BY <1>3 DEF ReadStarted
  <2> HIDE DEF c
  <2> QED BY <2>1, <2>2, HRead
<1>4. ASSUME ReadResume(a)  PROVE HInv'
  <2> DEFINE c == call[a]
  <2>1. GoodRead(c) /\ ReadLoop(a, c)
    BY <1>4, ResumedRead DEF ReadResume
  <2>2. UNCHANGED handle /\ UNCHANGED accepted /\ UNCHANGED wreqs /\ UNCHANGED reading
    BY <1>4 DEF ReadResume, uv
  <2> HIDE DEF c
  <2> QED BY <2>1, <2>2, HRead
<1>5. ASSUME WriteResume(a)  PROVE HInv'
  BY <1>5, HReturns DEF WriteResume, fds, uv
<1>6. ASSUME NEW f \in Fd, sherry_fd_tcp(a, f) \/ sherry_listen(a, f) \/ sherry_fd_close(a, f)
      PROVE  HInv'
  BY <1>6, HMoves
<1>7. ASSUME NEW f \in Fd, ReadRefused(a, f)  PROVE HInv'
  BY <1>7, HFrame DEF ReadRefused, netvars, fds, uv
<1> QED BY <1>1, <1>2, <1>3, <1>4, <1>5, <1>6, <1>7, HWrite DEF NetCall, sherry_read

LEMMA HCallback ==
  ASSUME WInv, HInv, NEW f \in Fd, NetCallback(f)
  PROVE  HInv'
<1>1. ASSUME listen_cb(f)  PROVE HInv'
  <2>1. UNCHANGED <<handle, reading, wreqs, call>>
    BY <1>1 DEF listen_cb
  <2>2. handle[f] = "listening" /\ accepted' \in {accepted, [accepted EXCEPT ![f] = TRUE]}
    BY <1>1 DEF listen_cb
  <2>3. accepted' \in [Fd -> BOOLEAN] /\ \A h \in Fd : h # f => accepted'[h] = accepted[h]
    BY <2>2 DEF HInv, HandleTypes
  <2> QED BY <2>1, <2>2, <2>3 DEF HInv, HandleTypes, CallHandles, Accepts, Reads, Pending
<1>2. ASSUME NEW nread \in 1..BufSize, read_cb(f, nread)  PROVE HInv'
  BY <1>2, HFrame DEF read_cb
<1>3. ASSUME NEW nread \in {"ok", "eof", "err"}, read_cbNothing(f, nread)  PROVE HInv'
  <2>1. UNCHANGED <<handle, accepted, wreqs, call>>
    BY <1>3 DEF read_cbNothing
  <2>2. reading[f] /\ reading' = [reading EXCEPT ![f] = nread = "ok"]
    BY <1>3 DEF read_cbNothing
  <2>3. reading' \in [Fd -> BOOLEAN] /\ \A h \in Fd : reading'[h] => reading[h]
    BY <2>2 DEF HInv, HandleTypes
  <2> QED BY <2>1, <2>3 DEF HInv, HandleTypes, CallHandles, Accepts, Reads, Pending
<1>4. ASSUME write_cb(f)  PROVE HInv'
  <2>1. UNCHANGED <<handle, accepted, reading, call>> /\ wreqs[f] # <<>>
    BY <1>4 DEF write_cb, fds
  <2>2. \A h \in Fd : wreqs'[h] # <<>> => wreqs[h] # <<>>
    BY <1>4, <2>1 DEF write_cb, WInv, QueueTypes
  <2> QED BY <2>1, <2>2, HFrame
<1>5. ASSUME close_cb(f)  PROVE HInv'
  BY <1>5, HMoves
<1> QED BY <1>1, <1>2, <1>3, <1>4, <1>5 DEF NetCallback

LEMMA HStep ==
  ASSUME WInv, HInv, [NetNext]_nvars
  PROVE  HInv'
<1>1. CASE CoreStep /\ UNCHANGED netvars
  BY <1>1, HFrame DEF netvars, fds, uv
<1>2. CASE UNCHANGED nvars
  BY <1>2, HFrame DEF nvars, netvars, fds, uv
<1> QED BY <1>1, <1>2, HCall, HCallback DEF NetNext

-----------------------------------------------------------------------------
(* Woken actors *)

\* An actor that goes on with its descriptor when it gets the thread.
Woken(a) == at[a] = "io" /\ status[a] \in {"ready", "running"} /\ call[a].op # "write"

InCall == \A a \in Actor : at[a] = "io" => call[a].op # "none"

\* Nobody is ready when uv_run begins, and a handle whose callback wakes somebody
\* is not closing: close_cb never frees the descriptor of a woken actor.
WokenHere == ctl = "uv_run" =>
  \A a \in Actor : Woken(a) => handle[call[a].fd] \in {"listening", "connected"}

WokenOpen == \A a \in Actor : Woken(a) => handle[call[a].fd] # "freed"

UInv == InCall /\ WokenHere /\ WokenOpen

LEMMA UInit == NetInit => UInv
BY DEF NetInit, Init, UInv, InCall, WokenHere, WokenOpen, Woken

LEMMA InCallFd ==
  ASSUME WInv, UInv, NEW a \in Actor, at[a] = "io"
  PROVE  call[a].fd \in Fd
BY DEF WInv, QueueTypes, CallType, CallOf, NoCall, UInv, InCall

\* Nobody new is woken and nothing is freed.
LEMMA UKeeps ==
  ASSUME WInv, UInv, InCall', ctl' # "uv_run",
         \A b \in Actor : Woken(b)' => Woken(b) /\ call'[b] = call[b],
         \A f \in Fd : handle'[f] = "freed" => handle[f] = "freed"
  PROVE  UInv'
<1>1. WokenOpen'
  BY InCallFd DEF UInv, WokenOpen, Woken
<1>2. WokenHere'
  BY DEF WokenHere
<1> QED BY <1>1, <1>2 DEF UInv

LEMMA UBlocks ==
  ASSUME IInv, WInv, UInv, NEW a \in Actor, NEW c \in CallType, c.op # "none",
         block_fd(a), call' = [call EXCEPT ![a] = c],
         \A f \in Fd : handle'[f] = "freed" => handle[f] = "freed"
  PROVE  UInv'
<1>1. \A b \in Actor : call'[b] = IF b = a THEN c ELSE call[b]
  BY DEF WInv, QueueTypes
<1>2. ctl' = "schdule"
  BY DEF block_fd, yield
<1>3. \A b \in Actor : /\ at'[b] = IF b = a THEN "io" ELSE at[b]
                       /\ status'[b] = IF b = a THEN "wait_ev" ELSE status[b]
  BY DEF block_fd, IInv, TypeOK
<1>4. InCall'
  BY <1>1, <1>3 DEF UInv, InCall
<1>5. \A b \in Actor : Woken(b)' => Woken(b) /\ call'[b] = call[b]
  BY <1>1, <1>3 DEF Woken
<1> QED BY <1>2, <1>4, <1>5, UKeeps

LEMMA UReturns ==
  ASSUME IInv, WInv, UInv, NEW a \in Actor, Returns(a),
         \A f \in Fd : handle'[f] = "freed" => handle[f] = "freed"
  PROVE  UInv'
<1>1. \A b \in Actor : call'[b] = IF b = a THEN NoCall ELSE call[b]
  BY ReturnCalls
<1>2. ctl = "actor" /\ ctl' = ctl /\ status' = status
  BY DEF Returns, IoReturn, InActor, vars, queues
<1>3. \A b \in Actor : at'[b] = IF b = a THEN "fn" ELSE at[b]
  BY DEF Returns, IoReturn, InActor, vars, IInv, TypeOK
<1>4. InCall'
  BY <1>1, <1>3 DEF UInv, InCall
<1>5. \A b \in Actor : Woken(b)' => Woken(b) /\ call'[b] = call[b]
  BY <1>1, <1>2, <1>3 DEF Woken
<1> QED BY <1>2, <1>4, <1>5, UKeeps

\* An actor inside a call is ready, running or blocked.
LEMMA InCallStatus ==
  ASSUME IInv, NEW a \in Actor, at[a] = "io"
  PROVE  \/ status[a] = "ready"
         \/ status[a] = "running" /\ ctl \in {"actor", "crashed"}
         \/ Blocked(a)
BY DEF IInv, NobodyStranded, Live, Blocked

\* The core takes nobody into a call on a descriptor.
LEMMA CoreKeepsAt ==
  ASSUME IInv, CoreStep
  PROVE  \A b \in Actor : at'[b] = "io" => at[b] = "io"
<1>1. at \in [Actor -> Place]
  BY DEF IInv, TypeOK
<1>2. ASSUME NEW a \in Actor, CoreCall(a)
      PROVE  \A b \in Actor : at'[b] = "io" => at[b] = "io"
  BY <1>1, <1>2 DEF CoreCall, sherry_spawn, sherry_yield, sherry_msg_send, SendToExited, sherry_msg_recv,
       RecvBlock, RecvResume, sherry_main, ExitYield, sherry_exit
<1> QED BY <1>1, <1>2 DEF CoreStep, sherry_init, schdule, uv_run, UvReturn

\* uv_run is called when nobody is ready.
LEMMA LoopFindsBlocked ==
  ASSUME IInv, CoreStep, ctl' = "uv_run"
  PROVE  \A b \in Actor : at[b] = "io" => Blocked(b)
<1>1. uv_run
  BY DEF CoreStep, sherry_init, schdule, uv_run, UvReturn, CoreCall, InActor, sherry_spawn, sherry_yield, yield,
       sherry_msg_send, SendToExited, sherry_msg_recv, RecvBlock, RecvResume, sherry_main, ExitYield, sherry_exit
<1>2. Range(readyq) = {}
  BY <1>1 DEF uv_run, Range
<1>3. \A b \in Actor : status[b] # "ready"
  BY <1>2 DEF IInv, OneQueuePerNode
<1> QED BY <1>1, <1>3, InCallStatus DEF uv_run

LEMMA UCore ==
  ASSUME IInv, WInv, UInv, CoreStep, UNCHANGED netvars
  PROVE  UInv'
<1>1. UNCHANGED <<handle, call>>
  BY DEF netvars, fds
<1>2. \A b \in Actor : Woken(b)' => Woken(b)
  BY <1>1, CoreKeepsAt, CoreKeepsBlocked, InCallStatus DEF Woken, Blocked
<1>3. InCall'
  BY <1>1, CoreKeepsAt DEF UInv, InCall
<1>4. CASE ctl' = "uv_run"
  <2>1. \A b \in Actor : ~Woken(b)
    BY <1>4, LoopFindsBlocked DEF Woken, Blocked
  <2> QED BY <1>2, <1>3, <2>1 DEF UInv, WokenHere, WokenOpen
<1>5. CASE ctl' # "uv_run"
  BY <1>1, <1>2, <1>3, <1>5, UKeeps
<1> QED BY <1>4, <1>5

LEMMA UCall ==
  ASSUME IInv, WInv, HInv, UInv, NEW a \in Actor, NetCall(a)
  PROVE  UInv'
<1>1. ASSUME NEW c \in CallOf("accept"), AcceptLoop(a, c)  PROVE UInv'
  <2>1. \A f \in Fd : handle'[f] = "freed" => handle[f] = "freed"
    BY <1>1 DEF AcceptLoop, HInv, HandleTypes
  <2>2. c \in CallType /\ c.op # "none"
    BY DEF CallType, CallOf
  <2> QED BY <1>1, <2>1, <2>2, UBlocks, UReturns DEF AcceptLoop, Blocks
<1>2. ASSUME NEW c \in CallOf("read"), ReadLoop(a, c), UNCHANGED handle  PROVE UInv'
  <2>1. c \in CallType /\ c.op # "none"
    BY DEF CallType, CallOf
  <2> QED BY <1>2, <2>1, UBlocks, UReturns DEF ReadLoop, Blocks
<1>3. ASSUME NEW f \in Fd, NEW g \in Fd, sherry_accept(a, f, g)  PROVE UInv'
  BY <1>1, <1>3, EnteredAccept DEF sherry_accept, GoodAccept
<1>4. ASSUME AcceptResume(a)  PROVE UInv'
  BY <1>1, <1>4, CallsTyped DEF AcceptResume
<1>5. ASSUME NEW f \in Fd, NEW count \in 1..MaxCount, ReadStarted(a, f, count)  PROVE UInv'
  <2>1. [op |-> "read", fd |-> f, client |-> Null, count |-> count] \in CallOf("read")
    BY NetAssumption DEF CallOf
  <2> QED BY <1>2, <1>5, <2>1 DEF ReadStarted
<1>6. ASSUME ReadResume(a)  PROVE UInv'
  BY <1>2, <1>6, CallsTyped DEF ReadResume
<1>7. ASSUME WriteResume(a)  PROVE UInv'
  BY <1>7, UReturns DEF WriteResume, fds
<1>8. ASSUME NEW f \in Fd, sherry_write(a, f)  PROVE UInv'
  <2> DEFINE c == [op |-> "write", fd |-> f, client |-> Null, count |-> 0]
  <2>1. c \in CallType /\ c.op # "none"
    BY DEF CallType, CallOf
  <2>2. block_fd(a) /\ call' = [call EXCEPT ![a] = c] /\ UNCHANGED handle
    BY <1>8 DEF sherry_write, fds
  <2> HIDE DEF c
  <2> QED BY <2>1, <2>2, UBlocks
<1>9. ASSUME NEW f \in Fd, sherry_fd_tcp(a, f) \/ sherry_listen(a, f) \/ sherry_fd_close(a, f)
      PROVE  UInv'
  <2>1. UNCHANGED <<vars, call>> /\ ctl = "actor"
    BY <1>9 DEF sherry_fd_tcp, sherry_listen, sherry_fd_close, InActor
  <2>2. \A h \in Fd : handle'[h] = "freed" => handle[h] = "freed"
    BY <1>9 DEF sherry_fd_tcp, sherry_listen, sherry_fd_close, HInv, HandleTypes
  <2>3. InCall' /\ ctl' # "uv_run" /\ \A b \in Actor : Woken(b)' => Woken(b) /\ call'[b] = call[b]
    BY <2>1 DEF vars, queues, UInv, InCall, Woken
  <2> QED BY <2>2, <2>3, UKeeps
<1>10. ASSUME NEW f \in Fd, ReadRefused(a, f)  PROVE UInv'
  <2>1. UNCHANGED <<vars, netvars>>
    BY <1>10 DEF ReadRefused
  <2> QED BY <2>1 DEF netvars, fds, vars, queues, UInv, InCall, WokenHere, WokenOpen, Woken
<1> QED BY <1>3, <1>4, <1>5, <1>6, <1>7, <1>8, <1>9, <1>10 DEF NetCall, sherry_read

\* The waiters of a handle that calls back go on with that handle.
LEMMA UWake ==
  ASSUME WInv, UInv, NEW f \in Fd, WakeReaders(f), UNCHANGED <<handle, call>>,
         handle[f] \in {"listening", "connected"}
  PROVE  UInv'
<1>1. ctl = "uv_run" /\ UNCHANGED <<ctl, at>>
  BY DEF WakeReaders, Callback, vars
<1>2. \A b \in Actor : Woken(b)' => Woken(b) \/ call[b].fd = f
  <2>1. CASE waitq[f] = <<>>
    BY <2>1 DEF WakeReaders, vars, queues, Woken
  <2>2. CASE waitq[f] # <<>>
    <3>1. \A b \in Actor : status'[b] = IF b \in Range(waitq[f]) THEN "ready" ELSE status[b]
      BY <2>2 DEF WakeReaders, Callback, unblock_all
    <3>2. \A b \in Actor : b \in Range(waitq[f]) => call[b].fd = f
      BY DEF WInv, WaitersLinkedOnce
    <3> QED BY <1>1, <3>1, <3>2 DEF Woken
  <2> QED BY <2>1, <2>2
<1> QED BY <1>1, <1>2 DEF UInv, InCall, WokenHere, WokenOpen, Woken

LEMMA UWriteCb ==
  ASSUME IInv, WInv, UInv, NEW f \in Fd, write_cb(f)
  PROVE  UInv'
<1> DEFINE a == Head(wreqs[f])
<1>1. a \in Actor /\ call[a].op = "write"
  BY HeadWriter DEF write_cb, Writer
<1>2. UNCHANGED <<handle, call, at>> /\ ctl = "uv_run"
  BY DEF write_cb, fds, Callback, CallbackAborts
<1>3. \A b \in Actor : b # a => status'[b] = status[b]
  <2>1. CASE Callback(<<a>>)
    <3>1. Range(<<a>>) = {a}
      BY DEF Range
    <3> QED BY <2>1, <3>1 DEF Callback, unblock_all
  <2>2. CASE CallbackAborts(a)
    BY <2>2 DEF CallbackAborts, setready, IInv, TypeOK
  <2> QED BY <2>1, <2>2 DEF write_cb
<1> HIDE DEF a
<1>4. \A b \in Actor : Woken(b)' => Woken(b)
  BY <1>1, <1>2, <1>3 DEF Woken
<1> QED BY <1>2, <1>4 DEF UInv, InCall, WokenHere, WokenOpen

LEMMA UCallback ==
  ASSUME IInv, WInv, HInv, UInv, NEW f \in Fd, NetCallback(f)
  PROVE  UInv'
<1>1. ASSUME listen_cb(f)  PROVE UInv'
  BY <1>1, UWake DEF listen_cb
<1>2. ASSUME NEW nread \in 1..BufSize, read_cb(f, nread)  PROVE UInv'
  BY <1>2, UWake DEF read_cb, HInv, Pending
<1>3. ASSUME NEW nread \in {"ok", "eof", "err"}, read_cbNothing(f, nread)  PROVE UInv'
  BY <1>3 DEF read_cbNothing, vars, queues, UInv, InCall, WokenHere, WokenOpen, Woken
<1>4. ASSUME close_cb(f)  PROVE UInv'
  <2>1. ctl = "uv_run" /\ handle[f] = "closing" /\ UNCHANGED <<vars, call>>
    BY <1>4 DEF close_cb
  <2>2. \A h \in Fd : h # f => handle'[h] = handle[h]
    BY <1>4 DEF close_cb, HInv, HandleTypes
  <2>3. \A b \in Actor : Woken(b)' => Woken(b) /\ call[b].fd \in Fd \ {f}
    BY <2>1, InCallFd DEF vars, queues, Woken, UInv, WokenHere
  <2> QED BY <2>1, <2>2, <2>3 DEF vars, queues, UInv, InCall, WokenHere, WokenOpen
<1> QED BY <1>1, <1>2, <1>3, <1>4, UWriteCb DEF NetCallback

LEMMA UStep ==
  ASSUME IInv, WInv, HInv, UInv, [NetNext]_nvars
  PROVE  UInv'
<1>1. CASE CoreStep /\ UNCHANGED netvars
  BY <1>1, UCore
<1>2. CASE UNCHANGED nvars
  BY <1>2 DEF nvars, netvars, fds, vars, queues, UInv, InCall, WokenHere, WokenOpen, Woken
<1> QED BY <1>1, <1>2, UCall, UCallback DEF NetNext

-----------------------------------------------------------------------------
(* Missed events *)

\* A descriptor that has never been read: a server, or one that is none yet.  An
\* accept may outlive the handle of its server.
Unconnected(f) ==
  \/ handle[f] \in {"none", "tcp", "listening"}
  \/ \E a \in Actor : Accepts(a) /\ call[a].fd = f

NothingYet == \A f \in Fd : Unconnected(f) => Unread(f) = <<>>

MInv ==
  /\ DOMAIN rbuf = Fd /\ DOMAIN roffset = Fd
  /\ NothingYet /\ AcceptNotMissed /\ ReadNotMissed

LEMMA MInit == NetInit => MInv
BY DEF NetInit, MInv, NothingYet, AcceptNotMissed, ReadNotMissed, Unread

\* Nobody begins to wait and nothing arrives.
LEMMA MKeeps ==
  ASSUME MInv, UNCHANGED <<rbuf, roffset>>,
         \A f \in Fd : waitq'[f] # <<>> => waitq[f] # <<>>,
         \A f \in Fd : accepted'[f] => accepted[f],
         \A f \in Fd : Unconnected(f)' => Unconnected(f)
  PROVE  MInv'
<1>1. \A f \in Fd : Unread(f)' = Unread(f)
  BY DEF Unread
<1> QED BY <1>1 DEF MInv, NothingYet, AcceptNotMissed, ReadNotMissed

\* An actor begins to wait on a descriptor that has nothing for it.
LEMMA MBlocks ==
  ASSUME WInv, MInv, NEW a \in Actor, NEW c \in CallType, c.fd \in Fd, Blocks(a, c),
         UNCHANGED <<handle, accepted, rbuf, roffset>>,
         ~accepted[c.fd], Unread(c.fd) = <<>>
  PROVE  MInv'
<1>1. \A f \in Fd : Unread(f)' = Unread(f)
  BY DEF Unread
<1>2. \A f \in Fd : f # c.fd => waitq'[f] = waitq[f]
  BY DEF Blocks, WInv, QueueTypes
<1>3. \A b \in Actor : call'[b] = IF b = a THEN c ELSE call[b]
  BY DEF Blocks, WInv, QueueTypes
<1>4. \A f \in Fd : f # c.fd => (Unconnected(f)' => Unconnected(f))
  BY <1>3 DEF Unconnected, Accepts
<1> QED BY <1>1, <1>2, <1>4 DEF MInv, NothingYet, AcceptNotMissed, ReadNotMissed

LEMMA MReturns ==
  ASSUME WInv, NEW a \in Actor, Returns(a), UNCHANGED handle, NEW f \in Fd, Unconnected(f)'
  PROVE  Unconnected(f)
BY ReturnCalls DEF Unconnected, Accepts, NoCall

LEMMA MAccept ==
  ASSUME WInv, HInv, MInv, NEW a \in Actor, NEW c, GoodAccept(a, c), AcceptLoop(a, c),
         handle[c.fd] = "listening" \/ (Accepts(a) /\ call[a].fd = c.fd)
  PROVE  MInv'
<1>1. c \in CallType /\ c.fd \in Fd /\ c.client \in Fd
  BY DEF GoodAccept, CallOf, CallType
<1>2. CASE ~accepted[c.fd] /\ Blocks(a, c) /\ UNCHANGED <<handle, rbuf, roffset, uv>>
  <2>1. Unread(c.fd) = <<>>
    BY <1>1 DEF MInv, NothingYet, Unconnected
  <2> QED BY <1>1, <1>2, <2>1, MBlocks DEF uv
<1>3. CASE /\ accepted' = [accepted EXCEPT ![c.fd] = FALSE]
           /\ handle' = [handle EXCEPT ![c.client] = "connected"] \/ UNCHANGED handle
           /\ Returns(a) /\ UNCHANGED <<waitq, rbuf, roffset>>
  <2>1. \A f \in Fd : accepted'[f] => accepted[f]
    BY <1>1, <1>3 DEF HInv, HandleTypes
  <2>2. \A f \in Fd : handle'[f] = handle[f] \/ handle'[f] = "connected"
    BY <1>1, <1>3 DEF HInv, HandleTypes
  <2>3. \A b \in Actor : Accepts(b)' => Accepts(b) /\ call'[b] = call[b]
    BY <1>3, ReturnCalls DEF Accepts, NoCall
  <2>4. \A f \in Fd : Unconnected(f)' => Unconnected(f)
    BY <2>2, <2>3 DEF Unconnected
  <2> QED BY <1>3, <2>1, <2>4, MKeeps
<1> QED BY <1>2, <1>3 DEF AcceptLoop

LEMMA MRead ==
  ASSUME WInv, HInv, MInv, NEW a \in Actor, NEW c, GoodRead(c), ReadLoop(a, c),
         UNCHANGED <<handle, accepted, rbuf>>
  PROVE  MInv'
<1>1. c \in CallType /\ c.fd \in Fd
  BY DEF GoodRead, CallOf, CallType
<1>2. CASE Returns(a) /\ UNCHANGED <<waitq, roffset>>
  <2>1. \A f \in Fd : Unconnected(f)' => Unconnected(f)
    BY <1>2, MReturns
  <2> QED BY <1>2, <2>1, MKeeps
<1>3. CASE Unread(c.fd) # <<>> /\ CopyOut(c.fd, c.count) /\ Returns(a) /\ UNCHANGED waitq
  <2>1. \A f \in Fd : Unconnected(f)' => Unconnected(f)
    BY <1>3, MReturns
  <2>2. DOMAIN roffset' = Fd /\ \A f \in Fd : f # c.fd => roffset'[f] = roffset[f]
    BY <1>3 DEF CopyOut, MInv
  <2>3. \A f \in Fd : f # c.fd => Unread(f)' = Unread(f)
    BY <2>2 DEF Unread
  <2> QED BY <1>3, <2>1, <2>2, <2>3 DEF MInv, NothingYet, AcceptNotMissed, ReadNotMissed
<1>4. CASE Unread(c.fd) = <<>> /\ Blocks(a, c) /\ UNCHANGED roffset
  <2>1. ~accepted[c.fd]
    BY <1>1 DEF GoodRead, HInv, Pending
  <2> QED BY <1>1, <1>4, <2>1, MBlocks
<1> QED BY <1>2, <1>3, <1>4 DEF ReadLoop

\* A descriptor does not become unconnected again.
LEMMA MMoves ==
  ASSUME HInv, MInv, NEW a, NEW f \in Fd,
         sherry_fd_tcp(a, f) \/ sherry_listen(a, f) \/ sherry_fd_close(a, f) \/ close_cb(f)
  PROVE  MInv'
<1>1. UNCHANGED <<rbuf, roffset, waitq, call>>
  BY DEF sherry_fd_tcp, sherry_listen, sherry_fd_close, close_cb
<1>2. \A h \in Fd : accepted'[h] => accepted[h]
  BY DEF sherry_fd_tcp, sherry_listen, sherry_fd_close, close_cb, uv, HInv, HandleTypes
<1>3. \A h \in Fd : \/ handle'[h] = handle[h]
                    \/ handle[h] \in {"none", "tcp"}
                    \/ handle'[h] \in {"closing", "freed"}
  BY DEF sherry_fd_tcp, sherry_listen, sherry_fd_close, close_cb, HInv, HandleTypes
<1>4. \A h \in Fd : Unconnected(h)' => Unconnected(h)
  BY <1>1, <1>3 DEF Unconnected, Accepts
<1> QED BY <1>1, <1>2, <1>4, MKeeps

LEMMA MCall ==
  ASSUME WInv, HInv, MInv, NEW a \in Actor, NetCall(a)
  PROVE  MInv'
<1>1. ASSUME NEW f \in Fd, NEW g \in Fd, sherry_accept(a, f, g)  PROVE MInv'
  <2> DEFINE c == [op |-> "accept", fd |-> f, client |-> g, count |-> 0]
  <2>1. GoodAccept(a, c) /\ AcceptLoop(a, c) /\ handle[c.fd] = "listening"
    BY <1>1, EnteredAccept DEF sherry_accept
  <2> HIDE DEF c
  <2> QED BY <2>1, MAccept
<1>2. ASSUME AcceptResume(a)  PROVE MInv'
  <2> DEFINE c == call[a]
  <2>1. GoodAccept(a, c) /\ AcceptLoop(a, c) /\ Accepts(a) /\ call[a].fd = c.fd
    BY <1>2, ResumedAccept DEF AcceptResume, Resumed, Accepts
  <2> HIDE DEF c
  <2> QED BY <2>1, MAccept
<1>3. ASSUME NEW f \in Fd, NEW count \in 1..MaxCount, ReadStarted(a, f, count)  PROVE MInv'
  <2> DEFINE c == [op |-> "read", fd |-> f, client |-> Null, count |-> count]
  <2>1. GoodRead(c) /\ ReadLoop(a, c) /\ UNCHANGED <<handle, accepted, rbuf>>
    BY <1>3, NetAssumption DEF ReadStarted, GoodRead, CallOf
  <2> HIDE DEF c
  <2> QED BY <2>1, MRead
<1>4. ASSUME ReadResume(a)  PROVE MInv'
  <2> DEFINE c == call[a]
  <2>1. GoodRead(c) /\ ReadLoop(a, c) /\ UNCHANGED <<handle, accepted, rbuf>>
    BY <1>4, ResumedRead DEF ReadResume, uv
  <2> HIDE DEF c
  <2> QED BY <2>1, MRead
<1>5. ASSUME WriteResume(a)  PROVE MInv'
  BY <1>5, MReturns, MKeeps DEF WriteResume, fds, uv
<1>6. ASSUME NEW f \in Fd, sherry_write(a, f)  PROVE MInv'
  <2>1. UNCHANGED <<handle, rbuf, roffset, waitq, accepted>>
    BY <1>6 DEF sherry_write, fds
  <2>2. \A b \in Actor : Accepts(b)' => Accepts(b) /\ call'[b] = call[b]
    BY <1>6 DEF sherry_write, WInv, QueueTypes, Accepts
  <2>3. \A h \in Fd : Unconnected(h)' => Unconnected(h)
    BY <2>1, <2>2 DEF Unconnected
  <2> QED BY <2>1, <2>3, MKeeps
<1>7. ASSUME NEW f \in Fd, sherry_fd_tcp(a, f) \/ sherry_listen(a, f) \/ sherry_fd_close(a, f)
      PROVE  MInv'
  BY <1>7, MMoves
<1>8. ASSUME NEW f \in Fd, ReadRefused(a, f)  PROVE MInv'
  BY <1>8, MKeeps DEF ReadRefused, netvars, fds, uv, Unconnected, Accepts
<1> QED BY <1>1, <1>2, <1>3, <1>4, <1>5, <1>6, <1>7, <1>8 DEF NetCall, sherry_read

LEMMA MCallback ==
  ASSUME WInv, HInv, MInv, NEW f \in Fd, NetCallback(f)
  PROVE  MInv'
<1>1. ASSUME listen_cb(f)  PROVE MInv'
  <2>1. UNCHANGED <<handle, call, rbuf, roffset>>
    BY <1>1 DEF listen_cb
  <2>2. \A h \in Fd : waitq'[h] = IF h = f THEN <<>> ELSE waitq[h]
    BY <1>1 DEF listen_cb, WakeReaders, WInv, QueueTypes
  <2>3. \A h \in Fd : h # f => accepted'[h] = accepted[h]
    BY <1>1 DEF listen_cb, HInv, HandleTypes
  <2>4. \A h \in Fd : Unread(h)' = Unread(h) /\ (Unconnected(h)' => Unconnected(h))
    BY <2>1 DEF Unread, Unconnected, Accepts
  <2> QED BY <2>1, <2>2, <2>3, <2>4 DEF MInv, NothingYet, AcceptNotMissed, ReadNotMissed
<1>2. ASSUME NEW nread \in 1..BufSize, read_cb(f, nread)  PROVE MInv'
  <2>1. UNCHANGED <<handle, call, accepted>> /\ reading[f]
    BY <1>2 DEF read_cb
  <2>2. \A h \in Fd : waitq'[h] = IF h = f THEN <<>> ELSE waitq[h]
    BY <1>2 DEF read_cb, WakeReaders, WInv, QueueTypes
  <2>3. ~Unconnected(f)
    BY <2>1 DEF HInv, Pending, CallHandles, Unconnected
  <2>4. /\ DOMAIN rbuf' = Fd /\ DOMAIN roffset' = Fd
        /\ \A h \in Fd : h # f => rbuf'[h] = rbuf[h] /\ roffset'[h] = roffset[h]
    BY <1>2 DEF read_cb, MInv
  <2>5. \A h \in Fd : h # f => Unread(h)' = Unread(h)
    BY <2>4 DEF Unread
  <2>6. \A h \in Fd : Unconnected(h)' => Unconnected(h)
    BY <2>1 DEF Unconnected, Accepts
  <2> QED BY <2>1, <2>2, <2>3, <2>4, <2>5, <2>6 DEF MInv, NothingYet, AcceptNotMissed, ReadNotMissed
<1>3. ASSUME UNCHANGED <<rbuf, roffset, waitq, accepted, handle, call>>  PROVE MInv'
  BY <1>3, MKeeps DEF Unconnected, Accepts
<1>4. ASSUME NEW nread \in {"ok", "eof", "err"}, read_cbNothing(f, nread)  PROVE MInv'
  BY <1>3, <1>4 DEF read_cbNothing
<1>5. ASSUME write_cb(f)  PROVE MInv'
  BY <1>3, <1>5 DEF write_cb, fds
<1>6. ASSUME close_cb(f)  PROVE MInv'
  BY <1>6, MMoves
<1> QED BY <1>1, <1>2, <1>4, <1>5, <1>6 DEF NetCallback

LEMMA MStep ==
  ASSUME WInv, HInv, MInv, [NetNext]_nvars
  PROVE  MInv'
<1>1. ASSUME UNCHANGED netvars  PROVE MInv'
  BY <1>1, MKeeps DEF netvars, fds, uv, Unconnected, Accepts
<1> QED BY <1>1, MCall, MCallback DEF NetNext, nvars

-----------------------------------------------------------------------------
(* Types *)

DataTypes ==
  /\ rbuf \in [Fd -> Seq(Nat)]
  /\ roffset \in [Fd -> Nat] /\ \A f \in Fd : roffset[f] <= Len(rbuf[f])
  /\ rerror \in [Fd -> {"ok", "eof", "err"}] /\ ended \in [Fd -> BOOLEAN]
  /\ sent \in [Fd -> Nat]
  /\ got \in [Fd -> Seq(Nat)]

LEMMA DataInit == NetInit => DataTypes
BY DEF NetInit, DataTypes

\* What lies in a buffer r from the offset o on, behind what has been returned.
LEMMA Rest ==
  ASSUME NEW r \in Seq(Nat), NEW o \in Nat, o <= Len(r)
  PROVE  /\ SubSeq(r, o + 1, Len(r)) \in Seq(Nat)
         /\ Len(SubSeq(r, o + 1, Len(r))) = Len(r) - o
         /\ \A i \in 1..(Len(r) - o) : SubSeq(r, o + 1, Len(r))[i] = r[o + i]
<1>1. Len(r) \in Nat /\ \A i \in 1..Len(r) : r[i] \in Nat
  BY LenProperties
<1>2. o + 1 \in Int /\ Len(r) \in Int /\ \A i \in (o + 1)..Len(r) : r[i] \in Nat
  BY <1>1
<1>3. /\ SubSeq(r, o + 1, Len(r)) \in Seq(Nat)
      /\ Len(SubSeq(r, o + 1, Len(r))) = IF o + 1 <= Len(r) THEN Len(r) - (o + 1) + 1 ELSE 0
      /\ \A i \in 1..(Len(r) - (o + 1) + 1) : SubSeq(r, o + 1, Len(r))[i] = r[(o + 1) + i - 1]
  BY <1>2, SubSeqProperties
<1>4. \A i \in Nat : (o + 1) + i - 1 = o + i
  OBVIOUS
<1> QED BY <1>1, <1>3, <1>4

LEMMA DataRead ==
  ASSUME DataTypes, NEW a \in Actor, NEW c \in CallOf("read"), ReadLoop(a, c),
         UNCHANGED <<rbuf, rerror, ended, sent>>
  PROVE  DataTypes'
<1> DEFINE f == c.fd
           left == Unread(f)
           nread == IF Len(left) > c.count THEN c.count ELSE Len(left)
<1>1. f \in Fd /\ c.count \in Nat
  BY DEF CallOf
<1>2. CASE UNCHANGED <<roffset, got>>
  BY <1>2 DEF DataTypes
<1>3. CASE CopyOut(f, c.count)
  <2>1. left \in Seq(Nat) /\ Len(left) = Len(rbuf[f]) - roffset[f]
    <3>1. rbuf[f] \in Seq(Nat) /\ roffset[f] \in Nat /\ roffset[f] <= Len(rbuf[f])
      BY <1>1 DEF DataTypes
    <3> QED BY <3>1, Rest DEF Unread
  <2>2. nread \in Nat /\ nread <= Len(left)
    BY <1>1, <2>1, LenProperties
  <2>3. SubSeq(left, 1, nread) \in Seq(Nat)
    BY <2>1, <2>2
  <2>4. /\ got' = [got EXCEPT ![f] = @ \o SubSeq(left, 1, nread)]
        /\ roffset' = [roffset EXCEPT ![f] = @ + nread]
    BY <1>3 DEF CopyOut
  <2> HIDE DEF left, nread
  <2>5. got' \in [Fd -> Seq(Nat)]
    BY <1>1, <2>3, <2>4 DEF DataTypes
  <2>6. roffset' \in [Fd -> Nat] /\ \A h \in Fd : roffset'[h] <= Len(rbuf[h])
    <3>1. /\ roffset \in [Fd -> Nat] /\ \A h \in Fd : roffset[h] <= Len(rbuf[h])
          /\ Len(rbuf[f]) \in Nat
      BY <1>1, LenProperties DEF DataTypes
    <3>2. roffset[f] + nread \in Nat /\ roffset[f] + nread <= Len(rbuf[f])
      BY <1>1, <2>1, <2>2, <3>1
    <3> HIDE DEF f
    <3> QED BY <1>1, <2>4, <3>1, <3>2
  <2> QED BY <2>5, <2>6 DEF DataTypes
<1> QED BY <1>2, <1>3 DEF ReadLoop

LEMMA DataStep ==
  ASSUME WInv, DataTypes, [NetNext]_nvars
  PROVE  DataTypes'
<1>1. ASSUME UNCHANGED <<rbuf, roffset, rerror, ended, sent, got>>  PROVE DataTypes'
  BY <1>1 DEF DataTypes
<1>2. ASSUME NEW a \in Actor, NetCall(a)  PROVE DataTypes'
  <2>1. ASSUME NEW f \in Fd, NEW count \in 1..MaxCount, ReadStarted(a, f, count)  PROVE DataTypes'
    <3> DEFINE c == [op |-> "read", fd |-> f, client |-> Null, count |-> count]
    <3>1. c \in CallOf("read") /\ ReadLoop(a, c) /\ UNCHANGED <<rbuf, rerror, ended, sent>>
      BY <1>1, <2>1, NetAssumption DEF ReadStarted, CallOf
    <3> HIDE DEF c
    <3> QED BY <3>1, DataRead
  <2>2. ASSUME ReadResume(a)  PROVE DataTypes'
    BY <2>2, CallsTyped, DataRead DEF ReadResume, uv
  <2>3. ASSUME NEW c, AcceptLoop(a, c)  PROVE DataTypes'
    BY <1>1, <2>3 DEF AcceptLoop, uv
  <2> QED BY <1>1, <1>2, <2>1, <2>2, <2>3
          DEF NetCall, sherry_fd_tcp, sherry_listen, sherry_fd_close, sherry_accept, AcceptResume,
              sherry_read, ReadRefused, sherry_write, WriteResume, netvars, fds, uv
<1>3. ASSUME NEW f \in Fd, NetCallback(f)  PROVE DataTypes'
  <2>1. ASSUME NEW nread \in 1..BufSize, read_cb(f, nread)  PROVE DataTypes'
    <3> DEFINE new == [i \in 1..BufSize |-> IF i <= nread THEN sent[f] + i ELSE Junk]
    <3>1. new \in Seq(Nat) /\ Len(new) \in Nat
      <4>1. BufSize \in Nat /\ new \in [1..BufSize -> Nat]
        BY NetAssumption DEF DataTypes, Junk
      <4> HIDE DEF new
      <4> QED BY <4>1
    <3>2. /\ rbuf' = [rbuf EXCEPT ![f] = new] /\ roffset' = [roffset EXCEPT ![f] = 0]
          /\ sent' = [sent EXCEPT ![f] = @ + nread]
          /\ UNCHANGED <<rerror, ended, got>>
      BY <2>1 DEF read_cb
    <3> HIDE DEF new
    <3> QED BY <3>1, <3>2 DEF DataTypes
  <2>2. ASSUME NEW nread \in {"ok", "eof", "err"}, read_cbNothing(f, nread)  PROVE DataTypes'
    <3>1. /\ UNCHANGED <<rbuf, roffset, sent, got>>
          /\ rerror' = [rerror EXCEPT ![f] = nread]
          /\ ended' = [ended EXCEPT ![f] = @ \/ nread # "ok"]
      BY <2>2 DEF read_cbNothing
    <3>2. ended' \in [Fd -> BOOLEAN]
      BY <3>1 DEF DataTypes
    <3> QED BY <3>1, <3>2 DEF DataTypes
  <2> QED BY <1>1, <1>3, <2>1, <2>2 DEF NetCallback, listen_cb, write_cb, close_cb, fds, uv
<1> QED BY <1>1, <1>2, <1>3 DEF NetNext, nvars, netvars, fds, uv

-----------------------------------------------------------------------------
(* Bytes *)

\* What the peer has sent and the program has or can still have, in order.
All(f) == got[f] \o Unread(f)

Ordered(f) ==
  \A i, j \in DOMAIN All(f) :
    i < j /\ All(f)[i] # Junk /\ All(f)[j] # Junk => All(f)[i] < All(f)[j]

\* The next buffer has only bytes that come after all of these.
UpToSent(f) == \A i \in DOMAIN All(f) : All(f)[i] <= sent[f]

Returned(f) == \A i \in 1..roffset[f] : rbuf[f][i] \in Range(got[f])

BInv == \A f \in Fd : Ordered(f) /\ UpToSent(f) /\ Returned(f)

LEMMA Elements ==
  ASSUME DataTypes, NEW f \in Fd
  PROVE  LET left == Len(rbuf[f]) - roffset[f]
         IN  /\ left \in Nat /\ Len(got[f]) \in Nat
             /\ DOMAIN All(f) = 1..(Len(got[f]) + left)
             /\ \A i \in 1..(Len(got[f]) + left) :
                  All(f)[i] = IF i <= Len(got[f]) THEN got[f][i]
                              ELSE rbuf[f][roffset[f] + (i - Len(got[f]))]
<1> DEFINE g == got[f]  r == rbuf[f]  o == roffset[f]  left == SubSeq(r, o + 1, Len(r))
<1>0. g \in Seq(Nat) /\ r \in Seq(Nat) /\ o \in Nat /\ o <= Len(r)
  BY DEF DataTypes
<1>7. All(f) = g \o left
  BY DEF All, Unread
<1> HIDE DEF g, r, o
<1>1. Len(g) \in Nat /\ Len(r) \in Nat
  BY <1>0, LenProperties
<1>2. left \in Seq(Nat) /\ Len(left) = Len(r) - o /\ \A i \in 1..(Len(r) - o) : left[i] = r[o + i]
  BY <1>0, Rest
<1> HIDE DEF left
<1>3. /\ g \o left \in Seq(Nat) /\ Len(g \o left) = Len(g) + Len(left)
      /\ \A i \in 1..(Len(g) + Len(left)) : (g \o left)[i] = IF i <= Len(g) THEN g[i] ELSE left[i - Len(g)]
  BY <1>0, <1>2, ConcatProperties
<1>4. DOMAIN (g \o left) = 1..(Len(g) + Len(left))
  BY <1>3, LenProperties
<1>5. \A i \in 1..(Len(g) + Len(left)) : i > Len(g) => left[i - Len(g)] = r[o + (i - Len(g))]
  <2>1. \A i \in 1..(Len(g) + Len(left)) : i > Len(g) => i - Len(g) \in 1..(Len(r) - o)
    BY <1>0, <1>1, <1>2
  <2> QED BY <1>2, <2>1
<1>6. \A i \in 1..(Len(g) + Len(left)) :
        (g \o left)[i] = IF i <= Len(g) THEN g[i] ELSE r[o + (i - Len(g))]
  BY <1>1, <1>3, <1>5
<1>8. Len(r) - o \in Nat
  BY <1>0, <1>1
<1> QED BY <1>1, <1>2, <1>3, <1>4, <1>6, <1>7, <1>8 DEF g, r, o

\* Taking n bytes from the front of a buffer.
LEMMA Split ==
  ASSUME DataTypes, NEW f \in Fd, NEW n \in Nat, n <= Len(Unread(f))
  PROVE  LET new == SubSeq(Unread(f), 1, n)
             rest == SubSeq(rbuf[f], (roffset[f] + n) + 1, Len(rbuf[f]))
         IN  /\ new \in Seq(Nat) /\ rest \in Seq(Nat)
             /\ roffset[f] + n <= Len(rbuf[f])
             /\ new \o rest = Unread(f)
             /\ (got[f] \o new) \o rest = got[f] \o Unread(f)
             /\ Len(new) = n
             /\ \A i \in 1..n : new[i] = rbuf[f][roffset[f] + i]
<1> DEFINE g == got[f]  r == rbuf[f]  o == roffset[f]  left == Unread(f)
           new == SubSeq(left, 1, n)
           rest == SubSeq(r, (o + n) + 1, Len(r))
           rest2 == SubSeq(left, n + 1, Len(left))
<1>a. g \in Seq(Nat) /\ r \in Seq(Nat) /\ o \in Nat /\ o <= Len(r)
  BY DEF DataTypes
<1>b. left = SubSeq(r, o + 1, Len(r)) /\ n <= Len(left)
  BY DEF Unread
<1> HIDE DEF g, r, o, left
<1>1. left \in Seq(Nat) /\ Len(left) = Len(r) - o /\ \A i \in 1..(Len(r) - o) : left[i] = r[o + i]
  BY <1>a, <1>b, Rest
<1>2. Len(r) \in Nat /\ o + n \in Nat /\ o + n <= Len(r) /\ Len(left) \in Nat
  BY <1>a, <1>b, <1>1, LenProperties
<1>c. n \in Nat /\ n <= Len(left) /\ Len(left) \in Nat /\ Len(left) = Len(r) - o /\ o \in Nat /\ Len(r) \in Nat
  BY <1>a, <1>b, <1>1, <1>2
<1>3. rest \in Seq(Nat) /\ Len(rest) = Len(r) - (o + n) /\ \A i \in 1..(Len(r) - (o + n)) : rest[i] = r[(o + n) + i]
  BY <1>a, <1>2, Rest
<1>5. rest2 \in Seq(Nat) /\ Len(rest2) = Len(left) - n /\ \A i \in 1..(Len(left) - n) : rest2[i] = left[n + i]
  BY <1>b, <1>1, Rest
<1>6. new \o rest2 = left
  <2>1. 1 \in 1..(Len(left) + 1) /\ n \in (1 - 1)..Len(left) /\ Len(left) \in n..Len(left)
    BY ONLY <1>c
  <2>2. new \o rest2 = SubSeq(left, 1, Len(left))
    BY <1>1, <2>1, ConcatAdjacentSubSeq
  <2>3. SubSeq(left, 1, Len(left)) = left
    BY <1>1, SubSeqFull
  <2> QED BY <2>2, <2>3
<1>7. new \in Seq(Nat) /\ Len(new) = n /\ \A i \in 1..n : new[i] = left[i]
  <2>1. \A i \in 1..n : left[i] \in Nat
    <3>1. \A i \in 1..Len(left) : left[i] \in Nat
      BY <1>1, LenProperties
    <3>2. \A i \in 1..n : i \in 1..Len(left)
      BY ONLY <1>c
    <3> QED BY <3>1, <3>2
  <2>2. /\ new \in Seq(Nat) /\ Len(new) = IF 1 <= n THEN n - 1 + 1 ELSE 0
        /\ \A i \in 1..(n - 1 + 1) : new[i] = left[1 + i - 1]
    BY <2>1, SubSeqProperties
  <2>3. \A i \in Nat : 1 + i - 1 = i
    OBVIOUS
  <2> QED BY <2>2, <2>3
<1> HIDE DEF new, rest, rest2
<1>8. rest = rest2
  <2>0. Len(rest) = Len(r) - (o + n) /\ Len(rest2) = Len(left) - n
    BY <1>3, <1>5
  <2>1. Len(rest) = Len(rest2) /\ Len(rest) \in Nat
    BY ONLY <1>c, <2>0
  <2>2. ASSUME NEW i \in 1..Len(rest)  PROVE rest[i] = rest2[i]
    <3>1. Len(rest) = Len(r) - (o + n) /\ Len(left) = Len(r) - o
      BY <1>1, <1>3
    <3> HIDE DEF rest
    <3>4. i \in 1..(Len(r) - (o + n)) /\ i \in 1..(Len(left) - n) /\ n + i \in 1..(Len(r) - o)
      BY <1>2, <3>1, <1>a
    <3>2. (o + n) + i = o + (n + i)
      BY <1>a
    <3> QED BY <1>1, <1>3, <1>5, <3>4, <3>2
  <2> QED BY <1>3, <1>5, <2>1, <2>2, SeqEqual
<1>9. \A i \in 1..n : new[i] = r[o + i]
  <2>1. \A i \in 1..n : i \in 1..(Len(r) - o)
    BY <1>2, <1>a
  <2> QED BY <1>1, <1>7, <2>1
<1>10. new \o rest = left
  BY <1>6, <1>8
<1>11. (g \o new) \o rest = g \o (new \o rest)
  <2>1. g \in Seq(Nat) /\ new \in Seq(Nat) /\ rest \in Seq(Nat)
    BY <1>a, <1>3, <1>7
  <2> QED BY ONLY <2>1, ConcatAssociative, SMT
<1> QED BY <1>2, <1>3, <1>7, <1>9, <1>10, <1>11 DEF g, r, o, left, new, rest

LEMMA BInit == NetInit => BInv
<1> SUFFICES ASSUME NetInit, NEW f \in Fd  PROVE Ordered(f) /\ UpToSent(f) /\ Returned(f)
  BY DEF BInv
<1>1. DataTypes /\ got[f] = <<>> /\ rbuf[f] = <<>> /\ roffset[f] = 0
  BY DataInit DEF NetInit
<1>2. Unread(f) = <<>>
  BY <1>1 DEF Unread
<1>3. DOMAIN All(f) = {}
  BY <1>1, <1>2 DEF All
<1> QED BY <1>1, <1>3 DEF Ordered, UpToSent, Returned

LEMMA BKeeps ==
  ASSUME BInv, UNCHANGED <<rbuf, roffset, sent, got>>
  PROVE  BInv'
<1> SUFFICES ASSUME NEW f \in Fd  PROVE Ordered(f)' /\ UpToSent(f)' /\ Returned(f)'
  BY DEF BInv
<1>1. Ordered(f) /\ UpToSent(f) /\ Returned(f)
  BY DEF BInv
<1>2. All(f)' = All(f)
  <2>1. Unread(f)' = Unread(f)
    BY DEF Unread
  <2> QED BY <2>1 DEF All
<1>3. Ordered(f)'
  BY <1>1, <1>2 DEF Ordered
<1>4. UpToSent(f)'
  BY <1>1, <1>2 DEF UpToSent
<1>5. Returned(f)'
  BY <1>1 DEF Returned
<1> QED BY <1>3, <1>4, <1>5

\* sherry_read takes bytes from the front of the buffer to the end of what it has returned.
LEMMA BCopy ==
  ASSUME DataTypes, BInv, NEW f \in Fd, NEW count \in Nat, CopyOut(f, count), UNCHANGED <<rbuf, sent>>
  PROVE  BInv'
<1> DEFINE g == got[f]  r == rbuf[f]  o == roffset[f]
           n == IF Len(Unread(f)) > count THEN count ELSE Len(Unread(f))
           new == SubSeq(Unread(f), 1, n)
           rest == SubSeq(r, (o + n) + 1, Len(r))
           g2 == g \o new
<1>1. /\ g \in Seq(Nat) /\ r \in Seq(Nat) /\ o \in Nat /\ o <= Len(r)
      /\ DOMAIN got = Fd /\ DOMAIN roffset = Fd
  <2>1. rbuf \in [Fd -> Seq(Nat)] /\ got \in [Fd -> Seq(Nat)]
    BY DEF DataTypes
  <2>2. roffset \in [Fd -> Nat] /\ roffset[f] <= Len(rbuf[f])
    BY DEF DataTypes
  <2> QED BY <2>1, <2>2
<1>2. got' = [got EXCEPT ![f] = g2] /\ roffset' = [roffset EXCEPT ![f] = o + n]
  BY <1>1 DEF CopyOut
<1>3. Len(Unread(f)) \in Nat
  BY <1>1, Rest DEF Unread
<1>4. n \in Nat /\ n <= Len(Unread(f))
  BY <1>3
<1> HIDE DEF n
<1>5. /\ new \in Seq(Nat) /\ rest \in Seq(Nat) /\ o + n <= Len(r) /\ Len(new) = n
      /\ \A i \in 1..n : new[i] = r[o + i]
      /\ g2 \o rest = g \o Unread(f)
  BY <1>4, Split
<1> HIDE DEF g, r, o, new
<1>6. /\ g2 \in Seq(Nat) /\ Len(g2) = Len(g) + n
      /\ \A i \in 1..(Len(g) + n) : g2[i] = IF i <= Len(g) THEN g[i] ELSE new[i - Len(g)]
  <2>1. g \in Seq(Nat) /\ new \in Seq(Nat) /\ Len(new) = n
    BY <1>1, <1>5
  <2> QED BY ONLY <2>1, ConcatProperties
<1> HIDE DEF g2
<1>11. got'[f] = g2 /\ roffset'[f] = o + n /\ rbuf'[f] = r
  BY <1>1, <1>2 DEF r
<1>7. All(f)' = All(f)
  <2>1. Unread(f)' = rest
    BY <1>11 DEF Unread
  <2> HIDE DEF rest
  <2> QED BY <1>5, <1>11, <2>1 DEF All, g
<1>8. Returned(f)'
  <2> SUFFICES ASSUME NEW i \in 1..(o + n)  PROVE r[i] \in Range(g2)
    BY <1>11 DEF Returned
  <2>1. DOMAIN g = 1..Len(g) /\ DOMAIN g2 = 1..(Len(g) + n) /\ Len(g) \in Nat
    BY <1>1, <1>6, LenProperties
  <2>2. CASE i \in 1..o
    <3>1. PICK k \in DOMAIN g : r[i] = g[k]
      BY <2>2 DEF BInv, Returned, Range, g, r, o
    <3>2. k \in 1..(Len(g) + n) /\ k <= Len(g)
      BY <1>4, <2>1, <3>1
    <3> QED BY <1>6, <2>1, <3>1, <3>2 DEF Range
  <2>3. CASE ~(i \in 1..o)
    <3> DEFINE k == Len(g) + (i - o)
    <3>1. i - o \in 1..n /\ o + (i - o) = i /\ k \in 1..(Len(g) + n) /\ ~(k <= Len(g)) /\ k - Len(g) = i - o
      BY <1>1, <1>4, <2>1, <2>3
    <3> HIDE DEF k
    <3>2. k \in DOMAIN g2 /\ g2[k] = r[i]
      BY <1>5, <1>6, <2>1, <3>1
    <3> QED BY <3>2 DEF Range
  <2> QED BY <2>2, <2>3
<1>9. ASSUME NEW h \in Fd, h # f  PROVE All(h)' = All(h) /\ (Returned(h) => Returned(h)')
  <2>1. got'[h] = got[h] /\ roffset'[h] = roffset[h] /\ rbuf'[h] = rbuf[h]
    BY <1>1, <1>2, <1>9
  <2> QED BY <2>1 DEF All, Unread, Returned
<1>10. \A h \in Fd : All(h)' = All(h) /\ Returned(h)'
  BY <1>7, <1>8, <1>9 DEF BInv
<1> QED BY <1>10 DEF BInv, Ordered, UpToSent

\* read_cb puts a new buffer behind what has been returned, with later bytes only.
LEMMA BArrives ==
  ASSUME DataTypes, BInv, NEW f \in Fd, NEW nread \in 1..BufSize, read_cb(f, nread)
  PROVE  BInv'
<1> DEFINE g == got[f]  n == Len(g)  t == sent[f]
           new == [i \in 1..BufSize |-> IF i <= nread THEN sent[f] + i ELSE Junk]
<1>1. /\ g \in Seq(Nat) /\ n \in Nat /\ t \in Nat /\ BufSize \in Nat /\ nread \in Nat
      /\ DOMAIN g = 1..n
  BY NetAssumption, LenProperties DEF DataTypes
<1>2. new \in Seq(Nat) /\ Len(new) = BufSize
  <2>1. new \in [1..BufSize -> Nat]
    BY <1>1 DEF Junk
  <2> HIDE DEF new
  <2> QED BY <1>1, <2>1
<1>3. /\ UNCHANGED got
      /\ rbuf'[f] = new /\ roffset'[f] = 0 /\ sent'[f] = t + nread
      /\ \A h \in Fd : h # f => rbuf'[h] = rbuf[h] /\ roffset'[h] = roffset[h] /\ sent'[h] = sent[h]
  BY DEF read_cb, DataTypes
<1>4. \A k \in 1..BufSize : new[k] = IF k <= nread THEN t + k ELSE 0
  BY DEF Junk
<1>5. Unread(f)' = new
  <2>1. SubSeq(new, 1, Len(new)) = new
    BY <1>2, SubSeqFull
  <2> HIDE DEF new
  <2> QED BY <1>3, <2>1 DEF Unread
<1> HIDE DEF new, t, n
<1> DEFINE all == All(f)'
<1>6. /\ DOMAIN all = 1..(n + BufSize)
      /\ \A i \in 1..(n + BufSize) : all[i] = IF i <= n THEN g[i] ELSE new[i - n]
  <2>1. all = g \o new
    BY <1>3, <1>5 DEF All
  <2>2. /\ g \o new \in Seq(Nat) /\ Len(g \o new) = n + BufSize
        /\ \A i \in 1..(n + BufSize) : (g \o new)[i] = IF i <= n THEN g[i] ELSE new[i - n]
    BY <1>1, <1>2, ConcatProperties DEF n
  <2>3. DOMAIN (g \o new) = 1..(n + BufSize)
    BY <2>2, LenProperties
  <2> QED BY <2>1, <2>2, <2>3
<1>7. /\ \A i \in 1..n : g[i] \in Nat /\ g[i] <= t
      /\ \A i, j \in 1..n : i < j /\ g[i] # 0 /\ g[j] # 0 => g[i] < g[j]
  <2>1. /\ DOMAIN All(f) = 1..(n + (Len(rbuf[f]) - roffset[f]))
        /\ \A i \in 1..(n + (Len(rbuf[f]) - roffset[f])) : i <= n => All(f)[i] = g[i]
        /\ roffset[f] \in Nat /\ Len(rbuf[f]) \in Nat /\ roffset[f] <= Len(rbuf[f])
    <3>1. rbuf[f] \in Seq(Nat) /\ roffset[f] \in Nat /\ roffset[f] <= Len(rbuf[f]) /\ Len(rbuf[f]) \in Nat
      BY LenProperties DEF DataTypes
    <3> QED BY <3>1, Elements DEF n
  <2>2. \A i \in 1..n : i \in DOMAIN All(f) /\ All(f)[i] = g[i]
    BY <1>1, <2>1
  <2>3. \A i \in 1..n : g[i] \in Nat
    BY <1>1, LenProperties DEF n
  <2> HIDE DEF g
  <2> QED BY <2>2, <2>3 DEF BInv, Ordered, UpToSent, Junk, t
<1> HIDE DEF g, all
<1>8. \A i \in 1..(n + BufSize) : IF i <= n THEN i \in 1..n /\ all[i] = g[i]
                                            ELSE /\ i - n \in 1..BufSize
                                                 /\ all[i] = IF i - n <= nread THEN t + (i - n) ELSE 0
  <2>1. \A i \in 1..(n + BufSize) : IF i <= n THEN i \in 1..n ELSE i - n \in 1..BufSize
    BY <1>1
  <2> QED BY <1>4, <1>6, <2>1
<1>9. ASSUME NEW i \in DOMAIN all, NEW j \in DOMAIN all, i < j, all[i] # 0, all[j] # 0
      PROVE  all[i] < all[j]
  <2>1. i \in 1..(n + BufSize) /\ j \in 1..(n + BufSize) /\ n + BufSize \in Nat
    BY <1>1, <1>6
  <2>2. CASE j <= n
    BY <1>1, <1>7, <1>8, <1>9, <2>1, <2>2
  <2>3. CASE i <= n /\ ~(j <= n)
    BY <1>1, <1>7, <1>8, <1>9, <2>1, <2>3
  <2>4. CASE ~(i <= n) /\ ~(j <= n)
    BY <1>1, <1>8, <1>9, <2>1, <2>4
  <2> QED BY <1>1, <1>9, <2>1, <2>2, <2>3, <2>4
<1>10. ASSUME NEW i \in DOMAIN all  PROVE all[i] <= t + nread
  <2>1. i \in 1..(n + BufSize)
    BY <1>6
  <2> QED BY <1>1, <1>7, <1>8, <2>1
<1>11. Ordered(f)' /\ UpToSent(f)' /\ Returned(f)'
  BY <1>3, <1>9, <1>10 DEF Ordered, UpToSent, Returned, Junk, all
<1>12. ASSUME NEW h \in Fd, h # f  PROVE Ordered(h)' /\ UpToSent(h)' /\ Returned(h)'
  <2>1. All(h)' = All(h)
    BY <1>3, <1>12 DEF All, Unread
  <2> QED BY <1>3, <1>12, <2>1 DEF BInv, Ordered, UpToSent, Returned
<1> QED BY <1>11, <1>12 DEF BInv

LEMMA BRead ==
  ASSUME DataTypes, BInv, NEW c \in CallOf("read"), NEW a, ReadLoop(a, c), UNCHANGED <<rbuf, sent>>
  PROVE  BInv'
<1>1. c.fd \in Fd /\ c.count \in Nat
  BY DEF CallOf
<1>2. UNCHANGED <<roffset, got>> \/ CopyOut(c.fd, c.count)
  BY DEF ReadLoop
<1> QED BY <1>1, <1>2, BCopy, BKeeps

LEMMA BStep ==
  ASSUME WInv, DataTypes, BInv, [NetNext]_nvars
  PROVE  BInv'
<1>1. ASSUME UNCHANGED <<rbuf, roffset, sent, got>>  PROVE BInv'
  BY <1>1, BKeeps
<1>2. ASSUME NEW a \in Actor, NetCall(a)  PROVE BInv'
  <2>1. ASSUME NEW f \in Fd, NEW count \in 1..MaxCount, ReadStarted(a, f, count)  PROVE BInv'
    <3> DEFINE c == [op |-> "read", fd |-> f, client |-> Null, count |-> count]
    <3>1. c \in CallOf("read") /\ ReadLoop(a, c) /\ UNCHANGED <<rbuf, sent>>
      BY <1>1, <2>1, NetAssumption DEF ReadStarted, CallOf
    <3> HIDE DEF c
    <3> QED BY <3>1, BRead
  <2>2. ASSUME ReadResume(a)  PROVE BInv'
    BY <2>2, CallsTyped, BRead DEF ReadResume, uv
  <2>3. ASSUME NEW c, AcceptLoop(a, c)  PROVE BInv'
    BY <1>1, <2>3 DEF AcceptLoop, uv
  <2> QED BY <1>1, <1>2, <2>1, <2>2, <2>3
          DEF NetCall, sherry_fd_tcp, sherry_listen, sherry_fd_close, sherry_accept, AcceptResume,
              sherry_read, ReadRefused, sherry_write, WriteResume, netvars, fds, uv
<1>3. ASSUME NEW f \in Fd, NetCallback(f)  PROVE BInv'
  BY <1>1, <1>3, BArrives DEF NetCallback, listen_cb, read_cbNothing, write_cb, close_cb, fds, uv
<1> QED BY <1>1, <1>2, <1>3 DEF NetNext, nvars, netvars, fds, uv

-----------------------------------------------------------------------------
\* The invariant of descriptors, beside that of the core and that of the queues.
FInv == HInv /\ UInv /\ MInv /\ DataTypes /\ BInv

LEMMA FdInit == NetInit => IInv /\ WInv /\ FInv
BY InvInit, WInit, HInit, UInit, MInit, DataInit, BInit DEF NetInit, FInv

LEMMA FdStep == IInv /\ WInv /\ FInv /\ [NetNext]_nvars => (IInv /\ WInv /\ FInv)'
BY NetStepIsStep, InvStep, WStep, HStep, UStep, MStep, DataStep, BStep DEF FInv

LEMMA FdInductive == NetSpec => [](IInv /\ WInv /\ FInv)
BY FdInit, FdStep, PTL DEF NetSpec, nvars

\* The type invariant of the network layer: among others, the offset of a read
\* never leaves the buffer.
THEOREM NetTypeCorrect == NetSpec => []NetTypeOK
<1>1. WInv /\ FInv => NetTypeOK
  BY DEF NetTypeOK, WInv, QueueTypes, CallType, FInv, HInv, HandleTypes, HandleState, DataTypes
<1> QED BY <1>1, FdInductive, PTL

\* Whoever closes a descriptor, and whenever: an actor that goes on inside
\* sherry_accept or sherry_read finds the memory of its descriptor, and the
\* clientfd of an accept has not been connected by another.
THEOREM NoFreedDescriptor == NetSpec => []NoUseAfterFree
<1>1. WInv /\ FInv => NoUseAfterFree
  <2> SUFFICES ASSUME WInv, FInv  PROVE NoUseAfterFree
    OBVIOUS
  <2>1. \A a \in Actor : at[a] = "io" /\ status[a] \in {"ready", "running"} /\ call[a].op # "write" =>
          handle[call[a].fd] # "freed"
    BY DEF FInv, UInv, WokenOpen, Woken
  <2>2. \A a \in Actor : call[a].op = "accept" => handle[call[a].client] = "tcp"
    BY DEF FInv, HInv, CallHandles, Accepts
  <2>3. \A f \in Fd : handle[f] = "freed" => wreqs[f] = <<>> /\ ~reading[f] /\ ~accepted[f]
    BY DEF FInv, HInv, Pending
  <2> QED BY <2>1, <2>2, <2>3 DEF NoUseAfterFree
<1> QED BY <1>1, FdInductive, PTL

\* No actor sleeps in sherry_accept while uv_accept has a connection for it,
\* however many compete for the connections of one server.
THEOREM NoConnectionMissed == NetSpec => []AcceptNotMissed
<1>1. FInv => AcceptNotMissed
  BY DEF FInv, MInv
<1> QED BY <1>1, FdInductive, PTL

\* No actor sleeps in sherry_read while the buffer has bytes, however many read
\* from one connection.
THEOREM NoBytesMissed == NetSpec => []ReadNotMissed
<1>1. FInv => ReadNotMissed
  BY DEF FInv, MInv
<1> QED BY <1>1, FdInductive, PTL

\* However many actors read from one connection, and however the callbacks of
\* libuv come between: no byte of the peer is returned twice or out of order, the
\* bytes still in the buffer come after all of them, and sherry_read passes over
\* none of the buffer.
THEOREM BytesKeepOrder == NetSpec => []BytesInOrder
<1>1. FInv => BytesInOrder
  BY DEF FInv, BInv, Ordered, Returned, All, BytesInOrder
<1> QED BY <1>1, FdInductive, PTL
=============================================================================
