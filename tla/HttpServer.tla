----------------------------- MODULE HttpServer -----------------------------
(***************************************************************************)
(* examples/http-server.c on top of Net: main accepts connections and      *)
(* spawns an actor that runs http_handler for each.  Every statement is a  *)
(* call of Net; what is new is where in the program an actor stands and    *)
(* which descriptor it has.  That the program may make the call it has     *)
(* come to is not taken for granted: Net's guards state the contract of    *)
(* the callers, and ConnectionOwned checks that it is kept.                *)
(***************************************************************************)
EXTENDS Net

\* Every connection uses up a descriptor, and a handler if accept succeeds.
ASSUME HttpAssumption ==
  /\ IsFiniteSet(Fd)
  /\ Cardinality(Fd) <= Cardinality(Actor \ Mains) + 2

VARIABLES
  pc,         \* the statement an actor comes to next, or is blocked in
  server_fd,  \* the variable of main
  client_fd,  \* the variables of main and of the handlers
  said        \* history: the parts of a response whose write succeeded

program == <<pc, server_fd, client_fd, said>>
httpvars == <<vars, netvars, program>>

At(a, stmt, next) == pc[a] = stmt /\ pc' = [pc EXCEPT ![a] = next]

\* A statement that may block is left when its call returns.
OnReturn(a, next) == pc' = [pc EXCEPT ![a] = IF call'[a] = NoCall THEN next ELSE @]

\* Fresh addresses are interchangeable, so malloc returns one of its choice.
OneOf(S) == {x \in S : x = CHOOSE y \in S : TRUE}
NewFd == OneOf({f \in Fd : handle[f] = "none"})
NewActor == OneOf(Actor \ (heap \cup Mains))

HttpInit ==
  /\ NetInit
  /\ pc = [a \in Actor |-> IF a \in Mains THEN "server" ELSE "read"]
  /\ server_fd = Null
  /\ client_fd = [a \in Actor |-> Null]
  /\ said = [f \in Fd |-> <<>>]

-----------------------------------------------------------------------------
(* main; when bind or listen fails it returns, and the process ends *)

SetUp(a) ==
  \/ /\ At(a, "server", "listen")
     /\ \E f \in NewFd : sherry_fd_tcp(a, f) /\ server_fd' = f
  \/ /\ At(a, "listen", "client")
     /\ sherry_listen(a, server_fd)
     /\ UNCHANGED server_fd
  \/ /\ At(a, "listen", "ended")
     /\ InActor(a)
     /\ UNCHANGED <<vars, netvars, server_fd>>

\* Mutant: one client_fd for all connections, made before the loop.
NewClientOnce(a) ==
  /\ At(a, "client", "accept")
  /\ IF client_fd[a] = Null
       THEN \E f \in NewFd : sherry_fd_tcp(a, f) /\ client_fd' = [client_fd EXCEPT ![a] = f]
       ELSE InActor(a) /\ UNCHANGED <<vars, netvars, client_fd>>

NewClient(a) ==
  /\ At(a, "client", "accept")
  /\ \E f \in NewFd : sherry_fd_tcp(a, f) /\ client_fd' = [client_fd EXCEPT ![a] = f]

\* After an error the loop goes on with a new client_fd and forgets this one.
Accept(a) ==
  /\ pc[a] = "accept"
  /\ sherry_accept(a, server_fd, client_fd[a]) \/ AcceptResume(a)
  /\ OnReturn(a, IF handle'[client_fd[a]] = "connected" THEN "spawn" ELSE "client")
  /\ UNCHANGED client_fd

Spawn(a) ==
  /\ At(a, "spawn", "client")
  /\ \E new \in NewActor, id \in 0..sizeactors :
       sherry_spawn(a, new, id) /\ client_fd' = [client_fd EXCEPT ![new] = client_fd[a]]
  /\ UNCHANGED netvars

AcceptLoopOfMain(a) == NewClient(a) \/ Accept(a) \/ Spawn(a)

-----------------------------------------------------------------------------
(* http_handler *)

\* On EOF or an error no bytes are read; it returns, and leaves the descriptor open.
Read(a) ==
  /\ pc[a] = "read"
  /\ sherry_read(a, client_fd[a], MaxCount) \/ ReadResume(a)
  /\ OnReturn(a, IF got'[client_fd[a]] = got[client_fd[a]] THEN "return" ELSE "header")

Write(a, part, next) ==
  /\ pc[a] = part
  /\ sherry_write(a, client_fd[a]) \/ WriteResume(a)
  /\ OnReturn(a, next)

Close(a) == At(a, "close", "return") /\ sherry_fd_close(a, client_fd[a])

Return(a) == At(a, "return", "return") /\ sherry_main(a) /\ UNCHANGED netvars

\* Mutant: the connection is closed before the body is written.
http_handlerClosesEarly(a) == Read(a) \/ Write(a, "header", "close") \/ Close(a) \/ Return(a)

\* Mutant: it is not closed.
http_handlerKeepsOpen(a) ==
  Read(a) \/ Write(a, "header", "body") \/ Write(a, "body", "return") \/ Return(a)

http_handler(a) ==
  Read(a) \/ Write(a, "header", "body") \/ Write(a, "body", "close") \/ Close(a) \/ Return(a)

-----------------------------------------------------------------------------
(* The peers and the event loop.  Bound of the model: a client connects     *)
(* only while there is a descriptor for the one after it.                   *)

Idle(f) ==
  \/ listen_cb(f) /\ \E g \in Fd : handle[g] = "none"
  \/ \E nread \in 1..BufSize : read_cb(f, nread)
  \/ \E nread \in {"ok", "eof", "err"} : read_cbNothing(f, nread)
  \/ close_cb(f)

\* What a request was for is known by the place of its writer.
Written(f) ==
  /\ write_cb(f)
  /\ said' = IF ctl' = "crashed" THEN said
             ELSE [said EXCEPT ![f] = Append(@, pc[Head(wreqs[f])])]
  /\ UNCHANGED <<pc, server_fd, client_fd>>

Loop == (schdule \/ uv_run \/ UvReturn) /\ UNCHANGED <<netvars, program>>

MainStep ==
  \/ \E m \in Mains : SetUp(m) /\ UNCHANGED <<client_fd, said>>
  \/ \E m \in Mains : AcceptLoopOfMain(m) /\ UNCHANGED <<server_fd, said>>

HandlerStep ==
  \E a \in Actor \ Mains : http_handler(a) /\ UNCHANGED <<server_fd, client_fd, said>>

HttpNext ==
  \/ (\E m \in Mains \ heap : sherry_init(m)) /\ UNCHANGED <<netvars, program>>
  \/ MainStep
  \/ HandlerStep
  \/ Loop
  \/ \E f \in Fd : Idle(f) /\ UNCHANGED program
  \/ \E f \in Fd : Written(f)

HttpSpec == HttpInit /\ [][HttpNext]_httpvars

\* The program and the loop go on; nothing is assumed of the peers.
HttpFairSpec ==
  HttpSpec /\ WF_httpvars(MainStep) /\ WF_httpvars(HandlerStep) /\ WF_httpvars(Loop)

-----------------------------------------------------------------------------
(* Properties *)

\* A connection belongs to one actor, from sherry_fd_tcp through the hand-over by
\* sherry_spawn to the end of its handler, and is in the state every call on it
\* needs.  So nobody is blocked on a descriptor when it is closed, which matters:
\* sherry_fd_close wakes nobody.
ConnectionOwned ==
  /\ \A m \in Mains :
       /\ pc[m] \in {"client", "accept", "spawn"} => handle[server_fd] = "listening"
       /\ pc[m] = "accept" => handle[client_fd[m]] = "tcp"
  /\ \A a \in Actor \ Mains : Live(a) =>
       /\ handle[client_fd[a]] = "connected" \/ pc[a] = "return"
       /\ \A b \in Actor \ {a} : Live(b) /\ client_fd[b] = client_fd[a] =>
            b \in Mains /\ pc[b] = "client"
  /\ \A f \in Fd : handle[f] \in {"closing", "freed"} =>
       waitq[f] = <<>> /\ wreqs[f] = <<>> /\ \A a \in Actor : call[a].fd # f

\* A client whose connection http_handler closes has been sent the whole response,
\* header first, after a request was read from it.  A handler that returns without
\* closing has read nothing but EOF or an error, and has sent no part of a response.
ResponseWhole ==
  /\ \A f \in Fd : handle[f] \in {"closing", "freed"} =>
       got[f] # <<>> /\ said[f] = <<"header", "body">>
  /\ \A a \in Actor \ Mains : at[a] = "done" /\ Open(client_fd[a]) =>
       got[client_fd[a]] = <<>> /\ said[client_fd[a]] = <<>> /\ rerror[client_fd[a]] # "ok"

\* A client whose request has arrived gets its response and is closed, if it reads
\* what it is sent, whatever the other clients do (unless one whose write fails ends
\* the process).  The exception is one whose EOF or error also arrives before the
\* handler has read the request.
RequestAnswered ==
  \A f \in Fd :
    SF_httpvars(Written(f)) =>
      (sent[f] > 0 ~> \/ handle[f] \in {"closing", "freed"}
                      \/ ctl = "crashed"
                      \/ got[f] = <<>> /\ rerror[f] # "ok")
=============================================================================
