----------------------------- MODULE HttpProof -----------------------------
(***************************************************************************)
(* The http server keeps the contract of the network layer, gives each     *)
(* connection to one handler, and closes it only after a whole response.   *)
(***************************************************************************)
EXTENDS HttpServer, FdProof

NInv == IInv /\ WInv /\ FInv

Whole == <<"header", "body">>

\* A stream nobody has read from or written to.
New(f) == rerror[f] = "ok" /\ ~reading[f] /\ got[f] = <<>> /\ said[f] = <<>>

Closed(f) == handle[f] \in {"closing", "freed"}

ProgramTypes ==
  /\ DOMAIN pc = Actor
  /\ client_fd \in [Actor -> Fd \cup {Null}]
  /\ server_fd \in Fd \cup {Null}
  /\ DOMAIN said = Fd

\* The call an actor is blocked in is that of its statement, on its descriptor.
InStatement(a) ==
  /\ at[a] \in {"none", "fn", "io", "done"}
  /\ at[a] # "io" => call[a] = NoCall
  /\ call[a].op = "accept" => /\ a \in Mains /\ pc[a] = "accept"
                              /\ call[a].fd = server_fd /\ call[a].client = client_fd[a]
  /\ call[a].op = "read" => /\ a \notin Mains /\ pc[a] = "read"
                            /\ call[a].fd = client_fd[a] /\ call[a].count = MaxCount
  /\ call[a].op = "write" => /\ a \notin Mains /\ pc[a] \in {"header", "body"}
                             /\ call[a].fd = client_fd[a]

\* Only one main ever runs, for nobody calls sherry_exit.
OneMain ==
  /\ ctl = "off" => main = Null
  /\ \A m \in Mains : m # main => at[m] = "none" /\ pc[m] = "server" /\ client_fd[m] = Null

MainHas(m) ==
  /\ pc[m] \in {"server", "listen", "ended", "client", "accept", "spawn"} /\ at[m] # "done"
  /\ pc[m] \in {"server", "listen", "ended"} => client_fd[m] = Null
  /\ pc[m] = "listen" => server_fd \in Fd /\ handle[server_fd] = "tcp"
  /\ pc[m] \in {"client", "accept", "spawn"} => server_fd \in Fd /\ handle[server_fd] = "listening"
  /\ pc[m] = "accept" => client_fd[m] \in Fd /\ handle[client_fd[m]] = "tcp"
  /\ pc[m] = "spawn" =>
       /\ client_fd[m] \in Fd /\ handle[client_fd[m]] = "connected" /\ New(client_fd[m])
       /\ \A a \in Actor \ Mains : client_fd[a] # client_fd[m]

\* What the writer of a part has been told of, once it is woken.
SaidAt(a, before) ==
  ctl # "crashed" =>
    said[client_fd[a]] = IF at[a] = "io" /\ status[a] # "wait_ev" THEN Append(before, pc[a]) ELSE before

Connection(a) ==
  LET f == client_fd[a]
  IN  /\ f \in Fd /\ at[a] # "none"
      /\ pc[a] \in {"read", "header", "body", "close", "return"}
      /\ pc[a] # "return" => handle[f] = "connected" /\ at[a] # "done"
      /\ pc[a] = "read" => got[f] = <<>> /\ said[f] = <<>> /\ (at[a] = "fn" => New(f))
      /\ pc[a] = "header" => got[f] # <<>> /\ SaidAt(a, <<>>)
      /\ pc[a] = "body" => got[f] # <<>> /\ SaidAt(a, <<"header">>)
      /\ pc[a] = "close" => got[f] # <<>> /\ said[f] = Whole
      /\ pc[a] = "return" =>
           \/ Closed(f)
           \/ handle[f] = "connected" /\ got[f] = <<>> /\ said[f] = <<>> /\ rerror[f] # "ok"

HandlerHas(a) ==
  \/ client_fd[a] = Null /\ at[a] = "none" /\ pc[a] = "read"
  \/ Connection(a)

Served(f) ==
  /\ handle[f] \in {"none", "tcp"} => New(f)
  /\ rerror[f] # "ok" => ~reading[f]
  /\ Closed(f) => got[f] # <<>> /\ said[f] = Whole

OwnConnection ==
  \A a, b \in Actor \ Mains : a # b /\ client_fd[a] = client_fd[b] => client_fd[a] = Null

PInv ==
  /\ ProgramTypes /\ OneMain /\ OwnConnection
  /\ \A a \in Actor : InStatement(a)
  /\ \A m \in Mains : MainHas(m)
  /\ \A a \in Actor \ Mains : HandlerHas(a)
  /\ \A f \in Fd : Served(f)

-----------------------------------------------------------------------------
(* Every step of the program is one of Net *)

LEMMA PInit == HttpInit => PInv
<1> SUFFICES ASSUME HttpInit  PROVE PInv
  OBVIOUS
<1>1. /\ pc \in [Actor -> {"server", "read"}] /\ DOMAIN pc = Actor
      /\ \A a \in Actor : pc[a] = IF a \in Mains THEN "server" ELSE "read"
      /\ client_fd \in [Actor -> Fd \cup {Null}] /\ server_fd \in Fd \cup {Null}
      /\ \A a \in Actor : client_fd[a] = Null
      /\ DOMAIN said = Fd /\ \A f \in Fd : said[f] = <<>>
  BY DEF HttpInit
<1>2. /\ ctl = "off" /\ main = Null /\ \A a \in Actor : at[a] = "none" /\ call[a] = NoCall
      /\ \A f \in Fd : handle[f] = "none" /\ rerror[f] = "ok" /\ ~reading[f] /\ got[f] = <<>>
  BY DEF HttpInit, NetInit, Init
<1>3. Mains \subseteq Actor
  BY SchedAssumption
<1> QED BY <1>1, <1>2, <1>3
        DEF PInv, ProgramTypes, OneMain, OwnConnection, InStatement, NoCall, MainHas, HandlerHas,
            Served, Closed, New

\* The descriptor of a handler that has not returned is that of a connection.
LEMMA HandlerFd ==
  ASSUME PInv, NEW a \in Actor \ Mains, at[a] # "none"
  PROVE  Connection(a) /\ client_fd[a] \in Fd
BY DEF PInv, HandlerHas, Connection

LEMMA RunningMain ==
  ASSUME PInv, NEW m \in Mains, at[m] # "none"
  PROVE  m = main /\ m \in Actor /\ MainHas(m)
BY SchedAssumption DEF PInv, OneMain

LEMMA HandlerIsNet ==
  ASSUME PInv, NEW a \in Actor \ Mains, http_handler(a)
  PROVE  [NetNext]_nvars
<1>1. at[a] # "none"
  BY DEF http_handler, Read, Write, Close, Return, sherry_read, ReadStarted, ReadRefused, sherry_write,
         sherry_fd_close, sherry_main, ReadResume, WriteResume, Resumed, InActor
<1>2. client_fd[a] \in Fd
  BY <1>1, HandlerFd
<1>3. MaxCount \in 1..MaxCount
  BY NetAssumption
<1>4. CASE Read(a)
  BY <1>2, <1>3, <1>4 DEF Read, NetNext, NetCall
<1>5. CASE Write(a, "header", "body") \/ Write(a, "body", "close")
  BY <1>2, <1>5 DEF Write, NetNext, NetCall
<1>6. CASE Close(a)
  BY <1>2, <1>6 DEF Close, NetNext, NetCall
<1>7. CASE Return(a)
  BY <1>7 DEF Return, NetNext, CoreStep, CoreCall
<1> QED BY <1>4, <1>5, <1>6, <1>7 DEF http_handler

LEMMA MainIsNet ==
  ASSUME PInv, NEW m \in Mains, SetUp(m) \/ AcceptLoopOfMain(m)
  PROVE  [NetNext]_nvars
<1>1. at[m] # "none"
  BY DEF SetUp, AcceptLoopOfMain, NewClient, Accept, Spawn, sherry_fd_tcp, sherry_listen, sherry_accept,
         AcceptResume, sherry_spawn, Resumed, InActor
<1>2. m \in Actor /\ MainHas(m)
  BY <1>1, RunningMain
<1>3. NewFd \subseteq Fd /\ NewActor \subseteq Actor \ (heap \cup Mains)
  BY DEF NewFd, NewActor, OneOf
<1>4. ASSUME SetUp(m)  PROVE [NetNext]_nvars
  <2>1. CASE At(m, "server", "listen") /\ \E f \in NewFd : sherry_fd_tcp(m, f)
    BY <1>2, <1>3, <2>1 DEF NetNext, NetCall
  <2>2. CASE At(m, "listen", "client") /\ sherry_listen(m, server_fd)
    BY <1>2, <2>2 DEF NetNext, NetCall, MainHas, At
  <2>3. CASE UNCHANGED <<vars, netvars>>
    BY <2>3 DEF nvars
  <2> QED BY <1>4, <2>1, <2>2, <2>3 DEF SetUp
<1>5. ASSUME NewClient(m)  PROVE [NetNext]_nvars
  BY <1>2, <1>3, <1>5 DEF NewClient, NetNext, NetCall
<1>6. ASSUME Accept(m)  PROVE [NetNext]_nvars
  <2>1. server_fd \in Fd /\ client_fd[m] \in Fd
    BY <1>2, <1>6 DEF Accept, MainHas
  <2> QED BY <1>2, <1>6, <2>1 DEF Accept, NetNext, NetCall
<1>7. ASSUME Spawn(m)  PROVE [NetNext]_nvars
  BY <1>2, <1>3, <1>7 DEF Spawn, NetNext, CoreStep, CoreCall
<1> QED BY <1>4, <1>5, <1>6, <1>7 DEF AcceptLoopOfMain

LEMMA HttpStepIsNet ==
  ASSUME PInv, [HttpNext]_httpvars
  PROVE  [NetNext]_nvars
<1>1. CASE (\E m \in Mains \ heap : sherry_init(m)) /\ UNCHANGED <<netvars, program>>
  BY <1>1 DEF NetNext, CoreStep
<1>2. CASE MainStep
  BY <1>2, MainIsNet DEF MainStep
<1>3. CASE HandlerStep
  BY <1>3, HandlerIsNet DEF HandlerStep
<1>4. CASE Loop
  BY <1>4 DEF Loop, NetNext, CoreStep
<1>5. CASE \E f \in Fd : Idle(f) /\ UNCHANGED program
  BY <1>5 DEF Idle, NetNext, NetCallback
<1>6. CASE \E f \in Fd : Written(f)
  BY <1>6 DEF Written, NetNext, NetCallback
<1>7. CASE UNCHANGED httpvars
  BY <1>7 DEF httpvars, nvars
<1> QED BY <1>1, <1>2, <1>3, <1>4, <1>5, <1>6, <1>7 DEF HttpNext

-----------------------------------------------------------------------------
(* What a step leaves alone *)

Keeps(f) ==
  /\ handle'[f] = handle[f] /\ got'[f] = got[f] /\ said'[f] = said[f]
  /\ rerror'[f] = rerror[f] /\ reading'[f] = reading[f]

Stays(a) == pc'[a] = pc[a] /\ client_fd'[a] = client_fd[a] /\ at'[a] = at[a]

\* A writer that was told of its part has not been blocked again.
StillTold(a) == pc[a] \in {"header", "body"} => (Blocked(a)' <=> Blocked(a))

LEMMA HandlerKeeps ==
  ASSUME NEW a, HandlerHas(a), Stays(a), ctl = "crashed" => ctl' = "crashed", StillTold(a),
         client_fd[a] \in Fd => Keeps(client_fd[a])
  PROVE  HandlerHas(a)'
<1>1. CASE client_fd[a] = Null /\ at[a] = "none" /\ pc[a] = "read"
  BY <1>1 DEF HandlerHas, Stays
<1>2. CASE Connection(a)
  <2> DEFINE f == client_fd[a]
  <2>1. f \in Fd /\ Keeps(f) /\ client_fd'[a] = f /\ pc'[a] = pc[a] /\ at'[a] = at[a]
    BY <1>2 DEF Connection, Stays
  <2>2. New(f) => New(f)'
    BY <2>1 DEF Keeps, New
  <2>3. Closed(f) => Closed(f)'
    BY <2>1 DEF Keeps, Closed
  <2>4. pc[a] \in {"header", "body"} => (status'[a] = "wait_ev" <=> status[a] = "wait_ev")
    BY DEF StillTold, Blocked
  <2>5. pc[a] = "header" /\ SaidAt(a, <<>>) => SaidAt(a, <<>>)'
    BY <2>1, <2>4 DEF SaidAt, Keeps
  <2>6. pc[a] = "body" /\ SaidAt(a, <<"header">>) => SaidAt(a, <<"header">>)'
    BY <2>1, <2>4 DEF SaidAt, Keeps
  <2>7. Connection(a)'
    BY <1>2, <2>1, <2>2, <2>3, <2>5, <2>6 DEF Connection, Keeps, Whole
  <2> QED BY <2>7 DEF HandlerHas
<1> QED BY <1>1, <1>2 DEF HandlerHas

LEMMA MainKeeps ==
  ASSUME NEW m, MainHas(m), pc'[m] = pc[m], client_fd'[m] = client_fd[m], at'[m] # "done",
         UNCHANGED server_fd,
         \A f \in Fd : handle[f] \in {"tcp", "listening"} => handle'[f] = handle[f],
         pc[m] = "spawn" => Keeps(client_fd[m]),
         \A a \in Actor \ Mains : client_fd'[a] = client_fd[a]
  PROVE  MainHas(m)'
BY DEF MainHas, Keeps, New

\* A step of a handler disturbs its own connection at most.
LEMMA HandlerFrame ==
  ASSUME PInv, NEW a \in Actor \ Mains, Connection(a),
         UNCHANGED <<client_fd, server_fd, main>>, DOMAIN pc' = Actor, DOMAIN said' = Fd,
         ctl # "crashed", ctl' # "off",
         \A b \in Actor : b # a => Stays(b) /\ call'[b] = call[b] /\ (Blocked(b)' <=> Blocked(b)),
         \A g \in Fd : g # client_fd[a] => Keeps(g),
         Connection(a)', InStatement(a)', Served(client_fd[a])'
  PROVE  PInv'
<1> DEFINE f == client_fd[a]
<1>1. f \in Fd /\ handle[f] \in {"connected", "closing", "freed"}
  BY DEF Connection, Closed
<1>2. ProgramTypes'
  BY DEF PInv, ProgramTypes
<1>3. \A m \in Mains : m \in Actor /\ m # a /\ Stays(m)
  BY SchedAssumption
<1>4. OneMain'
  BY <1>3 DEF PInv, OneMain, Stays
<1>5. OwnConnection'
  BY DEF PInv, OwnConnection
<1>6. \A b \in Actor : InStatement(b)'
  BY DEF PInv, InStatement, Stays
<1>7. ASSUME NEW m \in Mains  PROVE MainHas(m)'
  <2>1. MainHas(m) /\ (pc[m] = "spawn" => client_fd[m] # f /\ client_fd[m] \in Fd)
    BY DEF PInv, MainHas
  <2>2. \A g \in Fd : handle[g] \in {"tcp", "listening"} => handle'[g] = handle[g]
    BY <1>1 DEF Keeps
  <2>3. at'[m] # "done"
    BY <1>3, <2>1 DEF Stays, MainHas
  <2> QED BY <1>3, <2>1, <2>2, <2>3, MainKeeps DEF Stays
<1>8. ASSUME NEW b \in Actor \ Mains  PROVE HandlerHas(b)'
  <2>1. CASE b = a
    BY <2>1 DEF HandlerHas
  <2>2. CASE b # a
    <3>1. HandlerHas(b) /\ (client_fd[b] \in Fd => client_fd[b] # f)
      BY <1>1, <2>2, NetAssumption DEF PInv, OwnConnection
    <3> QED BY <2>2, <3>1, HandlerKeeps DEF StillTold
  <2> QED BY <2>1, <2>2
<1>9. ASSUME NEW g \in Fd  PROVE Served(g)'
  BY DEF PInv, Served, Keeps, New, Closed
<1> QED BY <1>2, <1>4, <1>5, <1>6, <1>7, <1>8, <1>9 DEF PInv

\* A step of main disturbs no connection of a handler.
LEMMA MainFrame ==
  ASSUME PInv, NEW m \in Mains, m = main,
         ProgramTypes', UNCHANGED main, ctl # "crashed", ctl' # "off",
         \A a \in Actor : a # m => Stays(a) /\ call'[a] = call[a] /\ (Blocked(a)' <=> Blocked(a)),
         \A a \in Actor \ Mains : client_fd[a] \in Fd => Keeps(client_fd[a]),
         MainHas(m)', InStatement(m)', \A f \in Fd : Served(f)'
  PROVE  PInv'
<1>0. Mains \subseteq Actor
  BY SchedAssumption
<1>1. OneMain'
  BY <1>0 DEF PInv, OneMain, Stays
<1>2. OwnConnection'
  BY <1>0 DEF PInv, OwnConnection, Stays
<1>3. ASSUME NEW a \in Actor  PROVE InStatement(a)'
  <2>1. CASE a # m /\ a \in Mains
    BY <2>1 DEF PInv, InStatement, OneMain, Stays
  <2>2. CASE a \notin Mains
    BY <2>2 DEF PInv, InStatement, Stays
  <2> QED BY <2>1, <2>2
<1>4. ASSUME NEW b \in Mains  PROVE MainHas(b)'
  <2>1. CASE b # m
    <3>1. at[b] = "none" /\ pc[b] = "server" /\ client_fd[b] = Null /\ Stays(b)
      BY <1>0, <2>1 DEF PInv, OneMain
    <3> QED BY <3>1 DEF MainHas, Stays
  <2> QED BY <2>1
<1>5. ASSUME NEW a \in Actor \ Mains  PROVE HandlerHas(a)'
  BY HandlerKeeps DEF PInv, StillTold
<1> QED BY <1>1, <1>2, <1>3, <1>4, <1>5 DEF PInv

\* A step of the loop moves no actor on in the program.
LEMMA LoopFrame ==
  ASSUME PInv, UNCHANGED <<pc, server_fd, client_fd, at, call, main>>, DOMAIN said' = Fd,
         ctl' = "off" => ctl = "off",
         \A f \in Fd : handle[f] \in {"tcp", "listening"} => handle'[f] = handle[f],
         \A m \in Mains : pc[m] = "spawn" => Keeps(client_fd[m]),
         \A a \in Actor \ Mains : HandlerHas(a)', \A f \in Fd : Served(f)'
  PROVE  PInv'
<1>1. ProgramTypes' /\ OneMain' /\ OwnConnection'
  BY DEF PInv, ProgramTypes, OneMain, OwnConnection
<1>2. \A a \in Actor : InStatement(a)'
  BY DEF PInv, InStatement
<1>3. ASSUME NEW m \in Mains  PROVE MainHas(m)'
  <2>1. MainHas(m) /\ at'[m] # "done"
    BY DEF PInv, MainHas
  <2> QED BY <2>1, MainKeeps
<1> QED BY <1>1, <1>2, <1>3 DEF PInv

-----------------------------------------------------------------------------
(* main *)

LEMMA PSherryInit ==
  ASSUME IInv, PInv, NEW m \in Mains, sherry_init(m), UNCHANGED <<netvars, program>>
  PROVE  PInv'
<1>1. /\ ctl = "off" /\ ctl' = "actor" /\ main = Null /\ main' = m
      /\ \A b \in Mains : b \in Actor /\ at[b] = "none" /\ pc[b] = "server" /\ client_fd[b] = Null
  BY SchedAssumption DEF sherry_init, PInv, OneMain
<1>2. \A a \in Actor : /\ at'[a] = IF a = m THEN "fn" ELSE at[a]
                       /\ a # m => status'[a] = status[a]
  BY DEF sherry_init, setrunning, IInv, TypeOK
<1>3. UNCHANGED <<pc, server_fd, client_fd, said, call, handle, got, rerror, reading>>
  BY DEF program, netvars, fds, uv
<1>4. ProgramTypes' /\ OneMain' /\ OwnConnection'
  BY <1>1, <1>2, <1>3 DEF PInv, ProgramTypes, OneMain, OwnConnection
<1>5. \A a \in Actor : InStatement(a)'
  BY <1>1, <1>2, <1>3 DEF PInv, InStatement
<1>6. \A b \in Mains : MainHas(b)'
  BY <1>1, <1>2, <1>3 DEF MainHas
<1>7. \A f \in Fd : Keeps(f) /\ Served(f)'
  BY <1>3 DEF Keeps, PInv, Served, Closed, New
<1>8. ASSUME NEW a \in Actor \ Mains  PROVE HandlerHas(a)'
  BY <1>1, <1>2, <1>3, <1>7, HandlerKeeps DEF PInv, StillTold, Stays, Blocked
<1> QED BY <1>4, <1>5, <1>6, <1>7, <1>8 DEF PInv

\* The pc and the variables of the actor that makes a step.
LEMMA Moves ==
  ASSUME PInv, NEW a \in Actor, NEW s, NEW t, At(a, s, t)
  PROVE  /\ pc[a] = s /\ pc'[a] = t /\ DOMAIN pc' = Actor
         /\ \A b \in Actor : b # a => pc'[b] = pc[b]
BY DEF At, PInv, ProgramTypes

\* An actor that has the thread, in its own function, is in no call.
LEMMA InNoCall ==
  ASSUME PInv, NEW a \in Actor, InActor(a)
  PROVE  ctl = "actor" /\ at[a] = "fn" /\ call[a] = NoCall
BY DEF PInv, InStatement, InActor

\* A step of main that makes or uses a new descriptor f.
LEMMA PNewFd ==
  ASSUME PInv, NEW m \in Mains, InActor(m), NEW f \in Fd, handle[f] \in {"none", "tcp"},
         NEW h \in {"tcp", "listening"}, handle' = [handle EXCEPT ![f] = h], handle[f] = "tcp" => h = "listening",
         NEW s, NEW t, At(m, s, t),
         UNCHANGED <<vars, rerror, reading, got, said, call>>, DOMAIN handle = Fd,
         server_fd' \in Fd \cup {Null}, client_fd' \in [Actor -> Fd \cup {Null}],
         \A a \in Actor : a # m => client_fd'[a] = client_fd[a],
         MainHas(m)'
  PROVE  PInv'
<1>1. m = main /\ m \in Actor
  BY RunningMain DEF InActor
<1>2. ctl = "actor" /\ at[m] = "fn" /\ call[m] = NoCall
  BY <1>1, InNoCall
<1>3. UNCHANGED <<main, ctl, at, status>>
  BY DEF vars, table, queues
<1>4. /\ pc[m] = s /\ pc'[m] = t /\ DOMAIN pc' = Actor
      /\ \A b \in Actor : b # m => pc'[b] = pc[b]
  BY <1>1, Moves
<1>5. ProgramTypes'
  BY <1>4 DEF PInv, ProgramTypes
<1>6. \A a \in Actor : a # m => Stays(a) /\ call'[a] = call[a] /\ (Blocked(a)' <=> Blocked(a))
  BY <1>3, <1>4 DEF Stays, Blocked
<1>7. \A g \in Fd : g # f => Keeps(g)
  BY DEF Keeps
<1>8. \A a \in Actor \ Mains : client_fd[a] \in Fd => Keeps(client_fd[a])
  BY <1>7, NetAssumption DEF PInv, HandlerHas, Connection, Closed
<1>9. InStatement(m)'
  BY <1>2, <1>3 DEF InStatement, NoCall
<1>10. \A g \in Fd : Served(g)'
  <2>1. handle'[f] = h /\ \A g \in Fd : g # f => handle'[g] = handle[g]
    OBVIOUS
  <2> QED BY <2>1 DEF PInv, Served, New, Closed
<1> QED BY <1>1, <1>2, <1>3, <1>5, <1>6, <1>8, <1>9, <1>10, MainFrame

LEMMA PSetUp ==
  ASSUME WInv, FInv, PInv, NEW m \in Mains, SetUp(m), UNCHANGED <<client_fd, said>>
  PROVE  PInv'
<1>0. m \in Actor /\ DOMAIN handle = Fd
  BY SchedAssumption DEF FInv, HInv, HandleTypes
<1>1. ASSUME At(m, "server", "listen"), NEW f \in NewFd, sherry_fd_tcp(m, f), server_fd' = f  PROVE PInv'
  <2>1. /\ f \in Fd /\ InActor(m) /\ handle[f] = "none" /\ handle' = [handle EXCEPT ![f] = "tcp"]
        /\ UNCHANGED <<vars, rerror, reading, got, call>>
    BY <1>1 DEF NewFd, OneOf, sherry_fd_tcp, uv
  <2>2. MainHas(m) /\ pc[m] = "server" /\ pc'[m] = "listen" /\ UNCHANGED at
    BY <1>0, <1>1, <2>1, Moves DEF PInv, vars
  <2>3. MainHas(m)'
    BY <1>0, <1>1, <2>1, <2>2 DEF MainHas
  <2>4. server_fd' \in Fd \cup {Null} /\ client_fd' \in [Actor -> Fd \cup {Null}]
    BY <1>1, <2>1 DEF PInv, ProgramTypes
  <2> QED BY <1>0, <1>1, <2>1, <2>3, <2>4, PNewFd
<1>2. ASSUME At(m, "listen", "client"), sherry_listen(m, server_fd), UNCHANGED server_fd  PROVE PInv'
  <2>1. MainHas(m) /\ pc[m] = "listen" /\ pc'[m] = "client" /\ server_fd \in Fd
    BY <1>0, <1>2, Moves DEF PInv, MainHas
  <2>2. /\ InActor(m) /\ handle[server_fd] = "tcp" /\ handle' = [handle EXCEPT ![server_fd] = "listening"]
        /\ UNCHANGED <<vars, rerror, reading, got, call, at>>
    BY <1>2 DEF sherry_listen, uv, vars
  <2>3. MainHas(m)'
    BY <1>0, <1>2, <2>1, <2>2 DEF MainHas
  <2>4. server_fd' \in Fd \cup {Null} /\ client_fd' \in [Actor -> Fd \cup {Null}]
    BY <1>2, <2>1 DEF PInv, ProgramTypes
  <2> QED BY <1>0, <1>2, <2>1, <2>2, <2>3, <2>4, PNewFd
<1>3. ASSUME At(m, "listen", "ended"), InActor(m), UNCHANGED <<vars, netvars, server_fd>>  PROVE PInv'
  <2>1. /\ pc[m] = "listen" /\ pc'[m] = "ended" /\ DOMAIN pc' = Actor
        /\ \A b \in Actor : b # m => pc'[b] = pc[b]
    BY <1>0, <1>3, Moves
  <2>2. UNCHANGED <<main, ctl, at, status, call, handle, got, rerror, reading>>
    BY <1>3 DEF vars, table, queues, netvars, fds, uv
  <2>3. m = main /\ MainHas(m) /\ ctl = "actor" /\ call[m] = NoCall
    BY <1>0, <1>3, InNoCall, RunningMain DEF InActor
  <2>4. MainHas(m)' /\ InStatement(m)' /\ ProgramTypes'
    BY <1>0, <1>3, <2>1, <2>2, <2>3 DEF MainHas, InStatement, NoCall, PInv, ProgramTypes
  <2>5. \A f \in Fd : Keeps(f) /\ Served(f)'
    BY <2>2 DEF Keeps, PInv, Served, Closed, New
  <2>6. \A a \in Actor : a # m => Stays(a) /\ call'[a] = call[a] /\ (Blocked(a)' <=> Blocked(a))
    BY <2>1, <2>2 DEF Stays, Blocked
  <2> QED BY <2>2, <2>3, <2>4, <2>5, <2>6, MainFrame
<1> QED BY <1>1, <1>2, <1>3 DEF SetUp

LEMMA PNewClient ==
  ASSUME WInv, FInv, PInv, NEW m \in Mains, NewClient(m), UNCHANGED <<server_fd, said>>
  PROVE  PInv'
<1>0. m \in Actor /\ DOMAIN handle = Fd
  BY SchedAssumption DEF FInv, HInv, HandleTypes
<1>1. PICK f \in NewFd : sherry_fd_tcp(m, f) /\ client_fd' = [client_fd EXCEPT ![m] = f]
  BY DEF NewClient
<1>2. /\ f \in Fd /\ InActor(m) /\ handle[f] = "none" /\ handle' = [handle EXCEPT ![f] = "tcp"]
      /\ UNCHANGED <<vars, rerror, reading, got, call, at>>
  BY <1>1 DEF NewFd, OneOf, sherry_fd_tcp, uv, vars
<1>3. At(m, "client", "accept")
  BY DEF NewClient
<1>4. MainHas(m) /\ pc[m] = "client" /\ pc'[m] = "accept"
  BY <1>0, <1>3, Moves DEF PInv
<1>5. /\ client_fd' \in [Actor -> Fd \cup {Null}] /\ client_fd'[m] = f
      /\ \A a \in Actor : a # m => client_fd'[a] = client_fd[a]
      /\ server_fd' \in Fd \cup {Null}
  BY <1>0, <1>1, <1>2 DEF PInv, ProgramTypes
<1>6. MainHas(m)'
  BY <1>0, <1>2, <1>4, <1>5 DEF MainHas
<1> QED BY <1>0, <1>2, <1>3, <1>5, <1>6, PNewFd

\* What a call does to the actor that makes it.
LEMMA Blocking ==
  ASSUME IInv, WInv, NEW a \in Actor, NEW c, Blocks(a, c)
  PROVE  /\ ctl = "actor" /\ ctl' = "schdule" /\ main' = main /\ call'[a] = c
         /\ at'[a] = "io" /\ status'[a] = "wait_ev"
         /\ \A b \in Actor : b # a =>
              at'[b] = at[b] /\ call'[b] = call[b] /\ (Blocked(b)' <=> Blocked(b))
BY DEF Blocks, block_fd, yield, table, IInv, TypeOK, WInv, QueueTypes, Blocked

LEMMA Returning ==
  ASSUME IInv, WInv, NEW a \in Actor, Returns(a)
  PROVE  /\ ctl = "actor" /\ ctl' = ctl /\ main' = main /\ call'[a] = NoCall
         /\ at'[a] = "fn" /\ status' = status
         /\ \A b \in Actor : b # a =>
              at'[b] = at[b] /\ call'[b] = call[b] /\ (Blocked(b)' <=> Blocked(b))
BY DEF Returns, IoReturn, InActor, vars, table, queues, IInv, TypeOK, WInv, QueueTypes, Blocked

\* A call that blocks leaves the actor at its statement.
LEMMA Left ==
  ASSUME PInv, NEW a \in Actor, NEW t, OnReturn(a, t)
  PROVE  /\ pc'[a] = IF call'[a] = NoCall THEN t ELSE pc[a]
         /\ DOMAIN pc' = Actor /\ \A b \in Actor : b # a => pc'[b] = pc[b]
BY DEF OnReturn, PInv, ProgramTypes

LEMMA PAccept ==
  ASSUME IInv, WInv, FInv, PInv, NEW m \in Mains, Accept(m), UNCHANGED <<server_fd, said>>
  PROVE  PInv'
<1> DEFINE g == client_fd[m]
           c == [op |-> "accept", fd |-> server_fd, client |-> g, count |-> 0]
           t == IF handle'[g] = "connected" THEN "spawn" ELSE "client"
<1>1. m \in Actor /\ at[m] # "none" /\ at[m] \in {"fn", "io"}
  BY SchedAssumption DEF Accept, sherry_accept, AcceptResume, Resumed, InActor
<1>2. m = main /\ MainHas(m) /\ pc[m] = "accept"
  BY <1>1, RunningMain DEF Accept
<1>3. g \in Fd /\ handle[g] = "tcp" /\ server_fd \in Fd /\ handle[server_fd] = "listening"
  BY <1>2 DEF MainHas
<1>4. New(g) /\ \A a \in Actor \ Mains : client_fd[a] # g
  BY <1>3, NetAssumption DEF PInv, Served, HandlerHas, Connection, Closed
<1>5. PICK d : AcceptLoop(m, d) /\ d.op = "accept" /\ d.fd = server_fd /\ d.client = g
  <2>1. CASE sherry_accept(m, server_fd, g)
    BY <2>1 DEF sherry_accept
  <2>2. CASE AcceptResume(m)
    BY <1>1, <2>2 DEF AcceptResume, Resumed, PInv, InStatement
  <2> QED BY <2>1, <2>2 DEF Accept
<1>6. /\ UNCHANGED client_fd /\ DOMAIN handle = Fd
      /\ pc'[m] = IF call'[m] = NoCall THEN t ELSE pc[m]
      /\ DOMAIN pc' = Actor /\ \A b \in Actor : b # m => pc'[b] = pc[b]
  <2>1. OnReturn(m, t) /\ UNCHANGED client_fd
    BY DEF Accept
  <2> HIDE DEF t
  <2> QED BY <1>1, <2>1, Left DEF FInv, HInv, HandleTypes
<1>7. ProgramTypes'
  BY <1>6 DEF PInv, ProgramTypes
<1>8. UNCHANGED <<got, said, rerror, reading>>
  BY <1>5 DEF AcceptLoop, uv
<1>9. CASE UNCHANGED handle /\ Blocks(m, d)
  <2>1. call'[m] = d /\ d # NoCall
    BY <1>1, <1>5, <1>9, Blocking DEF NoCall
  <2>2. pc'[m] = "accept"
    BY <1>2, <1>6, <2>1
  <2>3. MainHas(m)' /\ InStatement(m)'
    BY <1>1, <1>2, <1>5, <1>6, <1>9, <2>1, <2>2, SchedAssumption, Blocking DEF MainHas, InStatement
  <2>4. \A f \in Fd : Keeps(f) /\ Served(f)'
    BY <1>8, <1>9 DEF Keeps, PInv, Served, Closed, New
  <2>5. \A a \in Actor : a # m => Stays(a) /\ call'[a] = call[a] /\ (Blocked(a)' <=> Blocked(a))
    BY <1>1, <1>6, <1>9, Blocking DEF Stays
  <2>6. main' = main /\ ctl # "crashed" /\ ctl' # "off"
    BY <1>1, <1>9, Blocking
  <2> QED BY <1>2, <1>7, <2>3, <2>4, <2>5, <2>6, MainFrame
<1>10. CASE Returns(m) /\ handle' \in {handle, [handle EXCEPT ![g] = "connected"]}
  <2>1. call'[m] = NoCall /\ pc'[m] = t /\ at'[m] = "fn"
    BY <1>1, <1>6, <1>10, Returning
  <2>2. /\ \A f \in Fd : f # g => handle'[f] = handle[f]
        /\ handle'[g] \in {"tcp", "connected"}
    BY <1>3, <1>6, <1>10
  <2>3. New(g)'
    BY <1>4, <1>6, <1>8 DEF New
  <2>4. MainHas(m)'
    BY <1>1, <1>3, <1>4, <1>6, <2>1, <2>2, <2>3 DEF MainHas
  <2>5. InStatement(m)'
    BY <2>1 DEF InStatement, NoCall
  <2>6. \A f \in Fd : Served(f)'
    BY <1>3, <1>4, <1>8, <2>2, <2>3 DEF PInv, Served, Closed, New
  <2>7. \A a \in Actor \ Mains : client_fd[a] \in Fd => Keeps(client_fd[a])
    BY <1>4, <1>8, <2>2 DEF Keeps
  <2>8. \A a \in Actor : a # m => Stays(a) /\ call'[a] = call[a] /\ (Blocked(a)' <=> Blocked(a))
    BY <1>1, <1>6, <1>10, Returning DEF Stays
  <2>9. main' = main /\ ctl # "crashed" /\ ctl' # "off"
    BY <1>1, <1>10, Returning
  <2> QED BY <1>2, <1>7, <2>4, <2>5, <2>6, <2>7, <2>8, <2>9, MainFrame
<1> QED BY <1>5, <1>9, <1>10 DEF AcceptLoop

LEMMA PSpawn ==
  ASSUME IInv, WInv, FInv, PInv, NEW m \in Mains, Spawn(m), UNCHANGED <<server_fd, said>>
  PROVE  PInv'
<1> DEFINE f == client_fd[m]
<1>1. PICK new \in NewActor : \E id \in 0..sizeactors :
        sherry_spawn(m, new, id) /\ client_fd' = [client_fd EXCEPT ![new] = f]
  BY DEF Spawn
<1>2. PICK id \in 0..sizeactors : sherry_spawn(m, new, id) /\ client_fd' = [client_fd EXCEPT ![new] = f]
  BY <1>1
<1>3. new \in Actor \ Mains /\ new \notin heap /\ at[new] = "none" /\ m \in Actor /\ m # new
  BY SchedAssumption DEF NewActor, OneOf, IInv, Allocated
<1>4. /\ m = main /\ MainHas(m) /\ InActor(m) /\ ctl = "actor" /\ at[m] = "fn" /\ call[m] = NoCall
  BY <1>2, <1>3, RunningMain, InNoCall DEF sherry_spawn, InActor
<1>5. /\ pc[m] = "spawn" /\ pc'[m] = "client" /\ DOMAIN pc' = Actor
      /\ \A b \in Actor : b # m => pc'[b] = pc[b]
  BY <1>3, Moves DEF Spawn
<1>6. /\ f \in Fd /\ handle[f] = "connected" /\ New(f)
      /\ \A a \in Actor \ Mains : client_fd[a] # f
  BY <1>4, <1>5 DEF MainHas
<1>7. UNCHANGED <<handle, got, said, rerror, reading, call, server_fd>>
  BY DEF Spawn, netvars, fds, uv
<1>8. client_fd[new] = Null /\ pc[new] = "read" /\ call[new] = NoCall
  BY <1>3 DEF PInv, HandlerHas, Connection, InStatement
<1>9. /\ client_fd' \in [Actor -> Fd \cup {Null}] /\ client_fd'[new] = f
      /\ \A a \in Actor : a # new => client_fd'[a] = client_fd[a]
  BY <1>2, <1>3, <1>6 DEF PInv, ProgramTypes
<1>10. /\ main' = main /\ ctl' = ctl
       /\ \A a \in Actor : at'[a] = IF a = new THEN "fn" ELSE at[a]
       /\ \A a \in Actor : a # new => status'[a] = status[a]
  BY <1>2, <1>3 DEF sherry_spawn, setready, reg_actor, new_actor, IInv, TypeOK, table
<1>11. ProgramTypes' /\ OneMain'
  BY <1>3, <1>4, <1>5, <1>7, <1>9, <1>10, SchedAssumption DEF PInv, ProgramTypes, OneMain
<1>12. OwnConnection'
  BY <1>3, <1>6, <1>9 DEF PInv, OwnConnection
<1>13. \A a \in Actor : InStatement(a)'
  <2>1. ASSUME NEW a \in Actor, a # m, a # new  PROVE InStatement(a)'
    BY <1>5, <1>7, <1>9, <1>10, <2>1 DEF PInv, InStatement
  <2>2. InStatement(m)' /\ InStatement(new)'
    BY <1>3, <1>4, <1>7, <1>8, <1>10 DEF InStatement, NoCall
  <2> QED BY <2>1, <2>2
<1>14. ASSUME NEW b \in Mains  PROVE MainHas(b)'
  <2>1. CASE b = m
    BY <1>3, <1>4, <1>5, <1>7, <1>9, <1>10, <2>1 DEF MainHas
  <2>2. CASE b # m
    <3>1. b \in Actor /\ b # new /\ at[b] = "none" /\ pc[b] = "server" /\ client_fd[b] = Null
      BY <1>3, <1>4, <2>2, SchedAssumption DEF PInv, OneMain
    <3> QED BY <1>5, <1>9, <1>10, <2>2, <3>1 DEF MainHas
  <2> QED BY <2>1, <2>2
<1>15. \A g \in Fd : Keeps(g) /\ Served(g)'
  BY <1>7 DEF Keeps, PInv, Served, Closed, New
<1>16. ASSUME NEW a \in Actor \ Mains  PROVE HandlerHas(a)'
  <2>1. CASE a = new
    BY <1>3, <1>5, <1>6, <1>7, <1>8, <1>9, <1>10, <2>1 DEF HandlerHas, Connection, New
  <2>2. CASE a # new
    <3>1. HandlerHas(a) /\ Stays(a) /\ StillTold(a)
      BY <1>3, <1>5, <1>9, <1>10, <2>2 DEF PInv, Stays, StillTold, Blocked
    <3> QED BY <1>10, <1>15, <3>1, HandlerKeeps
  <2> QED BY <2>1, <2>2
<1> QED BY <1>11, <1>12, <1>13, <1>14, <1>15, <1>16 DEF PInv

-----------------------------------------------------------------------------
(* http_handler *)

LEMMA PRead ==
  ASSUME IInv, WInv, FInv, PInv, NEW a \in Actor \ Mains, Read(a), UNCHANGED <<server_fd, client_fd, said>>
  PROVE  PInv'
<1> DEFINE f == client_fd[a]
           c == [op |-> "read", fd |-> f, client |-> Null, count |-> MaxCount]
           t == IF got'[f] = got[f] THEN "return" ELSE "header"
<1>1. at[a] \in {"fn", "io"}
  BY DEF Read, sherry_read, ReadStarted, ReadRefused, ReadResume, Resumed, InActor
<1>2. /\ Connection(a) /\ f \in Fd /\ handle[f] = "connected" /\ pc[a] = "read"
      /\ got[f] = <<>> /\ said[f] = <<>> /\ (at[a] = "fn" => New(f))
  BY <1>1, HandlerFd DEF Read, Connection
<1>3. PICK d : /\ ReadLoop(a, d) /\ d.op = "read" /\ d.fd = f /\ d.count = MaxCount
               /\ reading' \in {reading, [reading EXCEPT ![f] = TRUE]}
               /\ rerror[f] = "ok" \/ UNCHANGED reading
               /\ UNCHANGED <<handle, rbuf, rerror>>
  <2>1. CASE ReadStarted(a, f, MaxCount)
    <3>1. /\ ReadLoop(a, c) /\ UNCHANGED <<handle, rbuf, rerror>>
          /\ reading' = [reading EXCEPT ![f] = TRUE]
      BY <2>1 DEF ReadStarted
    <3>2. rerror[f] = "ok"
      BY <1>2, <2>1 DEF ReadStarted, InActor, New
    <3> QED BY <3>1, <3>2
  <2>2. CASE ReadResume(a)
    BY <2>2 DEF ReadResume, Resumed, PInv, InStatement, uv
  <2>3. ~ReadRefused(a, f)  \* it is the first call of the handler
    BY <1>2 DEF ReadRefused, InActor, New
  <2> QED BY <2>1, <2>2, <2>3 DEF Read, sherry_read
<1>4. /\ pc'[a] = IF call'[a] = NoCall THEN t ELSE pc[a]
      /\ DOMAIN pc' = Actor /\ \A b \in Actor : b # a => pc'[b] = pc[b]
  <2>1. OnReturn(a, t)
    BY DEF Read
  <2> HIDE DEF t
  <2> QED BY <2>1, Left
<1>5. /\ DOMAIN got = Fd /\ DOMAIN reading = Fd /\ rbuf[f] \in Seq(Nat) /\ roffset[f] \in Nat
      /\ got[f] \in Seq(Nat) /\ DOMAIN said = Fd
  BY <1>2 DEF FInv, HInv, HandleTypes, DataTypes, PInv, ProgramTypes
<1>6. \A g \in Fd : g # f => reading'[g] = reading[g]
  BY <1>3, <1>5
<1>7. CASE rerror[f] # "ok" /\ Returns(a) /\ UNCHANGED got
  <2>1. call'[a] = NoCall /\ pc'[a] = "return" /\ at'[a] = "fn" /\ ctl = "actor" /\ ctl' = ctl /\ main' = main
    BY <1>4, <1>7, Returning
  <2>2. Connection(a)'
    BY <1>2, <1>3, <1>7, <2>1 DEF Connection
  <2>3. InStatement(a)' /\ Served(f)'
    BY <1>2, <1>3, <1>7, <2>1 DEF InStatement, NoCall, PInv, Served, Closed
  <2>4. \A b \in Actor : b # a => Stays(b) /\ call'[b] = call[b] /\ (Blocked(b)' <=> Blocked(b))
    BY <1>4, <1>7, Returning DEF Stays
  <2>5. \A g \in Fd : g # f => Keeps(g)
    BY <1>3, <1>6, <1>7 DEF Keeps
  <2> QED BY <1>2, <1>4, <1>5, <2>1, <2>2, <2>3, <2>4, <2>5, HandlerFrame
<1>8. CASE rerror[f] = "ok" /\ Unread(f) # <<>> /\ CopyOut(f, MaxCount) /\ Returns(a)
  <2>1. got'[f] # <<>> /\ \A g \in Fd : g # f => got'[g] = got[g]
    <3> DEFINE left == Unread(f)
               n == IF Len(left) > MaxCount THEN MaxCount ELSE Len(left)
               new == SubSeq(left, 1, n)
    <3>1. left \in Seq(Nat)
      BY <1>5, Rest DEF Unread, FInv, DataTypes
    <3> HIDE DEF left
    <3>2. Len(left) \in Nat /\ Len(left) # 0
      BY <1>8, <3>1, EmptySeq, LenProperties DEF left
    <3>3. n \in Nat /\ n >= 1 /\ n <= Len(left)
      BY <3>2, NetAssumption
    <3>4. got' = [got EXCEPT ![f] = got[f] \o new]
      BY <1>8 DEF CopyOut, left
    <3> HIDE DEF n
    <3>5. new \in Seq(Nat) /\ Len(new) = n
      <4>1. \A i \in 1..n : left[i] \in Nat
        BY <3>1, <3>2, <3>3, LenProperties
      <4> QED BY <3>3, <4>1, SubSeqProperties
    <3> HIDE DEF new
    <3>6. Len(got[f] \o new) = 0 + n
      BY <1>2, <3>5, ConcatProperties, EmptySeq
    <3>7. got'[f] = got[f] \o new /\ \A g \in Fd : g # f => got'[g] = got[g]
      BY <1>2, <1>5, <3>4
    <3> QED BY <3>3, <3>6, <3>7, EmptySeq
  <2>2. call'[a] = NoCall /\ pc'[a] = "header" /\ at'[a] = "fn" /\ ctl = "actor" /\ ctl' = ctl /\ main' = main
    BY <1>2, <1>4, <1>8, <2>1, Returning
  <2>3. Connection(a)'
    BY <1>2, <1>3, <2>1, <2>2 DEF Connection, SaidAt
  <2>4. InStatement(a)' /\ Served(f)'
    BY <1>2, <1>3, <1>8, <2>2 DEF InStatement, NoCall, PInv, Served, Closed
  <2>5. \A b \in Actor : b # a => Stays(b) /\ call'[b] = call[b] /\ (Blocked(b)' <=> Blocked(b))
    BY <1>4, <1>8, Returning DEF Stays
  <2>6. \A g \in Fd : g # f => Keeps(g)
    BY <1>3, <1>6, <2>1 DEF Keeps
  <2> QED BY <1>2, <1>4, <1>5, <2>2, <2>3, <2>4, <2>5, <2>6, HandlerFrame
<1>9. CASE rerror[f] = "ok" /\ Blocks(a, d) /\ UNCHANGED got
  <2>1. /\ call'[a] = d /\ d # NoCall /\ at'[a] = "io" /\ ctl = "actor" /\ ctl' = "schdule" /\ main' = main
    BY <1>3, <1>9, Blocking DEF NoCall
  <2>2. pc'[a] = "read"
    BY <1>2, <1>4, <2>1
  <2>3. Connection(a)'
    BY <1>2, <1>3, <1>9, <2>1, <2>2 DEF Connection
  <2>4. InStatement(a)' /\ Served(f)'
    BY <1>2, <1>3, <1>9, <2>1, <2>2 DEF InStatement, NoCall, PInv, Served, Closed
  <2>5. \A b \in Actor : b # a => Stays(b) /\ call'[b] = call[b] /\ (Blocked(b)' <=> Blocked(b))
    BY <1>4, <1>9, Blocking DEF Stays
  <2>6. \A g \in Fd : g # f => Keeps(g)
    BY <1>3, <1>6, <1>9 DEF Keeps
  <2> QED BY <1>2, <1>4, <1>5, <2>1, <2>3, <2>4, <2>5, <2>6, HandlerFrame
<1> QED BY <1>3, <1>7, <1>8, <1>9 DEF ReadLoop

\* What a writer has been told before its part, and what the program does after it.
Before(part) == IF part = "header" THEN <<>> ELSE <<"header">>

LEMMA Appended ==
  ASSUME NEW x, NEW y
  PROVE  Append(<<>>, x) = <<x>> /\ Append(<<x>>, y) = <<x, y>>
<1> DEFINE S == {x, y}
           one == Append(<<>>, x)  two == Append(<<x>>, y)
<1>0. <<>> \in Seq(S) /\ <<x>> \in Seq(S) /\ <<x, y>> \in Seq(S) /\ Len(<<x>>) = 1 /\ Len(<<x, y>>) = 2
  OBVIOUS
<1>1. one \in Seq(S) /\ Len(one) = 1 /\ one[1] = x
  BY <1>0, AppendProperties
<1>2. two \in Seq(S) /\ Len(two) = 2 /\ two[1] = x /\ two[2] = y
  BY <1>0, AppendProperties
<1> HIDE DEF one, two
<1>3. one = <<x>>
  BY <1>0, <1>1, SeqEqual
<1>4. two = <<x, y>>
  BY <1>0, <1>2, SeqEqual
<1> QED BY <1>3, <1>4 DEF one, two

LEMMA AllParts == Append(Before("header"), "header") = <<"header">> /\ Append(Before("body"), "body") = Whole
<1>1. Before("header") = <<>> /\ Before("body") = <<"header">>
  BY DEF Before
<1> QED BY <1>1, Appended DEF Whole

LEMMA PWrite ==
  ASSUME IInv, WInv, FInv, PInv, NEW a \in Actor \ Mains, NEW part, NEW next,
         <<part, next>> \in {<<"header", "body">>, <<"body", "close">>}, Write(a, part, next),
         UNCHANGED <<server_fd, client_fd, said>>
  PROVE  PInv'
<1> DEFINE f == client_fd[a]
           c == [op |-> "write", fd |-> f, client |-> Null, count |-> 0]
<1>1. at[a] \in {"fn", "io"} /\ pc[a] = part
  BY DEF Write, sherry_write, WriteResume, Resumed, InActor
<1>2. /\ Connection(a) /\ f \in Fd /\ handle[f] = "connected" /\ got[f] # <<>>
      /\ SaidAt(a, Before(part))
  BY <1>1, HandlerFd DEF Connection, Before
<1>3. /\ pc'[a] = IF call'[a] = NoCall THEN next ELSE pc[a]
      /\ DOMAIN pc' = Actor /\ \A b \in Actor : b # a => pc'[b] = pc[b]
  BY Left DEF Write
<1>4. UNCHANGED <<handle, got, rerror, reading>>
  BY DEF Write, sherry_write, WriteResume, fds, uv
<1>5. (\A g \in Fd : g # f => Keeps(g)) /\ Served(f)' /\ DOMAIN said' = Fd
  BY <1>2, <1>4 DEF Keeps, PInv, ProgramTypes, Served, Closed, New
<1>6. CASE sherry_write(a, f)
  <2>1. /\ block_fd(a) /\ call' = [call EXCEPT ![a] = c] /\ InActor(a)
    BY <1>6 DEF sherry_write
  <2>2. /\ ctl = "actor" /\ ctl' = "schdule" /\ main' = main /\ call'[a] = c /\ at[a] = "fn"
        /\ at'[a] = "io" /\ status'[a] = "wait_ev"
        /\ \A b \in Actor : b # a =>
             at'[b] = at[b] /\ call'[b] = call[b] /\ (Blocked(b)' <=> Blocked(b))
    BY <2>1 DEF InActor, block_fd, yield, table, IInv, TypeOK, WInv, QueueTypes, Blocked
  <2>3. c # NoCall /\ pc'[a] = part
    BY <1>1, <1>3, <2>2 DEF NoCall
  <2>4. SaidAt(a, Before(part))'
    BY <1>2, <2>2 DEF SaidAt, Before
  <2>5. Connection(a)'
    BY <1>2, <1>4, <2>2, <2>3, <2>4 DEF Connection, Before
  <2>6. InStatement(a)'
    BY <2>2, <2>3 DEF InStatement
  <2>7. \A b \in Actor : b # a => Stays(b) /\ call'[b] = call[b] /\ (Blocked(b)' <=> Blocked(b))
    BY <1>3, <2>2 DEF Stays
  <2> QED BY <1>2, <1>3, <1>5, <2>2, <2>5, <2>6, <2>7, HandlerFrame
<1>7. CASE WriteResume(a)
  <2>1. Returns(a) /\ at[a] = "io" /\ running = a
    BY <1>7 DEF WriteResume, Resumed
  <2>2. /\ ctl = "actor" /\ ctl' = ctl /\ main' = main /\ call'[a] = NoCall /\ at'[a] = "fn"
        /\ \A b \in Actor : b # a =>
             at'[b] = at[b] /\ call'[b] = call[b] /\ (Blocked(b)' <=> Blocked(b))
    BY <2>1, Returning
  <2>3. status[a] = "running"
    BY <2>1, <2>2 DEF IInv, HoldsThread
  <2>4. said[f] = Append(Before(part), part)
    BY <1>1, <1>2, <2>1, <2>2, <2>3 DEF SaidAt
  <2>5. pc'[a] = next
    BY <1>3, <2>2
  <2>6. Connection(a)'
    <3>1. CASE part = "header" /\ next = "body"
      <4>1. said[f] = <<"header">>
        BY <2>4, <3>1, AllParts
      <4> QED BY <1>2, <1>4, <2>2, <2>5, <3>1, <4>1 DEF Connection, SaidAt
    <3>2. CASE part = "body" /\ next = "close"
      <4>1. said[f] = Whole
        BY <2>4, <3>2, AllParts
      <4> QED BY <1>2, <1>4, <2>2, <2>5, <3>2, <4>1 DEF Connection, Whole
    <3> QED BY <3>1, <3>2
  <2>7. InStatement(a)'
    BY <2>2 DEF InStatement, NoCall
  <2>8. \A b \in Actor : b # a => Stays(b) /\ call'[b] = call[b] /\ (Blocked(b)' <=> Blocked(b))
    BY <1>3, <2>2 DEF Stays
  <2> QED BY <1>2, <1>3, <1>5, <2>2, <2>6, <2>7, <2>8, HandlerFrame
<1> QED BY <1>6, <1>7 DEF Write

LEMMA PClose ==
  ASSUME FInv, PInv, NEW a \in Actor \ Mains, Close(a), UNCHANGED <<server_fd, client_fd, said>>
  PROVE  PInv'
<1> DEFINE f == client_fd[a]
<1>1. /\ InActor(a) /\ handle' = [handle EXCEPT ![f] = "closing"] /\ reading' = [reading EXCEPT ![f] = FALSE]
      /\ UNCHANGED <<main, ctl, at, status, call, got, rerror>>
  BY DEF Close, sherry_fd_close, vars, table, queues
<1>2. ctl = "actor" /\ at[a] = "fn" /\ call[a] = NoCall
  BY <1>1, InNoCall
<1>3. /\ pc[a] = "close" /\ pc'[a] = "return" /\ DOMAIN pc' = Actor
      /\ \A b \in Actor : b # a => pc'[b] = pc[b]
  BY Moves DEF Close
<1>4. Connection(a) /\ f \in Fd /\ got[f] # <<>> /\ said[f] = Whole
  BY <1>2, <1>3, HandlerFd DEF Connection
<1>5. /\ handle'[f] = "closing" /\ ~reading'[f] /\ DOMAIN said' = Fd
      /\ \A g \in Fd : g # f => Keeps(g)
  BY <1>1, <1>4 DEF FInv, HInv, HandleTypes, Keeps, PInv, ProgramTypes
<1>6. Connection(a)' /\ Served(f)'
  BY <1>1, <1>2, <1>3, <1>4, <1>5 DEF Connection, Closed, Served
<1>7. InStatement(a)'
  BY <1>1, <1>2 DEF InStatement, NoCall
<1>8. \A b \in Actor : b # a => Stays(b) /\ call'[b] = call[b] /\ (Blocked(b)' <=> Blocked(b))
  BY <1>1, <1>3 DEF Stays, Blocked
<1> QED BY <1>1, <1>2, <1>3, <1>4, <1>5, <1>6, <1>7, <1>8, HandlerFrame

LEMMA PReturn ==
  ASSUME IInv, PInv, NEW a \in Actor \ Mains, Return(a), UNCHANGED <<server_fd, client_fd, said>>
  PROVE  PInv'
<1> DEFINE f == client_fd[a]
<1>1. /\ InActor(a) /\ at' = [at EXCEPT ![a] = "done"] /\ ctl' = "schdule" /\ main' = main
      /\ UNCHANGED <<status, call, handle, got, rerror, reading>>
  BY DEF Return, sherry_main, unreg_actor, yield, queues, table, netvars, fds, uv
<1>2. ctl = "actor" /\ at[a] = "fn" /\ call[a] = NoCall
  BY <1>1, InNoCall
<1>3. /\ pc[a] = "return" /\ pc'[a] = "return" /\ DOMAIN pc' = Actor
      /\ \A b \in Actor : b # a => pc'[b] = pc[b]
  BY Moves DEF Return
<1>4. at'[a] = "done" /\ \A b \in Actor : b # a => at'[b] = at[b]
  BY <1>1 DEF IInv, TypeOK
<1>5. Connection(a) /\ f \in Fd
  BY <1>2, HandlerFd
<1>6. DOMAIN said' = Fd /\ (\A g \in Fd : Keeps(g)) /\ Served(f)'
  BY <1>1, <1>5 DEF Keeps, PInv, ProgramTypes, Served, Closed, New
<1>7. Connection(a)'
  BY <1>1, <1>3, <1>4, <1>5 DEF Connection, Closed
<1>8. InStatement(a)'
  BY <1>1, <1>2, <1>4 DEF InStatement, NoCall
<1>9. \A b \in Actor : b # a => Stays(b) /\ call'[b] = call[b] /\ (Blocked(b)' <=> Blocked(b))
  BY <1>1, <1>3, <1>4 DEF Stays, Blocked
<1> QED BY <1>1, <1>2, <1>3, <1>5, <1>6, <1>7, <1>8, <1>9, HandlerFrame

-----------------------------------------------------------------------------
(* The event loop *)

LEMMA PLoop ==
  ASSUME IInv, PInv, Loop
  PROVE  PInv'
<1>1. UNCHANGED <<pc, server_fd, client_fd, said, call, handle, got, rerror, reading>>
  BY DEF Loop, program, netvars, fds, uv
<1>2. /\ UNCHANGED <<at, main>> /\ ctl # "crashed" /\ ctl' # "off"
      /\ \A a \in Actor : Blocked(a)' <=> Blocked(a)
  <2>1. ctl = "schdule" \/ ctl = "uv_run"
    BY DEF Loop, schdule, uv_run, UvReturn
  <2>2. UNCHANGED <<at, main>> /\ ctl' # "off"
    BY DEF Loop, schdule, uv_run, UvReturn, table
  <2>3. CoreStep
    BY DEF Loop, CoreStep
  <2> QED BY <2>1, <2>2, <2>3, CoreKeepsBlocked
<1>3. \A f \in Fd : Keeps(f) /\ Served(f)'
  BY <1>1 DEF Keeps, PInv, Served, Closed, New
<1>4. \A a \in Actor \ Mains : HandlerHas(a)'
  BY <1>1, <1>2, <1>3, HandlerKeeps DEF PInv, Stays, StillTold
<1>5. \A m \in Mains : pc[m] = "spawn" => Keeps(client_fd[m])
  BY <1>3 DEF PInv, MainHas
<1>6. DOMAIN said' = Fd
  BY <1>1 DEF PInv, ProgramTypes
<1> QED BY <1>1, <1>2, <1>4, <1>5, <1>3, <1>6, LoopFrame

\* Whom listen_cb or read_cb wakes is no writer.
LEMMA WokenTold ==
  ASSUME WInv, PInv, NEW f \in Fd, WakeReaders(f), NEW a \in Actor
  PROVE  StillTold(a)
<1>1. CASE UNCHANGED vars
  BY <1>1 DEF StillTold, Blocked, vars, queues
<1>2. CASE Callback(waitq[f])
  <2>1. status'[a] = IF a \in Range(waitq[f]) THEN "ready" ELSE status[a]
    BY <1>2 DEF Callback, unblock_all
  <2>2. a \in Range(waitq[f]) => pc[a] \in {"read", "accept"}
    BY DEF WInv, WaitersLinkedOnce, PInv, InStatement
  <2> QED BY <2>1, <2>2 DEF StillTold, Blocked
<1> QED BY <1>1, <1>2 DEF WakeReaders

LEMMA PWakes ==
  ASSUME WInv, PInv, NEW f \in Fd, WakeReaders(f),
         UNCHANGED <<program, call, handle, got, rerror, reading>>
  PROVE  PInv'
<1>1. UNCHANGED <<pc, server_fd, client_fd, said>>
  BY DEF program
<1>2. UNCHANGED <<at, main, ctl>>
  BY DEF WakeReaders, Callback, vars, table
<1>3. \A g \in Fd : Keeps(g) /\ Served(g)'
  BY <1>1 DEF Keeps, PInv, Served, Closed, New
<1>4. \A a \in Actor \ Mains : HandlerHas(a)'
  BY <1>1, <1>2, <1>3, WokenTold, HandlerKeeps DEF PInv, Stays
<1>5. \A m \in Mains : pc[m] = "spawn" => Keeps(client_fd[m])
  BY <1>3 DEF PInv, MainHas
<1>6. DOMAIN said' = Fd
  BY <1>1 DEF PInv, ProgramTypes
<1> QED BY <1>1, <1>2, <1>4, <1>5, <1>3, <1>6, LoopFrame

\* EOF and errors, and the end of a close.
LEMMA PNothing ==
  ASSUME FInv, PInv, NEW f \in Fd, UNCHANGED program,
         (\E nread \in {"ok", "eof", "err"} : read_cbNothing(f, nread)) \/ close_cb(f)
  PROVE  PInv'
<1>1. UNCHANGED <<pc, server_fd, client_fd, said, at, main, ctl, call, got, status>>
  BY DEF program, read_cbNothing, close_cb, vars, table, queues
<1>2. \A g \in Fd : g # f => Keeps(g)
  BY <1>1 DEF Keeps, read_cbNothing, close_cb, uv, FInv, HInv, HandleTypes, DataTypes
<1>3. \/ handle[f] = "closing" /\ handle'[f] = "freed" /\ rerror' = rerror /\ reading' = reading
      \/ /\ reading[f] /\ handle[f] = "connected" /\ handle' = handle
         /\ rerror'[f] = "ok" \/ ~reading'[f]
  <2>1. HandleTypes /\ DataTypes /\ Pending(f)
    BY DEF FInv, HInv
  <2>2. CASE \E nread \in {"ok", "eof", "err"} : read_cbNothing(f, nread)
    <3>1. PICK nread \in {"ok", "eof", "err"} : read_cbNothing(f, nread)
      BY <2>2
    <3>2. reading[f] /\ handle' = handle
      BY <3>1 DEF read_cbNothing
    <3>3. rerror'[f] = nread /\ reading'[f] = (nread = "ok")
      BY <2>1, <3>1 DEF read_cbNothing, HandleTypes, DataTypes
    <3>4. handle[f] = "connected"
      BY <2>1, <3>2 DEF Pending
    <3> QED BY <3>2, <3>3, <3>4
  <2>3. CASE close_cb(f)
    <3>1. handle[f] = "closing" /\ handle'[f] = "freed"
      BY <2>1, <2>3 DEF close_cb, HandleTypes
    <3>2. rerror' = rerror /\ reading' = reading
      BY <2>3 DEF close_cb, uv
    <3> QED BY <3>1, <3>2
  <2> QED BY <2>2, <2>3
<1>4. ASSUME NEW g \in Fd PROVE Served(g)'
  <2>1. Served(g)
    BY DEF PInv
  <2>2. CASE g # f
    BY <1>1, <1>2, <2>1, <2>2 DEF Served, Keeps, New, Closed
  <2>3. CASE g = f
    BY <1>1, <1>3, <2>1, <2>3 DEF Served, New, Closed
  <2> QED BY <2>2, <2>3
<1>5. ASSUME NEW a \in Actor \ Mains  PROVE HandlerHas(a)'
  <2>1. HandlerHas(a) /\ Stays(a) /\ StillTold(a)
    BY <1>1 DEF PInv, Stays, StillTold, Blocked
  <2>2. CASE client_fd[a] # f
    BY <1>1, <1>2, <2>1, <2>2, HandlerKeeps
  <2>3. CASE client_fd[a] = f
    <3>1. Connection(a)
      BY <2>1, <2>3, NetAssumption DEF HandlerHas
    <3>2. SaidAt(a, <<>>)' = SaidAt(a, <<>>) /\ SaidAt(a, <<"header">>)' = SaidAt(a, <<"header">>)
      BY <1>1 DEF SaidAt
    <3>3. New(f) => ~reading[f]
      BY DEF New
    <3>4. rerror[f] # "ok" => ~reading[f]
      BY DEF PInv, Served
    <3>5. CASE handle[f] = "closing" /\ handle'[f] = "freed"
      BY <1>1, <2>3, <3>1, <3>5 DEF Connection, Closed, HandlerHas
    <3>6. CASE reading[f] /\ handle[f] = "connected" /\ handle' = handle
      <4>1. Connection(a)'
        BY <1>1, <2>3, <3>1, <3>2, <3>3, <3>4, <3>6 DEF Connection, Closed
      <4> QED BY <4>1 DEF HandlerHas
    <3> QED BY <1>3, <3>5, <3>6
  <2> QED BY <2>2, <2>3
<1>6. \A g \in Fd : handle[g] \in {"tcp", "listening"} => handle'[g] = handle[g]
  BY <1>2, <1>3 DEF Keeps
<1>7. ASSUME NEW m \in Mains, pc[m] = "spawn"  PROVE Keeps(client_fd[m])
  <2>1. client_fd[m] \in Fd /\ handle[client_fd[m]] = "connected" /\ ~reading[client_fd[m]]
    BY <1>7 DEF PInv, MainHas, New
  <2> QED BY <1>2, <1>3, <2>1
<1>8. DOMAIN said' = Fd
  BY <1>1 DEF PInv, ProgramTypes
<1> QED BY <1>1, <1>4, <1>5, <1>6, <1>7, <1>8, LoopFrame

LEMMA PIdle ==
  ASSUME WInv, FInv, PInv, NEW f \in Fd, Idle(f), UNCHANGED program
  PROVE  PInv'
<1>1. CASE listen_cb(f)
  BY <1>1, PWakes DEF listen_cb
<1>2. ASSUME NEW nread \in 1..BufSize, read_cb(f, nread)  PROVE PInv'
  BY <1>2, PWakes DEF read_cb
<1> QED BY <1>1, <1>2, PNothing DEF Idle

LEMMA PWritten ==
  ASSUME IInv, WInv, PInv, NEW f \in Fd, Written(f)
  PROVE  PInv'
<1>0. PICK w : w = Head(wreqs[f])
  OBVIOUS
<1>1. /\ UNCHANGED <<pc, server_fd, client_fd, call, handle, got, rerror, reading>>
      /\ wreqs[f] # <<>>
      /\ Callback(<<w>>) \/ CallbackAborts(w)
      /\ said' = IF ctl' = "crashed" THEN said ELSE [said EXCEPT ![f] = Append(@, pc[w])]
  BY <1>0 DEF Written, write_cb, fds
<1>2. w \in Actor /\ status[w] = "wait_ev" /\ call[w].op = "write" /\ call[w].fd = f
  BY <1>0, <1>1, HeadWriter DEF Writer, Blocked
<1>3. w \notin Mains /\ pc[w] \in {"header", "body"} /\ client_fd[w] = f /\ at[w] = "io"
  BY <1>2 DEF PInv, InStatement, NoCall
<1>4. Connection(w) /\ handle[f] = "connected" /\ got[f] # <<>>
  BY <1>2, <1>3, HandlerFd DEF Connection
<1>5. UNCHANGED <<at, main>> /\ ctl # "crashed" /\ ctl' # "off" /\ ctl # "off"
  BY <1>1 DEF Callback, CallbackAborts, table
<1>6. DOMAIN said' = Fd
  BY <1>1 DEF PInv, ProgramTypes
<1>7. \A g \in Fd : g # f => Keeps(g)
  BY <1>1 DEF Keeps, PInv, ProgramTypes
<1>8. \A g \in Fd : Served(g)'
  BY <1>1, <1>4, <1>7 DEF PInv, Served, Keeps, New, Closed
<1>9. \A b \in Actor : b # w => status'[b] = status[b]
  <2>1. Range(<<w>>) = {w}
    BY DEF Range
  <2> QED BY <1>1, <1>2, <2>1 DEF Callback, unblock_all, CallbackAborts, setready, IInv, TypeOK
<1>10. ASSUME NEW b \in Actor \ Mains, b # w  PROVE HandlerHas(b)'
  <2>1. HandlerHas(b) /\ Stays(b) /\ StillTold(b)
    BY <1>1, <1>5, <1>9, <1>10 DEF PInv, Stays, StillTold, Blocked
  <2>2. client_fd[b] \in Fd => client_fd[b] # f
    BY <1>2, <1>3, <1>10, NetAssumption DEF PInv, OwnConnection
  <2> QED BY <1>5, <1>7, <2>1, <2>2, HandlerKeeps
<1>11. HandlerHas(w)'
  <2>1. SaidAt(w, Before(pc[w]))
    BY <1>3, <1>4 DEF Connection, Before
  <2>2. SaidAt(w, Before(pc[w]))'
    <3>1. CASE ctl' = "crashed"
      BY <3>1 DEF SaidAt
    <3>2. CASE ctl' # "crashed"
      <4>1. Callback(<<w>>) /\ said' = [said EXCEPT ![f] = Append(@, pc[w])]
        BY <1>1, <3>2 DEF CallbackAborts
      <4>2. said[f] = Before(pc[w])
        BY <1>2, <1>3, <1>5, <2>1 DEF SaidAt
      <4>3. said'[f] = Append(Before(pc[w]), pc[w])
        BY <4>1, <4>2 DEF PInv, ProgramTypes
      <4>4. w \in Range(<<w>>)
        BY DEF Range
      <4>5. status'[w] = "ready"
        BY <1>2, <4>1, <4>4 DEF Callback, unblock_all
      <4> QED BY <1>1, <1>3, <1>5, <4>3, <4>5 DEF SaidAt
    <3> QED BY <3>1, <3>2
  <2>3. Connection(w)'
    BY <1>1, <1>3, <1>4, <1>5, <2>2 DEF Connection, Before
  <2> QED BY <2>3 DEF HandlerHas
<1>12. \A m \in Mains : pc[m] = "spawn" => Keeps(client_fd[m])
  BY <1>2, <1>3, <1>7 DEF PInv, MainHas
<1>13. \A a \in Actor \ Mains : HandlerHas(a)'
  BY <1>10, <1>11
<1> QED BY <1>1, <1>5, <1>6, <1>8, <1>12, <1>13, LoopFrame

LEMMA PStutter ==
  ASSUME PInv, UNCHANGED httpvars
  PROVE  PInv'
BY DEF httpvars, vars, table, queues, netvars, fds, uv, program, PInv, ProgramTypes, OneMain, OwnConnection,
       InStatement, MainHas, HandlerHas, Connection, Served, New, Closed, SaidAt

LEMMA PStep ==
  ASSUME NInv, PInv, [HttpNext]_httpvars
  PROVE  PInv'
<1> USE DEF NInv
<1>1. CASE \E m \in Mains \ heap : sherry_init(m) /\ UNCHANGED <<netvars, program>>
  BY <1>1, PSherryInit
<1>2. CASE MainStep
  BY <1>2, PSetUp, PNewClient, PAccept, PSpawn DEF MainStep, AcceptLoopOfMain
<1>3. CASE HandlerStep
  <2> PICK a \in Actor \ Mains : http_handler(a) /\ UNCHANGED <<server_fd, client_fd, said>>
    BY <1>3 DEF HandlerStep
  <2>1. ASSUME Write(a, "header", "body") \/ Write(a, "body", "close")  PROVE PInv'
    BY <2>1, PWrite
  <2> QED BY <2>1, PRead, PClose, PReturn DEF http_handler
<1>4. CASE (\E f \in Fd : Idle(f) /\ UNCHANGED program) \/ (\E f \in Fd : Written(f))
  BY <1>4, PIdle, PWritten
<1> QED BY <1>1, <1>2, <1>3, <1>4, PLoop, PStutter DEF HttpNext

LEMMA HttpInductive == HttpSpec => [](NInv /\ PInv)
<1>1. HttpInit => NInv /\ PInv
  BY FdInit, PInit DEF HttpInit, NInv
<1>2. NInv /\ PInv /\ [HttpNext]_httpvars => (NInv /\ PInv)'
  BY HttpStepIsNet, FdStep, PStep DEF NInv
<1> QED BY <1>1, <1>2, PTL DEF HttpSpec

-----------------------------------------------------------------------------
(* Theorems *)

\* The program makes every call as its contract demands: each of its behaviours is
\* one of Net, so no theorem about Net has to be proved again for it.
THEOREM ServerIsNet == HttpSpec => NetSpec
<1>1. HttpInit => NetInit
  BY DEF HttpInit
<1>2. NInv /\ PInv /\ [HttpNext]_httpvars => [NetNext]_nvars
  BY HttpStepIsNet
<1> QED BY <1>1, <1>2, HttpInductive, PTL DEF HttpSpec, NetSpec, nvars

\* Each connection belongs to one actor at a time, which finds it in the state its
\* next call needs, and nobody is inside a call on a descriptor when it is closed.
THEOREM ConnectionsOwned == HttpSpec => []ConnectionOwned
<1>1. NInv /\ PInv => ConnectionOwned
  <2> SUFFICES ASSUME NInv, PInv  PROVE ConnectionOwned
    OBVIOUS
  <2>1. ASSUME NEW m \in Mains
        PROVE  /\ pc[m] \in {"client", "accept", "spawn"} => handle[server_fd] = "listening"
               /\ pc[m] = "accept" => handle[client_fd[m]] = "tcp"
    BY DEF PInv, MainHas
  <2>2. ASSUME NEW a \in Actor \ Mains, Live(a)
        PROVE  /\ handle[client_fd[a]] = "connected" \/ pc[a] = "return"
               /\ \A b \in Actor \ {a} : Live(b) /\ client_fd[b] = client_fd[a] =>
                    b \in Mains /\ pc[b] = "client"
    <3>1. Connection(a) /\ client_fd[a] \in Fd /\ handle[client_fd[a]] \in {"connected", "closing", "freed"}
      BY <2>2, HandlerFd DEF Live, Connection, Closed
    <3>2. ASSUME NEW b \in Actor \ {a}, client_fd[b] = client_fd[a]  PROVE b \in Mains /\ pc[b] = "client"
      <4>1. b \in Mains
        BY <3>1, <3>2, NetAssumption DEF PInv, OwnConnection
      <4>2. MainHas(b) /\ client_fd[b] # Null
        BY <3>1, <3>2, <4>1, NetAssumption DEF PInv
      <4> QED BY <3>1, <3>2, <4>1, <4>2 DEF MainHas
    <3> QED BY <3>1, <3>2 DEF Connection
  <2>3. ASSUME NEW f \in Fd, handle[f] \in {"closing", "freed"}
        PROVE  waitq[f] = <<>> /\ wreqs[f] = <<>> /\ \A a \in Actor : call[a].fd # f
    <3>1. ASSUME NEW a \in Actor  PROVE call[a].fd # f
      <4>1. call[a] \in CallType
        BY DEF NInv, WInv, QueueTypes
      <4>2. CASE call[a].op = "accept"
        BY <2>3, <4>2 DEF PInv, InStatement, MainHas
      <4>3. CASE call[a].op \in {"read", "write"}
        <5>1. a \notin Mains /\ pc[a] \in {"read", "header", "body"} /\ call[a].fd = client_fd[a]
          BY <4>3 DEF PInv, InStatement
        <5>2. at[a] # "none"
          BY <4>3 DEF PInv, InStatement, NoCall
        <5> QED BY <2>3, <5>1, <5>2, HandlerFd DEF Connection
      <4>4. CASE call[a] = NoCall
        BY <4>4, NetAssumption DEF NoCall
      <4> QED BY <4>1, <4>2, <4>3, <4>4 DEF CallType, CallOf
    <3>2. Range(waitq[f]) = {} /\ Range(wreqs[f]) = {} /\ waitq[f] \in Seq(Actor) /\ wreqs[f] \in Seq(Actor)
      <4>1. waitq[f] \in Seq(Actor) /\ wreqs[f] \in Seq(Actor)
        BY DEF NInv, WInv, QueueTypes
      <4>2. \A a \in Range(waitq[f]) \cup Range(wreqs[f]) : a \in Actor
        BY <4>1, LenProperties DEF Range
      <4>3. \A a \in Actor : a \notin Range(waitq[f]) /\ a \notin Range(wreqs[f])
        BY <3>1 DEF NInv, WInv, WaitersLinkedOnce, RequestsOfBlocked
      <4> QED BY <4>1, <4>2, <4>3
    <3>3. \A s \in Seq(Actor) : Range(s) = {} => s = <<>>
      <4> SUFFICES ASSUME NEW s \in Seq(Actor), s # <<>>  PROVE Range(s) # {}
        OBVIOUS
      <4>1. Head(s) = s[1] /\ 1 \in DOMAIN s
        OBVIOUS
      <4> QED BY <4>1 DEF Range
    <3> QED BY <3>1, <3>2, <3>3
  <2> QED BY <2>1, <2>2, <2>3 DEF ConnectionOwned
<1> QED BY <1>1, HttpInductive, PTL

\* A connection http_handler closes has been sent the header and then the body, after
\* a request of the client; a connection it leaves open has been sent nothing.
THEOREM ResponsesWhole == HttpSpec => []ResponseWhole
<1>1. PInv => ResponseWhole
  <2> SUFFICES ASSUME PInv  PROVE ResponseWhole
    OBVIOUS
  <2>1. \A f \in Fd : handle[f] \in {"closing", "freed"} => got[f] # <<>> /\ said[f] = <<"header", "body">>
    BY DEF PInv, Served, Closed, Whole
  <2>2. ASSUME NEW a \in Actor \ Mains, at[a] = "done", Open(client_fd[a])
        PROVE  got[client_fd[a]] = <<>> /\ said[client_fd[a]] = <<>> /\ rerror[client_fd[a]] # "ok"
    BY <2>2, HandlerFd DEF Connection, Closed, Open
  <2> QED BY <2>1, <2>2 DEF ResponseWhole
<1> QED BY <1>1, HttpInductive, PTL
=============================================================================
