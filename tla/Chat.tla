-------------------------------- MODULE Chat --------------------------------
(***************************************************************************)
(* examples/sherry-chat.c: an acceptor, the server (main) and, for every   *)
(* client, a reader and a writer.  They share nothing but messages and the *)
(* descriptors; the two tables are the server's own.  Actors are           *)
(* coroutines, so what one does from one blocking call to its next is one  *)
(* action, and which of those that can go on does so next is left open.    *)
(*                                                                         *)
(* The calls are those of an older sherry.h, modelled by what the program  *)
(* relies on: mailboxes are first in first out, an id is the lowest free   *)
(* slot of the actors array, and it is free again when the function of its *)
(* actor returns.  Likewise a file descriptor is the lowest number that is *)
(* not open, which accept may give out again after close.                  *)
(***************************************************************************)
EXTENDS Naturals, Sequences, FiniteSets, Functions

CONSTANTS
  MaxConn,   \* bound of the model: the connections clients make
  MaxFd,     \* bound of the model: the descriptors; SC_MAXCLI is not checked
  MaxLines   \* bound of the model: the lines all clients send

ASSUME ChatAssumption ==
  /\ MaxConn \in Nat \ {0}
  /\ MaxFd \in 1..999
  /\ MaxLines \in Nat

Conn == 1..MaxConn  \* in the order in which they are accepted
NoConn == 0
Fd == 1..MaxFd
Id == 0..(1 + 2 * MaxConn)

VARIABLES
  actor,      \* id -> its function and argument; history: its connection
  mailbox,    \* id -> the messages sent to it and not received
  writing,    \* id -> the text that a writer inside sherryWrite writes
  clireader, cliwriter,  \* the tables of the server, 0 for no actor
  socket,     \* kernel: the connection a descriptor stands for
  said,       \* how many lines of a client its reader has read
  peer,       \* history: "new", "open", or "gone" when its reader knows so
  out,        \* history: what writers wrote to a connection, by the connection
              \* each of them was made for
  log,        \* history: the lines the server has received, in order
  joined      \* history: Len(log) and who had gone when the server made
              \* the actors of a client

tables == <<clireader, cliwriter>>
history == <<peer, out, log, joined>>
chatvars == <<actor, mailbox, writing, tables, socket, said, history>>

serverid == 0
accpetorid == 1
NoActor == [fn |-> "none", fd |-> 0, conn |-> NoConn]
Free == {id \in Id : actor[id].fn = "none"}
welcomeMsg == [from |-> NoConn, n |-> 0]

sherrySendMsg(recver, msg) == mailbox' = [mailbox EXCEPT ![recver] = Append(@, msg)]

Init ==
  /\ actor = [id \in Id |->
       CASE id = serverid -> [NoActor EXCEPT !.fn = "main"]
         [] id = accpetorid -> [NoActor EXCEPT !.fn = "clientAccpetor"]
         [] OTHER -> NoActor]
  /\ mailbox = [id \in Id |-> <<>>]
  /\ writing = [id \in Id |-> <<>>]
  /\ clireader = [fd \in Fd |-> 0]
  /\ cliwriter = [fd \in Fd |-> 0]
  /\ socket = [fd \in Fd |-> NoConn]
  /\ said = [c \in Conn |-> 0]
  /\ peer = [c \in Conn |-> "new"]
  /\ out = [c \in Conn |-> [d \in Conn |-> <<>>]]
  /\ log = <<>>
  /\ joined = [c \in Conn |-> [at |-> 0, gone |-> {}]]

-----------------------------------------------------------------------------
(* The acceptor, the readers and the writers *)

clientAccpetor(c) ==
  /\ peer[c] = "new" /\ \A d \in 1..(c - 1) : peer[d] # "new"
  /\ \E fd \in Fd :
       /\ socket[fd] = NoConn /\ \A f \in 1..(fd - 1) : socket[f] # NoConn
       /\ socket' = [socket EXCEPT ![fd] = c]
       /\ sherrySendMsg(serverid, [type |-> "CREATE", sender |-> accpetorid, payload |-> fd])
  /\ peer' = [peer EXCEPT ![c] = "open"]
  /\ UNCHANGED <<actor, writing, tables, said, out, log, joined>>

\* A read of a line, which the reader passes on with the name of the user ...
ReaderReads(id) ==
  LET c == socket[actor[id].fd]
  IN  /\ actor[id].fn = "clientReader"
      /\ FoldFunction(+, 0, said) < MaxLines
      /\ said' = [said EXCEPT ![c] = @ + 1]
      /\ sherrySendMsg(serverid, [type |-> "READ", sender |-> id,
                                  payload |-> [from |-> c, n |-> said[c] + 1]])
      /\ UNCHANGED <<actor, writing, tables, socket, history>>

\* ... or of EOF or an error: it tells the server and returns.
ReaderEnds(id) ==
  /\ actor[id].fn = "clientReader"
  /\ sherrySendMsg(serverid, [type |-> "EXIT", sender |-> id, payload |-> actor[id].fd])
  /\ actor' = [actor EXCEPT ![id] = NoActor]
  /\ peer' = [peer EXCEPT ![socket[actor[id].fd]] = "gone"]
  /\ UNCHANGED <<writing, tables, socket, said, out, log, joined>>

\* sherryWrite reaches the connection that the number stands for when it writes;
\* the program ignores its result when there is none.
sherryWrite(id) ==
  LET c == socket[actor[id].fd]
  IN  out' = IF c = NoConn \/ writing[id] = <<>> THEN out
             ELSE [out EXCEPT ![c][actor[id].conn] = Append(@, writing[id][1])]

\* From the end of a sherryWrite, or from an empty mailbox, to the next one.
clientWriter(id) ==
  /\ actor[id].fn = "clientWriter"
  /\ writing[id] # <<>> \/ mailbox[id] # <<>>
  /\ sherryWrite(id)
  /\ \/ /\ mailbox[id] = <<>>
        /\ writing' = [writing EXCEPT ![id] = <<>>]
        /\ UNCHANGED <<actor, mailbox>>
     \/ /\ mailbox[id] # <<>> /\ Head(mailbox[id]).type = "WRITE"
        /\ writing' = [writing EXCEPT ![id] = <<Head(mailbox[id]).payload>>]
        /\ mailbox' = [mailbox EXCEPT ![id] = Tail(@)]
        /\ UNCHANGED actor
     \/ /\ mailbox[id] # <<>> /\ Head(mailbox[id]).type = "EXIT"
        /\ actor' = [actor EXCEPT ![id] = NoActor]
        /\ writing' = [writing EXCEPT ![id] = <<>>]
        /\ mailbox' = [mailbox EXCEPT ![id] = <<>>]
  /\ UNCHANGED <<tables, socket, said, peer, log, joined>>

clientReader(id) == ReaderReads(id) \/ ReaderEnds(id)

-----------------------------------------------------------------------------
(* The loop of main: one message, up to the next sherryReceiveMsg *)

Receives(type) == mailbox[serverid] # <<>> /\ Head(mailbox[serverid]).type = type

WriteMsg(text) == [type |-> "WRITE", sender |-> serverid, payload |-> text]

Create ==
  /\ Receives("CREATE")
  /\ LET fd == Head(mailbox[serverid]).payload
         Runs(fn) == [fn |-> fn, fd |-> fd, conn |-> socket[fd]]
     IN  /\ \E reader, writer \in Free :
              /\ reader < writer /\ \A id \in Free : id < writer => id = reader
              /\ actor' = [actor EXCEPT ![reader] = Runs("clientReader"),
                                        ![writer] = Runs("clientWriter")]
              /\ clireader' = [clireader EXCEPT ![fd] = reader]
              /\ cliwriter' = [cliwriter EXCEPT ![fd] = writer]
              /\ mailbox' = [mailbox EXCEPT ![serverid] = Tail(@),
                                            ![writer] = Append(@, WriteMsg(welcomeMsg))]
         /\ joined' = [joined EXCEPT ![socket[fd]] =
                         [at |-> Len(log), gone |-> {c \in Conn : peer[c] = "gone"}]]
  /\ UNCHANGED <<writing, socket, said, peer, out, log>>

\* Unregisters fd, when its EXIT is sent to recvers.
ExitTo(fd, recvers) ==
  /\ Receives("EXIT")
  /\ mailbox' = [id \in Id |->
       CASE id = serverid -> Tail(mailbox[id])
         [] id \in recvers ->
              Append(mailbox[id], [type |-> "EXIT", sender |-> serverid, payload |-> 0])
         [] OTHER -> mailbox[id]]
  /\ socket' = [socket EXCEPT ![fd] = NoConn]
  /\ clireader' = [clireader EXCEPT ![fd] = 0]
  /\ cliwriter' = [cliwriter EXCEPT ![fd] = 0]
  /\ UNCHANGED <<actor, writing, said, history>>

\* Mutant: the writer is not told.
ExitSilent == LET fd == Head(mailbox[serverid]).payload IN ExitTo(fd, {})

\* Mutant: EXIT goes to the reader, which has returned.
ExitToReader == LET fd == Head(mailbox[serverid]).payload IN ExitTo(fd, {clireader[fd]})

\* Mutant: the descriptor is closed and stays in the tables.
ExitRegistered ==
  LET fd == Head(mailbox[serverid]).payload
  IN  /\ Receives("EXIT")
      /\ mailbox' = [mailbox EXCEPT
           ![serverid] = Tail(@),
           ![cliwriter[fd]] = Append(@, [type |-> "EXIT", sender |-> serverid, payload |-> 0])]
      /\ socket' = [socket EXCEPT ![fd] = NoConn]
      /\ UNCHANGED <<actor, writing, tables, said, history>>

Exit == LET fd == Head(mailbox[serverid]).payload IN ExitTo(fd, {cliwriter[fd]})

\* Mutant: to everybody.
ListenersAll(sender) == {cliwriter[fd] : fd \in {f \in Fd : cliwriter[f] # 0}}

\* Mutant: the loop stops before the last entry.
ListenersShort(sender) ==
  {cliwriter[fd] : fd \in {f \in 1..(MaxFd - 1) : cliwriter[f] # 0 /\ clireader[f] # sender}}

Listeners(sender) ==
  {cliwriter[fd] : fd \in {f \in Fd : cliwriter[f] # 0 /\ clireader[f] # sender}}

Broadcast ==
  /\ Receives("READ")
  /\ LET msg == Head(mailbox[serverid])
     IN  /\ mailbox' = [id \in Id |->
              CASE id = serverid -> Tail(mailbox[id])
                [] id \in Listeners(msg.sender) -> Append(mailbox[id], WriteMsg(msg.payload))
                [] OTHER -> mailbox[id]]
         /\ log' = Append(log, msg.payload)
  /\ UNCHANGED <<actor, writing, tables, socket, said, peer, out, joined>>

Server == Create \/ Exit \/ Broadcast

Next ==
  \/ \E c \in Conn : clientAccpetor(c)
  \/ \E id \in Id : clientReader(id)
  \/ \E id \in Id : clientWriter(id)
  \/ Server

Spec == Init /\ [][Next]_chatvars

\* The scheduler runs every actor that can go on; every sherryWrite returns.
\* Nothing is assumed of the clients.
FairSpec ==
  /\ Spec
  /\ WF_chatvars(Server)
  /\ \A id \in Id : WF_chatvars(clientWriter(id))

-----------------------------------------------------------------------------
(* Properties *)

InServer(type, fd) ==
  Cardinality({i \in DOMAIN mailbox[serverid] :
     mailbox[serverid][i].type = type /\ mailbox[serverid][i].payload = fd})

ReadersOf(fd) == {id \in Id : actor[id].fn = "clientReader" /\ actor[id].fd = fd}

\* An open descriptor is in one place: in a CREATE on its way to the server,
\* with its reader, or in the EXIT of its reader, and it is in the tables in the
\* last two.  So the server closes a connection once, never the one that has got
\* the same number since, and never sends EXIT to id 0, itself (main).
FdInOnePlace ==
  \A fd \in Fd :
    LET leaving == Cardinality(ReadersOf(fd)) + InServer("EXIT", fd)
    IN  /\ InServer("CREATE", fd) + leaving = IF socket[fd] = NoConn THEN 0 ELSE 1
        /\ cliwriter[fd] # 0 <=> leaving = 1
        /\ clireader[fd] # 0 <=> leaving = 1

\* However ids are reused, an id in cliwriter is that of the live writer of the
\* connection, which has not been told to exit: what main sends reaches it.
WritersRegistered ==
  \A fd \in Fd : cliwriter[fd] # 0 =>
    LET writer == cliwriter[fd]
    IN  /\ actor[writer] = [fn |-> "clientWriter", fd |-> fd, conn |-> socket[fd]]
        /\ \A i \in DOMAIN mailbox[writer] : mailbox[writer][i].type = "WRITE"

\* What its own writer has written to a client, writes, and has yet to write.
Stream(c, writer) ==
  out[c][c] \o writing[writer]
    \o [i \in DOMAIN mailbox[writer] |-> mailbox[writer][i].payload]

\* A registered client gets the welcome first and then, each once and in the order
\* in which main received them, lines of the others since: all of them but lines
\* of clients whose reader had returned when main made its actors, since its own
\* reader may have got the id of theirs (main compares ids, not connections).
BroadcastInOrder ==
  \A fd \in Fd : cliwriter[fd] # 0 =>
    LET c == socket[fd]
        stream == Stream(c, cliwriter[fd])
        since == (joined[c].at + 1)..Len(log)
        due == {k \in since : log[k].from # c}
    IN  /\ stream # <<>> /\ stream[1] = welcomeMsg
        /\ \E line \in [2..Len(stream) -> due] :
             /\ \A i \in 2..Len(stream) : stream[i] = log[line[i]]
             /\ \A i, j \in 2..Len(stream) : i < j => line[i] < line[j]
             /\ \A k \in due : log[k].from \notin joined[c].gone => k \in Range(line)

\* No client gets a line of its own, not even from a writer of a connection that
\* had the same descriptor before.
NoEcho == \A c, d \in Conn : \A i \in DOMAIN out[c][d] : out[c][d][i].from # c

\* When the reader of a client has returned, the descriptor is closed and the
\* writer returns too: no actor and no descriptor is left of it.
ClientsLeave ==
  \A c \in Conn : peer[c] = "gone" ~>
    (\A fd \in Fd : socket[fd] # c) /\ (\A id \in Id : actor[id].conn # c)
=============================================================================
