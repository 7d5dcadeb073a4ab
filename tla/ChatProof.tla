----------------------------- MODULE ChatProof -----------------------------
(***************************************************************************)
(* The tables of the chat server, the messages on their way to it and the  *)
(* descriptors fit together however the actors interleave and whatever     *)
(* number of a descriptor or of an actor is given out again.               *)
(***************************************************************************)
EXTENDS Chat, SequenceTheorems, FiniteSetTheorems, TLAPS

Line == [from : Conn, n : Nat]
Text == [from : 0..MaxConn, n : Nat]

ServerMsg == [type : {"CREATE", "EXIT"}, sender : Id, payload : Fd]
               \cup [type : {"READ"}, sender : Id, payload : Line]
WriterMsg == [type : {"WRITE"}, sender : {serverid}, payload : Text]
               \cup [type : {"EXIT"}, sender : {serverid}, payload : {0}]

Workers == {"clientReader", "clientWriter"}

ActorTypes ==
  /\ DOMAIN actor = Id
  /\ actor[serverid] = [NoActor EXCEPT !.fn = "main"]
  /\ actor[accpetorid] = [NoActor EXCEPT !.fn = "clientAccpetor"]
  /\ \A id \in Id \ {serverid, accpetorid} :
       actor[id] \in {NoActor} \cup [fn : Workers, fd : Fd, conn : Conn]

\* Nobody sends to a reader, and nothing is left of a writer that has returned.
MailTypes ==
  /\ DOMAIN mailbox = Id /\ DOMAIN writing = Id
  /\ mailbox[serverid] \in Seq(ServerMsg)
  /\ \A id \in Id \ {serverid} :
       mailbox[id] \in Seq(WriterMsg) /\ (actor[id].fn # "clientWriter" => mailbox[id] = <<>>)
  /\ \A id \in Id :
       writing[id] \in Seq(Text) /\ Len(writing[id]) <= 1 /\ (actor[id].fn # "clientWriter" => writing[id] = <<>>)

DataTypes ==
  /\ clireader \in [Fd -> Id] /\ cliwriter \in [Fd -> Id]
  /\ socket \in [Fd -> 0..MaxConn]
  /\ said \in [Conn -> Nat]
  /\ peer \in [Conn -> {"new", "open", "gone"}]
  /\ out \in [Conn -> [Conn -> Seq(Text)]]
  /\ log \in Seq(Line)
  /\ joined \in [Conn -> [at : Nat, gone : SUBSET Conn]]

Inbox == mailbox[serverid]
IsMsg(q, i, type, fd) == q[i].type = type /\ q[i].payload = fd
NoMsg(q, type, fd) == \A i \in DOMAIN q : ~IsMsg(q, i, type, fd)
OneMsg(q, type, fd) ==
  \E i \in DOMAIN q : IsMsg(q, i, type, fd) /\ \A j \in DOMAIN q : IsMsg(q, j, type, fd) => j = i

IsReader(id, fd) == actor[id].fn = "clientReader" /\ actor[id].fd = fd
NoReader(fd) == \A id \in Id : ~IsReader(id, fd)

Unused(fd) ==
  /\ socket[fd] = NoConn /\ cliwriter[fd] = 0 /\ clireader[fd] = 0
  /\ NoMsg(Inbox, "CREATE", fd) /\ NoReader(fd) /\ NoMsg(Inbox, "EXIT", fd)

Coming(fd) ==
  /\ socket[fd] # NoConn /\ cliwriter[fd] = 0 /\ clireader[fd] = 0
  /\ OneMsg(Inbox, "CREATE", fd) /\ NoReader(fd) /\ NoMsg(Inbox, "EXIT", fd)

Up(fd) ==
  /\ socket[fd] # NoConn /\ cliwriter[fd] # 0 /\ clireader[fd] # 0
  /\ NoMsg(Inbox, "CREATE", fd) /\ NoMsg(Inbox, "EXIT", fd)
  /\ \A id \in Id : IsReader(id, fd) <=> id = clireader[fd]

Leaving(fd) ==
  /\ socket[fd] # NoConn /\ cliwriter[fd] # 0 /\ clireader[fd] # 0
  /\ NoMsg(Inbox, "CREATE", fd) /\ NoReader(fd) /\ OneMsg(Inbox, "EXIT", fd)

Placed(fd) == Unused(fd) \/ Coming(fd) \/ Up(fd) \/ Leaving(fd)

ReaderHas(id) == actor[id].fn = "clientReader" => actor[id].conn = socket[actor[id].fd]

WriterHas(fd) ==
  cliwriter[fd] # 0 =>
    /\ actor[cliwriter[fd]] = [fn |-> "clientWriter", fd |-> fd, conn |-> socket[fd]]
    /\ \A i \in DOMAIN mailbox[cliwriter[fd]] : mailbox[cliwriter[fd]][i].type = "WRITE"

Sockets ==
  /\ \A f, g \in Fd : f # g /\ socket[f] = socket[g] => socket[f] = NoConn
  /\ \A f \in Fd : socket[f] # NoConn => peer[socket[f]] # "new"

\* Texts that no connection on the descriptor of their writer has sent.
Foreign(t, fd) == t.from = NoConn \/ (peer[t.from] # "new" /\ socket[fd] # t.from)

PendingForeign(id) ==
  actor[id].fn = "clientWriter" =>
    /\ \A i \in DOMAIN writing[id] : Foreign(writing[id][i], actor[id].fd)
    /\ \A i \in DOMAIN mailbox[id] :
         mailbox[id][i].type = "WRITE" => Foreign(mailbox[id][i].payload, actor[id].fd)

\* A line that is on its way to the server, whose descriptor is still registered.
ReadFrom(msg) ==
  msg.type = "READ" =>
    /\ peer[msg.payload.from] # "new"
    /\ \A fd \in Fd : socket[fd] = msg.payload.from => cliwriter[fd] # 0 /\ clireader[fd] = msg.sender

LinesRead == \A i \in DOMAIN Inbox : ReadFrom(Inbox[i])

ChatInv ==
  /\ ActorTypes /\ MailTypes /\ DataTypes /\ Sockets /\ NoEcho
  /\ \A fd \in Fd : Placed(fd) /\ WriterHas(fd)
  /\ \A id \in Id : ReaderHas(id) /\ PendingForeign(id)
  /\ LinesRead

-----------------------------------------------------------------------------
(* Mailboxes *)

LEMMA Ids ==
  /\ serverid \in Id /\ accpetorid \in Id /\ serverid = 0 /\ accpetorid # serverid
  /\ \A fd \in Fd : fd # 0
  /\ NoConn = 0 /\ NoConn \notin Conn /\ 0..MaxConn = Conn \cup {NoConn}
BY ChatAssumption DEF Id, Fd, Conn, NoConn, serverid, accpetorid

LEMMA Sent ==
  ASSUME NEW T, NEW q \in Seq(T), NEW m \in T, NEW r, r = Append(q, m)
  PROVE  /\ r \in Seq(T) /\ Len(q) \in Nat
         /\ DOMAIN q = 1..Len(q) /\ DOMAIN r = 1..(Len(q) + 1) /\ Len(q) + 1 \notin DOMAIN q
         /\ \A i \in DOMAIN q : i \in DOMAIN r /\ r[i] = q[i]
         /\ Len(q) + 1 \in DOMAIN r /\ r[Len(q) + 1] = m
         /\ \A i \in DOMAIN r : i \in DOMAIN q \/ i = Len(q) + 1
<1>1. /\ r \in Seq(T) /\ Len(r) = Len(q) + 1 /\ r[Len(q) + 1] = m
      /\ \A i \in 1..Len(q) : r[i] = q[i]
  BY AppendProperties
<1>2. Len(q) \in Nat /\ DOMAIN q = 1..Len(q) /\ DOMAIN r = 1..Len(r)
  BY <1>1, LenProperties
<1> QED BY <1>1, <1>2

LEMMA Taken ==
  ASSUME NEW T, NEW q \in Seq(T), q # <<>>, NEW r, r = Tail(q)
  PROVE  /\ r \in Seq(T) /\ 1 \in DOMAIN q /\ Head(q) = q[1] /\ Head(q) \in T
         /\ \A i \in DOMAIN q : i \in Nat
         /\ \A i \in DOMAIN r : i \in Nat /\ i + 1 \in DOMAIN q /\ i + 1 # 1 /\ r[i] = q[i + 1]
         /\ \A j \in DOMAIN q : j # 1 => j - 1 \in DOMAIN r /\ r[j - 1] = q[j] /\ (j - 1) + 1 = j
<1>1. /\ r \in Seq(T) /\ Len(r) = Len(q) - 1 /\ \A i \in 1..Len(r) : r[i] = q[i + 1]
      /\ Head(q) \in T
  BY HeadTailProperties
<1>2. Len(q) \in Nat /\ Len(q) # 0 /\ DOMAIN q = 1..Len(q) /\ DOMAIN r = 1..Len(r)
  BY <1>1, LenProperties, EmptySeq
<1>3. Head(q) = q[1]
  BY <1>2
<1>4. DOMAIN r = 1..(Len(q) - 1)
  BY <1>1, <1>2
<1>5. \A i \in DOMAIN r : i \in 1..Len(r) /\ r[i] = q[i + 1]
  BY <1>1, <1>2
<1>6. \A i \in 1..(Len(q) - 1) : i \in Nat /\ i + 1 \in 1..Len(q) /\ i + 1 # 1
  BY ONLY <1>2
<1>7. \A j \in 1..Len(q) : j \in Nat /\ (j # 1 => j - 1 \in 1..(Len(q) - 1) /\ (j - 1) + 1 = j)
  BY ONLY <1>2
<1> QED BY <1>1, <1>2, <1>3, <1>4, <1>5, <1>6, <1>7

\* What a new message at the end of a mailbox adds to the messages about a descriptor.
LEMMA SentAbout ==
  ASSUME NEW T, NEW q \in Seq(T), NEW m \in T, NEW r, r = Append(q, m), NEW type, NEW fd
  PROVE  /\ ~(m.type = type /\ m.payload = fd) =>
              (NoMsg(q, type, fd) => NoMsg(r, type, fd)) /\ (OneMsg(q, type, fd) => OneMsg(r, type, fd))
         /\ m.type = type /\ m.payload = fd /\ NoMsg(q, type, fd) => OneMsg(r, type, fd)
<1>1. /\ \A i \in DOMAIN q : i \in DOMAIN r /\ r[i] = q[i]
      /\ Len(q) + 1 \in DOMAIN r /\ r[Len(q) + 1] = m
      /\ \A i \in DOMAIN r : i \in DOMAIN q \/ i = Len(q) + 1
  BY Sent
<1> QED BY <1>1 DEF NoMsg, OneMsg, IsMsg

\* What taking the first message leaves of them.
LEMMA TakenAbout ==
  ASSUME NEW T, NEW q \in Seq(T), q # <<>>, NEW r, r = Tail(q), NEW type, NEW fd
  PROVE  /\ NoMsg(q, type, fd) => NoMsg(r, type, fd)
         /\ ~(Head(q).type = type /\ Head(q).payload = fd) => (OneMsg(q, type, fd) => OneMsg(r, type, fd))
         /\ Head(q).type = type /\ Head(q).payload = fd =>
              ~NoMsg(q, type, fd) /\ (OneMsg(q, type, fd) => NoMsg(r, type, fd))
<1>1. /\ 1 \in DOMAIN q /\ Head(q) = q[1]
      /\ \A i \in DOMAIN r : i \in Nat /\ i + 1 \in DOMAIN q /\ i + 1 # 1 /\ r[i] = q[i + 1]
      /\ \A j \in DOMAIN q : j # 1 => j - 1 \in DOMAIN r /\ r[j - 1] = q[j] /\ (j - 1) + 1 = j
  BY Taken
<1>2. NoMsg(q, type, fd) => NoMsg(r, type, fd)
  BY <1>1 DEF NoMsg, IsMsg
<1>3. ASSUME ~(Head(q).type = type /\ Head(q).payload = fd), OneMsg(q, type, fd)  PROVE OneMsg(r, type, fd)
  <2>1. PICK i \in DOMAIN q : IsMsg(q, i, type, fd) /\ \A j \in DOMAIN q : IsMsg(q, j, type, fd) => j = i
    BY <1>3 DEF OneMsg
  <2>2. i # 1 /\ i - 1 \in DOMAIN r /\ IsMsg(r, i - 1, type, fd)
    BY <1>1, <1>3, <2>1 DEF IsMsg
  <2>3. ASSUME NEW j \in DOMAIN r, IsMsg(r, j, type, fd)  PROVE j = i - 1
    <3>1. j \in Nat /\ j + 1 = i
      BY <1>1, <2>1, <2>3 DEF IsMsg
    <3> QED BY <3>1
  <2> QED BY <2>2, <2>3 DEF OneMsg
<1>4. ASSUME Head(q).type = type, Head(q).payload = fd
      PROVE  ~NoMsg(q, type, fd) /\ (OneMsg(q, type, fd) => NoMsg(r, type, fd))
  BY <1>1, <1>4 DEF NoMsg, OneMsg, IsMsg
<1> QED BY <1>2, <1>3, <1>4

\* The actors that run a reader or a writer, and the ids that are free.
LEMMA Working ==
  ASSUME ActorTypes, NEW id \in Id, actor[id].fn \in Workers
  PROVE  id # serverid /\ id # accpetorid /\ actor[id] \in [fn : Workers, fd : Fd, conn : Conn]
BY DEF ActorTypes, NoActor, Workers

LEMMA FreeIds ==
  ASSUME ActorTypes, NEW id \in Free
  PROVE  id \in Id /\ id # serverid /\ id # accpetorid /\ actor[id] = NoActor
BY DEF ActorTypes, NoActor, Workers, Free

\* The inbox of the server gets a message.
LEMMA InboxGets ==
  ASSUME MailTypes, NEW m \in ServerMsg, sherrySendMsg(serverid, m)
  PROVE  /\ DOMAIN mailbox' = Id /\ Inbox' \in Seq(ServerMsg) /\ Inbox' = Append(Inbox, m)
         /\ \A id \in Id : id # serverid => mailbox'[id] = mailbox[id]
         /\ \A i \in DOMAIN Inbox' : (i \in DOMAIN Inbox /\ Inbox'[i] = Inbox[i]) \/ Inbox'[i] = m
         /\ \A type, fd : ~(m.type = type /\ m.payload = fd) =>
              /\ NoMsg(Inbox, type, fd) => NoMsg(Inbox', type, fd)
              /\ OneMsg(Inbox, type, fd) => OneMsg(Inbox', type, fd)
         /\ \A type, fd : m.type = type /\ m.payload = fd /\ NoMsg(Inbox, type, fd) => OneMsg(Inbox', type, fd)
<1>1. /\ DOMAIN mailbox' = Id /\ Inbox' = Append(Inbox, m) /\ Inbox \in Seq(ServerMsg)
      /\ \A id \in Id : id # serverid => mailbox'[id] = mailbox[id]
  BY Ids DEF MailTypes, sherrySendMsg, Inbox
<1> DEFINE q == Inbox  r == Inbox'
<1>2. q \in Seq(ServerMsg) /\ r = Append(q, m)
  BY <1>1
<1> HIDE DEF q, r
<1>3. /\ r \in Seq(ServerMsg)
      /\ \A i \in DOMAIN r : (i \in DOMAIN q /\ r[i] = q[i]) \/ r[i] = m
  BY <1>2, Sent
<1>4. ASSUME NEW type, NEW fd, ~(m.type = type /\ m.payload = fd)
      PROVE  (NoMsg(q, type, fd) => NoMsg(r, type, fd)) /\ (OneMsg(q, type, fd) => OneMsg(r, type, fd))
  BY <1>2, <1>4, SentAbout
<1>5. \A type, fd : m.type = type /\ m.payload = fd /\ NoMsg(q, type, fd) => OneMsg(r, type, fd)
  BY <1>2, SentAbout
<1> QED BY <1>1, <1>3, <1>4, <1>5 DEF q, r

\* The server takes one.
LEMMA InboxTakes ==
  ASSUME MailTypes, NEW type, Receives(type), Inbox' = Tail(Inbox)
  PROVE  /\ Inbox' \in Seq(ServerMsg) /\ 1 \in DOMAIN Inbox /\ Head(Inbox) = Inbox[1]
         /\ Head(Inbox) \in ServerMsg /\ Head(Inbox).type = type
         /\ \A i \in DOMAIN Inbox' : i \in Nat /\ i + 1 \in DOMAIN Inbox /\ Inbox'[i] = Inbox[i + 1]
         /\ \A t, fd : /\ NoMsg(Inbox, t, fd) => NoMsg(Inbox', t, fd)
                       /\ ~(type = t /\ Head(Inbox).payload = fd) /\ OneMsg(Inbox, t, fd) => OneMsg(Inbox', t, fd)
                       /\ type = t /\ Head(Inbox).payload = fd =>
                            ~NoMsg(Inbox, t, fd) /\ (OneMsg(Inbox, t, fd) => NoMsg(Inbox', t, fd))
<1>1. Inbox \in Seq(ServerMsg) /\ Inbox # <<>> /\ Head(Inbox).type = type
  BY DEF MailTypes, Receives, Inbox
<1> DEFINE q == Inbox  r == Inbox'
<1>2. q \in Seq(ServerMsg) /\ q # <<>> /\ r = Tail(q) /\ Head(q).type = type
  BY <1>1
<1> HIDE DEF q, r
<1>3. /\ r \in Seq(ServerMsg) /\ 1 \in DOMAIN q /\ Head(q) = q[1] /\ Head(q) \in ServerMsg
      /\ \A i \in DOMAIN r : i \in Nat /\ i + 1 \in DOMAIN q /\ r[i] = q[i + 1]
  BY <1>2, Taken
<1>4. ASSUME NEW t, NEW fd
      PROVE  /\ NoMsg(q, t, fd) => NoMsg(r, t, fd)
             /\ ~(type = t /\ Head(q).payload = fd) /\ OneMsg(q, t, fd) => OneMsg(r, t, fd)
             /\ type = t /\ Head(q).payload = fd =>
                  ~NoMsg(q, t, fd) /\ (OneMsg(q, t, fd) => NoMsg(r, t, fd))
  BY <1>2, TakenAbout
<1> QED BY <1>2, <1>3, <1>4 DEF q, r

-----------------------------------------------------------------------------
(* The acceptor and the readers *)

LEMMA CInit == Init => ChatInv
<1> SUFFICES ASSUME Init  PROVE ChatInv
  OBVIOUS
<1>1. /\ DOMAIN actor = Id /\ DOMAIN mailbox = Id /\ DOMAIN writing = Id
      /\ \A id \in Id : mailbox[id] = <<>> /\ writing[id] = <<>>
      /\ Inbox = <<>> /\ DOMAIN Inbox = {}
  BY Ids DEF Init, Inbox
<1>2. /\ actor[serverid] = [NoActor EXCEPT !.fn = "main"]
      /\ actor[accpetorid] = [NoActor EXCEPT !.fn = "clientAccpetor"]
      /\ \A id \in Id \ {serverid, accpetorid} : actor[id] = NoActor
  BY Ids DEF Init
<1>3. \A id \in Id : actor[id].fn \notin Workers
  BY <1>2 DEF NoActor, Workers
<1>4. ActorTypes
  BY <1>1, <1>2 DEF ActorTypes
<1>5. MailTypes
  <2>1. <<>> \in Seq(ServerMsg) /\ <<>> \in Seq(WriterMsg) /\ <<>> \in Seq(Text)
    BY EmptySeq
  <2> QED BY <1>1, <2>1, Ids DEF MailTypes
<1>6. DataTypes
  <2>1. \A T : <<>> \in Seq(T)
    BY EmptySeq
  <2>2. clireader \in [Fd -> Id] /\ cliwriter \in [Fd -> Id] /\ socket \in [Fd -> 0..MaxConn]
    BY Ids DEF Init
  <2>3. /\ said \in [Conn -> Nat] /\ peer \in [Conn -> {"new", "open", "gone"}]
        /\ out \in [Conn -> [Conn -> Seq(Text)]] /\ log \in Seq(Line)
        /\ joined \in [Conn -> [at : Nat, gone : SUBSET Conn]]
    BY <2>1 DEF Init
  <2> QED BY <2>2, <2>3 DEF DataTypes
<1>7. \A fd \in Fd : socket[fd] = NoConn /\ cliwriter[fd] = 0 /\ clireader[fd] = 0
  BY DEF Init
<1>8. Sockets /\ \A fd \in Fd : Placed(fd) /\ WriterHas(fd)
  BY <1>1, <1>3, <1>7 DEF Sockets, Placed, Unused, NoMsg, NoReader, IsReader, Workers, WriterHas
<1>9. \A id \in Id : ReaderHas(id) /\ PendingForeign(id)
  BY <1>3 DEF ReaderHas, PendingForeign, Workers
<1>10. NoEcho
  BY DEF NoEcho, Init
<1> QED BY <1>1, <1>4, <1>5, <1>6, <1>8, <1>9, <1>10 DEF ChatInv, LinesRead

\* Who has a descriptor, when the server gets a message that is not about it.
LEMMA PlacedKeeps ==
  ASSUME NEW fd \in Fd, Placed(fd), socket'[fd] = socket[fd],
         cliwriter'[fd] = cliwriter[fd], clireader'[fd] = clireader[fd],
         \A type \in {"CREATE", "EXIT"} :
           /\ NoMsg(Inbox, type, fd) => NoMsg(Inbox', type, fd)
           /\ OneMsg(Inbox, type, fd) => OneMsg(Inbox', type, fd),
         \A id \in Id : IsReader(id, fd)' <=> IsReader(id, fd)
  PROVE  Placed(fd)'
<1>1. NoReader(fd) => NoReader(fd)'
  BY DEF NoReader
<1>2. Unused(fd) => Unused(fd)'
  BY <1>1 DEF Unused
<1>3. Coming(fd) => Coming(fd)'
  BY <1>1 DEF Coming
<1>4. Up(fd) => Up(fd)'
  BY DEF Up
<1>5. Leaving(fd) => Leaving(fd)'
  BY <1>1 DEF Leaving
<1> QED BY <1>2, <1>3, <1>4, <1>5 DEF Placed

LEMMA WriterIs ==
  ASSUME ChatInv, NEW fd \in Fd, cliwriter[fd] # 0
  PROVE  /\ cliwriter[fd] \in Id /\ cliwriter[fd] # serverid
         /\ actor[cliwriter[fd]].fn = "clientWriter" /\ actor[cliwriter[fd]].fd = fd
<1>1. actor[cliwriter[fd]] = [fn |-> "clientWriter", fd |-> fd, conn |-> socket[fd]]
  BY DEF ChatInv, WriterHas
<1>2. cliwriter[fd] \in Id /\ actor[cliwriter[fd]].fn \in Workers
  BY <1>1 DEF ChatInv, DataTypes, Workers
<1> QED BY <1>1, <1>2, Working DEF ChatInv

\* What a step leaves of a writer that it does not touch, ...
LEMMA WriterKeeps ==
  ASSUME ChatInv, NEW fd \in Fd, cliwriter'[fd] = cliwriter[fd], socket'[fd] = socket[fd],
         cliwriter[fd] # 0 => /\ actor'[cliwriter[fd]] = actor[cliwriter[fd]]
                              /\ mailbox'[cliwriter[fd]] = mailbox[cliwriter[fd]]
  PROVE  WriterHas(fd)'
<1> SUFFICES ASSUME cliwriter[fd] # 0
             PROVE  WriterHas(fd)'
  BY DEF WriterHas
<1>1. PICK w : w = cliwriter[fd]
  OBVIOUS
<1>2. /\ actor[w] = [fn |-> "clientWriter", fd |-> fd, conn |-> socket[fd]]
      /\ \A i \in DOMAIN mailbox[w] : mailbox[w][i].type = "WRITE"
  BY <1>1 DEF ChatInv, WriterHas
<1>3. cliwriter'[fd] = w /\ actor'[w] = actor[w] /\ mailbox'[w] = mailbox[w]
  BY <1>1
<1> QED BY <1>2, <1>3 DEF WriterHas

\* ... of the texts that wait for it or that it writes, ...
LEMMA TextsKeep ==
  ASSUME ChatInv, NEW id \in Id, actor'[id] = actor[id], writing'[id] = writing[id],
         id # serverid => mailbox'[id] = mailbox[id],
         \A t \in Text, g \in Fd : Foreign(t, g) => Foreign(t, g)'
  PROVE  PendingForeign(id)'
<1> SUFFICES ASSUME actor[id].fn = "clientWriter"
             PROVE  PendingForeign(id)'
  BY DEF PendingForeign
<1>1. MailTypes /\ ActorTypes /\ PendingForeign(id)
  BY DEF ChatInv
<1>2. id # serverid /\ actor[id].fd \in Fd
  BY <1>1, Working DEF Workers
<1>3. \A i \in DOMAIN writing[id] : writing[id][i] \in Text
  BY <1>1, LenProperties DEF MailTypes
<1>4. \A i \in DOMAIN mailbox[id] : mailbox[id][i].type = "WRITE" => mailbox[id][i].payload \in Text
  <2>1. \A i \in DOMAIN mailbox[id] : mailbox[id][i] \in WriterMsg
    BY <1>1, <1>2, LenProperties DEF MailTypes
  <2> QED BY <2>1 DEF WriterMsg
<1>5. PICK g \in Fd : g = actor[id].fd
  BY <1>2
<1>6. /\ \A i \in DOMAIN writing[id] : Foreign(writing[id][i], g)
      /\ \A i \in DOMAIN mailbox[id] : mailbox[id][i].type = "WRITE" => Foreign(mailbox[id][i].payload, g)
  BY <1>1, <1>5 DEF PendingForeign
<1>7. \A t \in Text : Foreign(t, g) => Foreign(t, g)'
  OBVIOUS
<1>8. \A i \in DOMAIN writing'[id] : \A t : t = writing'[id][i] => Foreign(t, g)'
  BY <1>3, <1>6, <1>7
<1>9. \A i \in DOMAIN mailbox'[id] : \A t :
        mailbox'[id][i].type = "WRITE" /\ t = mailbox'[id][i].payload => Foreign(t, g)'
  BY <1>2, <1>4, <1>6, <1>7
<1> QED BY <1>5, <1>8, <1>9 DEF PendingForeign, Foreign

\* ... and of the lines on their way to the server.
LEMMA LinesKeep ==
  ASSUME ChatInv, NEW more,
         \A i \in DOMAIN Inbox' : (\E j \in DOMAIN Inbox : Inbox'[i] = Inbox[j]) \/ Inbox'[i] = more,
         \A msg \in ServerMsg : ReadFrom(msg) => ReadFrom(msg)',
         ReadFrom(more)'
  PROVE  LinesRead'
<1>1. \A i \in DOMAIN Inbox : Inbox[i] \in ServerMsg /\ ReadFrom(Inbox[i])
  BY LenProperties DEF ChatInv, MailTypes, LinesRead, Inbox
<1>2. \A i \in DOMAIN Inbox' : \A msg : msg = Inbox'[i] => ReadFrom(msg)'
  BY <1>1
<1> QED BY <1>2 DEF LinesRead, ReadFrom

LEMMA CAccept ==
  ASSUME ChatInv, NEW c \in Conn, clientAccpetor(c)
  PROVE  ChatInv'
<1>1. PICK fd \in Fd :
        /\ socket[fd] = NoConn /\ socket' = [socket EXCEPT ![fd] = c]
        /\ sherrySendMsg(serverid, [type |-> "CREATE", sender |-> accpetorid, payload |-> fd])
  BY DEF clientAccpetor
<1> DEFINE m == [type |-> "CREATE", sender |-> accpetorid, payload |-> fd]
<1>2. /\ peer[c] = "new" /\ peer' = [peer EXCEPT ![c] = "open"]
      /\ UNCHANGED <<actor, writing, clireader, cliwriter, said, out, log, joined>>
  BY DEF clientAccpetor, tables
<1>3. ActorTypes /\ MailTypes /\ DataTypes /\ Sockets
  BY DEF ChatInv
<1>4. m \in ServerMsg /\ m.type = "CREATE" /\ m.payload = fd
  BY Ids DEF ServerMsg
<1>5. sherrySendMsg(serverid, m)
  BY <1>1
<1> HIDE DEF m
<1>6. /\ DOMAIN mailbox' = Id /\ Inbox' \in Seq(ServerMsg) /\ Inbox' = Append(Inbox, m)
      /\ \A id \in Id : id # serverid => mailbox'[id] = mailbox[id]
      /\ \A i \in DOMAIN Inbox' : (i \in DOMAIN Inbox /\ Inbox'[i] = Inbox[i]) \/ Inbox'[i] = m
      /\ \A type, g : ~(m.type = type /\ m.payload = g) =>
           /\ NoMsg(Inbox, type, g) => NoMsg(Inbox', type, g)
           /\ OneMsg(Inbox, type, g) => OneMsg(Inbox', type, g)
      /\ \A type, g : m.type = type /\ m.payload = g /\ NoMsg(Inbox, type, g) => OneMsg(Inbox', type, g)
  BY <1>3, <1>4, <1>5, InboxGets
<1>7. /\ socket' \in [Fd -> 0..MaxConn] /\ socket'[fd] = c /\ c # NoConn
      /\ \A g \in Fd : g # fd => socket'[g] = socket[g] /\ socket[g] # c
      /\ peer' \in [Conn -> {"new", "open", "gone"}]
      /\ \A d \in Conn : peer[d] # "new" => d # c /\ peer'[d] = peer[d]
      /\ peer'[c] = "open"
  BY <1>1, <1>2, <1>3, Ids DEF DataTypes, Sockets
<1>8. ActorTypes' /\ MailTypes' /\ DataTypes' /\ Sockets' /\ NoEcho'
  <2>1. ActorTypes'
    BY <1>2, <1>3 DEF ActorTypes
  <2>2. MailTypes'
    BY <1>2, <1>3, <1>6 DEF MailTypes, Inbox
  <2>3. DataTypes'
    BY <1>2, <1>3, <1>7 DEF DataTypes
  <2>4. Sockets'
    <3>1. \A g \in Fd : socket[g] \in Conn \cup {NoConn} /\ (socket[g] # NoConn => peer[socket[g]] # "new")
      BY <1>3, Ids DEF DataTypes, Sockets
    <3> QED BY <1>3, <1>7, <3>1 DEF Sockets
  <2>5. NoEcho'
    BY <1>2 DEF ChatInv, NoEcho
  <2> QED BY <2>1, <2>2, <2>3, <2>4, <2>5
<1>9. ASSUME NEW g \in Fd  PROVE Placed(g)' /\ WriterHas(g)'
  <2>1. Placed(g) /\ WriterHas(g)
    BY DEF ChatInv
  <2>2. CASE g = fd
    <3>1. Unused(g)
      BY <1>1, <2>1, <2>2 DEF Placed, Coming, Up, Leaving
    <3>2. OneMsg(Inbox', "CREATE", g)
      BY <1>4, <1>6, <2>2, <3>1 DEF Unused
    <3>3. NoMsg(Inbox', "EXIT", g) /\ NoReader(g)'
      BY <1>2, <1>4, <1>6, <3>1 DEF Unused, NoReader, IsReader
    <3> QED BY <1>2, <1>7, <2>2, <3>1, <3>2, <3>3 DEF Unused, Coming, Placed, WriterHas
  <2>3. CASE g # fd
    <3>1. Placed(g)'
      BY <1>2, <1>4, <1>6, <1>7, <2>1, <2>3, PlacedKeeps DEF IsReader
    <3>2. WriterHas(g)'
      BY <1>2, <1>6, <1>7, <2>3, WriterIs, WriterKeeps
    <3> QED BY <3>1, <3>2
  <2> QED BY <2>2, <2>3
<1>10. Unused(fd)
  BY <1>1 DEF ChatInv, Placed, Coming, Up, Leaving
<1>11. ASSUME NEW id \in Id  PROVE ReaderHas(id)'
  <2>1. actor[id].fn = "clientReader" => actor[id].fd \in Fd /\ actor[id].fd # fd
    BY <1>3, <1>10, Working DEF Workers, Unused, NoReader, IsReader
  <2> QED BY <1>2, <1>7, <2>1 DEF ChatInv, ReaderHas
<1>12. ASSUME NEW t \in Text, NEW g \in Fd, Foreign(t, g)  PROVE Foreign(t, g)'
  <2>1. t.from \in Conn \/ t.from = NoConn
    BY Ids DEF Text
  <2> QED BY <1>7, <1>12, <2>1 DEF Foreign
<1>13. \A id \in Id : PendingForeign(id)'
  BY <1>2, <1>6, <1>12, TextsKeep
<1>14. LinesRead'
  <2>1. ASSUME NEW msg \in ServerMsg, ReadFrom(msg)  PROVE ReadFrom(msg)'
    <3>1. msg.type = "READ" => msg.payload.from \in Conn
      BY DEF ServerMsg, Line
    <3> QED BY <1>2, <1>7, <2>1, <3>1 DEF ReadFrom
  <2>2. ReadFrom(m)'
    BY <1>4 DEF ReadFrom
  <2> QED BY <1>6, <2>1, <2>2, LinesKeep
<1> QED BY <1>8, <1>9, <1>11, <1>13, <1>14 DEF ChatInv

\* A reader that runs is the one of its descriptor, which is up.
LEMMA ReaderIs ==
  ASSUME ChatInv, NEW id \in Id, actor[id].fn = "clientReader"
  PROVE  /\ actor[id].fd \in Fd /\ actor[id].conn = socket[actor[id].fd]
         /\ Up(actor[id].fd) /\ clireader[actor[id].fd] = id
         /\ socket[actor[id].fd] \in Conn /\ peer[socket[actor[id].fd]] # "new"
         /\ \A fd \in Fd : socket[fd] = socket[actor[id].fd] => fd = actor[id].fd
<1>1. PICK fd \in Fd : fd = actor[id].fd
  BY Working DEF ChatInv, Workers
<1>2. IsReader(id, fd)
  BY <1>1 DEF IsReader
<1>3. Up(fd)
  BY <1>2 DEF ChatInv, Placed, Unused, Coming, Leaving, NoReader
<1>4. socket[fd] \in Conn /\ clireader[fd] = id
  BY <1>2, <1>3, Ids DEF Up, ChatInv, DataTypes
<1> QED BY <1>1, <1>3, <1>4, Ids DEF ChatInv, Sockets, ReaderHas

LEMMA CReaderReads ==
  ASSUME ChatInv, NEW id \in Id, ReaderReads(id)
  PROVE  ChatInv'
<1> DEFINE c == socket[actor[id].fd]
           m == [type |-> "READ", sender |-> id, payload |-> [from |-> c, n |-> said[c] + 1]]
<1>1. /\ actor[id].fn = "clientReader"
      /\ said' = [said EXCEPT ![c] = @ + 1] /\ sherrySendMsg(serverid, m)
      /\ UNCHANGED <<actor, writing, clireader, cliwriter, socket, peer, out, log, joined>>
  BY DEF ReaderReads, tables, history
<1>2. PICK fd \in Fd : fd = actor[id].fd
  BY <1>1, ReaderIs
<1>3. /\ Up(fd) /\ clireader[fd] = id /\ c = socket[fd] /\ c \in Conn /\ peer[c] # "new"
      /\ \A g \in Fd : socket[g] = c => g = fd
  BY <1>1, <1>2, ReaderIs
<1>4. ActorTypes /\ MailTypes /\ DataTypes
  BY DEF ChatInv
<1>5. m \in ServerMsg /\ m.type = "READ" /\ m.sender = id /\ m.payload.from = c
  BY <1>3, <1>4 DEF ServerMsg, Line, DataTypes
<1>6. said' \in [Conn -> Nat]
  BY <1>1, <1>3, <1>4 DEF DataTypes
<1> HIDE DEF m, c
<1>7. /\ DOMAIN mailbox' = Id /\ Inbox' \in Seq(ServerMsg) /\ Inbox' = Append(Inbox, m)
      /\ \A i \in Id : i # serverid => mailbox'[i] = mailbox[i]
      /\ \A i \in DOMAIN Inbox' : (i \in DOMAIN Inbox /\ Inbox'[i] = Inbox[i]) \/ Inbox'[i] = m
      /\ \A type \in {"CREATE", "EXIT"}, g \in Fd :
           /\ NoMsg(Inbox, type, g) => NoMsg(Inbox', type, g)
           /\ OneMsg(Inbox, type, g) => OneMsg(Inbox', type, g)
  BY <1>1, <1>4, <1>5, InboxGets
<1>8. ActorTypes' /\ MailTypes' /\ DataTypes' /\ Sockets' /\ NoEcho'
  <2>1. MailTypes'
    BY <1>1, <1>4, <1>7 DEF MailTypes, Inbox
  <2> QED BY <1>1, <1>4, <1>6, <2>1 DEF ChatInv, ActorTypes, DataTypes, Sockets, NoEcho
<1>9. ASSUME NEW g \in Fd  PROVE Placed(g)' /\ WriterHas(g)'
  <2>1. Placed(g)'
    BY <1>1, <1>7, PlacedKeeps DEF ChatInv, IsReader
  <2>2. WriterHas(g)'
    BY <1>1, <1>7, WriterIs, WriterKeeps
  <2> QED BY <2>1, <2>2
<1>10. \A i \in Id : ReaderHas(i)' /\ PendingForeign(i)'
  <2>1. \A t \in Text, g \in Fd : Foreign(t, g) => Foreign(t, g)'
    BY <1>1 DEF Foreign
  <2>2. \A i \in Id : ReaderHas(i)'
    BY <1>1 DEF ChatInv, ReaderHas
  <2> QED BY <1>1, <1>7, <2>1, <2>2, TextsKeep
<1>11. LinesRead'
  <2>1. \A msg \in ServerMsg : ReadFrom(msg) => ReadFrom(msg)'
    BY <1>1 DEF ReadFrom
  <2>2. PICK msg : msg = m
    OBVIOUS
  <2>3. ReadFrom(msg)'
    BY <1>1, <1>3, <1>5, <2>2 DEF ReadFrom, Up
  <2> QED BY <1>7, <2>1, <2>2, <2>3, LinesKeep
<1> QED BY <1>8, <1>9, <1>10, <1>11 DEF ChatInv

LEMMA CReaderEnds ==
  ASSUME ChatInv, NEW id \in Id, ReaderEnds(id)
  PROVE  ChatInv'
<1>1. PICK fd \in Fd : fd = actor[id].fd /\ actor[id].fn = "clientReader"
  BY ReaderIs DEF ReaderEnds
<1> DEFINE m == [type |-> "EXIT", sender |-> id, payload |-> fd]
<1>2. PICK c \in Conn : c = socket[fd]
  BY <1>1, ReaderIs
<1>3. /\ sherrySendMsg(serverid, m)
      /\ actor' = [actor EXCEPT ![id] = NoActor] /\ peer' = [peer EXCEPT ![c] = "gone"]
      /\ UNCHANGED <<writing, clireader, cliwriter, socket, said, out, log, joined>>
  BY <1>1, <1>2 DEF ReaderEnds, tables
<1>4. Up(fd) /\ clireader[fd] = id /\ peer[c] # "new"
  BY <1>1, <1>2, ReaderIs
<1>5. ActorTypes /\ MailTypes /\ DataTypes
  BY DEF ChatInv
<1>6. m \in ServerMsg /\ m.type = "EXIT" /\ m.payload = fd
  BY DEF ServerMsg
<1> HIDE DEF m
<1>7. /\ DOMAIN mailbox' = Id /\ Inbox' \in Seq(ServerMsg) /\ Inbox' = Append(Inbox, m)
      /\ \A i \in Id : i # serverid => mailbox'[i] = mailbox[i]
      /\ \A i \in DOMAIN Inbox' : (i \in DOMAIN Inbox /\ Inbox'[i] = Inbox[i]) \/ Inbox'[i] = m
      /\ \A type, g : ~(m.type = type /\ m.payload = g) =>
           /\ NoMsg(Inbox, type, g) => NoMsg(Inbox', type, g)
           /\ OneMsg(Inbox, type, g) => OneMsg(Inbox', type, g)
      /\ \A type, g : m.type = type /\ m.payload = g /\ NoMsg(Inbox, type, g) => OneMsg(Inbox', type, g)
  BY <1>3, <1>5, <1>6, InboxGets
<1>8. /\ id # serverid /\ id # accpetorid /\ actor'[id] = NoActor /\ actor'[id].fn \notin Workers
      /\ \A i \in Id : i # id => actor'[i] = actor[i]
      /\ \A d \in Conn : peer'[d] \in {"new", "open", "gone"} /\ (peer[d] # "new" => peer'[d] # "new")
  BY <1>1, <1>3, <1>5, Working DEF Workers, NoActor, ActorTypes, DataTypes
<1>9. ActorTypes' /\ MailTypes' /\ DataTypes' /\ Sockets' /\ NoEcho'
  <2>1. ActorTypes'
    BY <1>3, <1>5, <1>8, Ids DEF ActorTypes
  <2>2. MailTypes'
    <3>1. actor[id].fn # "clientWriter"
      BY <1>1
    <3> QED BY <1>3, <1>5, <1>7, <1>8, <3>1 DEF MailTypes, Inbox
  <2>3. DataTypes'
    BY <1>3, <1>5, <1>8 DEF DataTypes
  <2>4. Sockets'
    <3>1. \A g \in Fd : socket[g] \in Conn \cup {NoConn}
      BY <1>5, Ids DEF DataTypes
    <3> QED BY <1>3, <1>8, <3>1 DEF ChatInv, Sockets
  <2>5. NoEcho'
    BY <1>3 DEF ChatInv, NoEcho
  <2> QED BY <2>1, <2>2, <2>3, <2>4, <2>5
<1>10. ASSUME NEW g \in Fd  PROVE Placed(g)' /\ WriterHas(g)'
  <2>1. ASSUME g = fd  PROVE Placed(g)'
    <3>1. NoMsg(Inbox', "CREATE", g) /\ OneMsg(Inbox', "EXIT", g)
      BY <1>4, <1>6, <1>7, <2>1 DEF Up
    <3>2. NoReader(g)'
      BY <1>4, <1>8, <2>1 DEF Up, NoReader, IsReader, Workers
    <3> QED BY <1>3, <1>4, <2>1, <3>1, <3>2 DEF Up, Leaving, Placed
  <2>2. ASSUME g # fd  PROVE Placed(g)'
    <3>1. \A i \in Id : IsReader(i, g)' <=> IsReader(i, g)
      BY <1>1, <1>8, <2>2 DEF IsReader, Workers
    <3> QED BY <1>3, <1>6, <1>7, <2>2, <3>1, PlacedKeeps DEF ChatInv
  <2>3. WriterHas(g)'
    <3>1. cliwriter[g] # 0 => cliwriter[g] \in Id /\ cliwriter[g] # serverid /\ cliwriter[g] # id
      BY <1>1, WriterIs
    <3> QED BY <1>3, <1>7, <1>8, <3>1, WriterKeeps
  <2> QED BY <2>1, <2>2, <2>3
<1>11. ASSUME NEW t \in Text, NEW g \in Fd, Foreign(t, g)  PROVE Foreign(t, g)'
  <2>1. t.from \in Conn \/ t.from = NoConn
    BY Ids DEF Text
  <2> QED BY <1>3, <1>8, <1>11, <2>1 DEF Foreign
<1>12. ASSUME NEW i \in Id  PROVE ReaderHas(i)' /\ PendingForeign(i)'
  <2>1. CASE i = id
    BY <1>8, <2>1 DEF ReaderHas, PendingForeign, Workers
  <2>2. CASE i # id
    <3>1. ReaderHas(i)'
      BY <1>3, <1>8, <2>2 DEF ChatInv, ReaderHas
    <3> QED BY <1>3, <1>7, <1>8, <1>11, <2>2, <3>1, TextsKeep
  <2> QED BY <2>1, <2>2
<1>13. LinesRead'
  <2>1. ASSUME NEW msg \in ServerMsg, ReadFrom(msg)  PROVE ReadFrom(msg)'
    <3>1. msg.type = "READ" => msg.payload.from \in Conn
      BY DEF ServerMsg, Line
    <3> QED BY <1>3, <1>8, <2>1, <3>1 DEF ReadFrom
  <2>2. ReadFrom(m)'
    BY <1>6 DEF ReadFrom
  <2> QED BY <1>7, <2>1, <2>2, LinesKeep
<1> QED BY <1>9, <1>10, <1>12, <1>13 DEF ChatInv

-----------------------------------------------------------------------------
(* The writers *)

\* A writer writes what the connection on its descriptor has not sent.
LEMMA WriteIsForeign ==
  ASSUME ChatInv, NEW id \in Id, actor[id].fn = "clientWriter", sherryWrite(id)
  PROVE  out' \in [Conn -> [Conn -> Seq(Text)]] /\ NoEcho'
<1>1. MailTypes /\ DataTypes /\ NoEcho /\ PendingForeign(id)
  BY DEF ChatInv
<1>2. PICK fd \in Fd, d \in Conn : fd = actor[id].fd /\ d = actor[id].conn
  BY Working DEF ChatInv, Workers
<1>3. PICK c : c = socket[fd]
  OBVIOUS
<1>4. c \in Conn \cup {NoConn}
  BY <1>1, <1>3, Ids DEF DataTypes
<1>5. CASE c = NoConn \/ writing[id] = <<>>
  <2>1. out' = out
    BY <1>2, <1>3, <1>5 DEF sherryWrite
  <2> QED BY <1>1, <2>1 DEF DataTypes, NoEcho
<1>6. CASE ~(c = NoConn \/ writing[id] = <<>>)
  <2>1. PICK t : t = writing[id][1]
    OBVIOUS
  <2>2. out' = [out EXCEPT ![c][d] = Append(@, t)] /\ c \in Conn
    BY <1>2, <1>3, <1>4, <1>6, <2>1 DEF sherryWrite
  <2>3. 1 \in DOMAIN writing[id] /\ t \in Text
    BY <1>1, <1>6, <2>1, LenProperties, EmptySeq DEF MailTypes
  <2>4. t.from # c
    BY <1>1, <1>2, <1>3, <1>6, <2>1, <2>3 DEF PendingForeign, Foreign
  <2> DEFINE q == out[c][d]  r == out'[c][d]
  <2>5. q \in Seq(Text) /\ r = Append(q, t)
    BY <1>1, <2>2 DEF DataTypes
  <2>6. \A e, f \in Conn : e # c \/ f # d => out'[e][f] = out[e][f]
    BY <1>1, <2>2 DEF DataTypes
  <2>7. DOMAIN out' = Conn /\ \A e \in Conn : out'[e] = [f \in Conn |-> out'[e][f]]
    BY <1>1, <2>2 DEF DataTypes
  <2>8. \A i \in DOMAIN q : q[i].from # c
    BY <1>1, <2>2 DEF NoEcho
  <2>9. r \in Seq(Text) /\ \A i \in DOMAIN r : r[i].from # c
    <3> HIDE DEF q, r
    <3>1. r \in Seq(Text) /\ \A i \in DOMAIN r : (i \in DOMAIN q /\ r[i] = q[i]) \/ r[i] = t
      BY <2>3, <2>5, Sent
    <3> QED BY <2>4, <2>8, <3>1
  <2>10. ASSUME NEW e \in Conn, NEW f \in Conn
         PROVE  out'[e][f] \in Seq(Text) /\ \A i \in DOMAIN out'[e][f] : out'[e][f][i].from # e
    <3>1. CASE e = c /\ f = d
      BY <2>9, <3>1
    <3>2. CASE e # c \/ f # d
      <4>1. out[e][f] \in Seq(Text) /\ \A i \in DOMAIN out[e][f] : out[e][f][i].from # e
        BY <1>1 DEF DataTypes, NoEcho
      <4> QED BY <2>6, <3>2, <4>1
    <3> QED BY <3>1, <3>2
  <2>11. out' \in [Conn -> [Conn -> Seq(Text)]]
    <3>1. out' = [e \in Conn |-> out'[e]]
      BY <1>1, <2>2 DEF DataTypes
    <3>2. \A e \in Conn : out'[e] \in [Conn -> Seq(Text)]
      BY <2>7, <2>10
    <3> QED BY <3>1, <3>2
  <2> QED BY <2>10, <2>11 DEF NoEcho
<1> QED BY <1>5, <1>6

LEMMA CClientWriter ==
  ASSUME ChatInv, NEW id \in Id, clientWriter(id)
  PROVE  ChatInv'
<1> DEFINE Same == actor'[id] = actor[id]
           Waits == Same /\ mailbox'[id] = mailbox[id] /\ writing'[id] = <<>>
           Takes == /\ Same /\ mailbox[id] # <<>> /\ Head(mailbox[id]).type = "WRITE"
                    /\ mailbox'[id] = Tail(mailbox[id]) /\ writing'[id] = <<Head(mailbox[id]).payload>>
           Ends == /\ mailbox[id] # <<>> /\ Head(mailbox[id]).type = "EXIT"
                   /\ actor'[id] = NoActor /\ mailbox'[id] = <<>> /\ writing'[id] = <<>>
<1>1. /\ actor[id].fn = "clientWriter" /\ sherryWrite(id)
      /\ UNCHANGED <<clireader, cliwriter, socket, said, peer, log, joined>>
  BY DEF clientWriter, tables
<1>2. /\ ActorTypes /\ MailTypes /\ DataTypes /\ PendingForeign(id)
      /\ DOMAIN actor = Id /\ DOMAIN mailbox = Id /\ DOMAIN writing = Id
  BY DEF ChatInv, ActorTypes, MailTypes
<1>3. id # serverid /\ id # accpetorid /\ actor[id].fd \in Fd /\ mailbox[id] \in Seq(WriterMsg)
  BY <1>1, <1>2, Working DEF Workers, MailTypes
<1>4. /\ \A i \in Id : i # id => actor'[i] = actor[i] /\ mailbox'[i] = mailbox[i] /\ writing'[i] = writing[i]
      /\ DOMAIN actor' = Id /\ DOMAIN mailbox' = Id /\ DOMAIN writing' = Id
  BY <1>2 DEF clientWriter
<1>5. Waits \/ Takes \/ Ends
  BY <1>2 DEF clientWriter
<1> DEFINE q == mailbox[id]  r == mailbox'[id]
<1>6. ASSUME Takes
      PROVE  /\ r \in Seq(WriterMsg) /\ 1 \in DOMAIN q /\ Head(q) = q[1]
             /\ Head(q).payload \in Text
             /\ \A i \in DOMAIN r : i + 1 \in DOMAIN q /\ r[i] = q[i + 1]
  <2>1. q \in Seq(WriterMsg) /\ q # <<>> /\ r = Tail(q) /\ Head(q).type = "WRITE"
    BY <1>3, <1>6
  <2> HIDE DEF q, r
  <2>2. /\ r \in Seq(WriterMsg) /\ 1 \in DOMAIN q /\ Head(q) = q[1] /\ Head(q) \in WriterMsg
        /\ \A i \in DOMAIN r : i + 1 \in DOMAIN q /\ r[i] = q[i + 1]
    BY <2>1, Taken
  <2> QED BY <2>1, <2>2 DEF WriterMsg
<1>7. ASSUME Ends, NEW fd \in Fd  PROVE cliwriter[fd] # id
  <2>1. 1 \in DOMAIN q /\ Head(q) = q[1]
    BY <1>3, <1>7, Taken
  <2> QED BY <1>3, <1>7, <2>1, Ids DEF ChatInv, WriterHas
<1>8. Inbox' = Inbox
  BY <1>3, <1>4, Ids DEF Inbox
<1>9. ActorTypes' /\ MailTypes' /\ DataTypes' /\ Sockets' /\ NoEcho'
  <2>1. ActorTypes'
    <3>1. actor'[id] \in {NoActor} \cup [fn : Workers, fd : Fd, conn : Conn]
      BY <1>2, <1>3, <1>5 DEF ActorTypes
    <3> QED BY <1>2, <1>3, <1>4, <3>1, Ids DEF ActorTypes
  <2>2. MailTypes'
    <3>1. mailbox'[id] \in Seq(WriterMsg) /\ (actor'[id].fn # "clientWriter" => mailbox'[id] = <<>>)
      BY <1>1, <1>3, <1>5, <1>6, EmptySeq
    <3>2. /\ writing'[id] \in Seq(Text) /\ Len(writing'[id]) <= 1
          /\ (actor'[id].fn # "clientWriter" => writing'[id] = <<>>)
      <4>1. \A t \in Text : <<t>> \in Seq(Text) /\ Len(<<t>>) = 1
        OBVIOUS
      <4>2. CASE Takes
        BY <1>1, <1>6, <4>1, <4>2
      <4>3. CASE Waits \/ Ends
        <5>1. <<>> \in Seq(Text) /\ Len(<<>>) = 0 /\ 0 <= 1
          BY EmptySeq
        <5>2. writing'[id] = <<>>
          BY <4>3
        <5> QED BY <5>1, <5>2
      <4> QED BY <1>5, <4>2, <4>3
    <3> QED BY <1>2, <1>3, <1>4, <3>1, <3>2, Ids DEF MailTypes
  <2>3. DataTypes' /\ NoEcho'
    BY <1>1, <1>2, WriteIsForeign DEF DataTypes
  <2>4. Sockets'
    BY <1>1 DEF ChatInv, Sockets
  <2> QED BY <2>1, <2>2, <2>3, <2>4
<1>10. ASSUME NEW g \in Fd  PROVE Placed(g)' /\ WriterHas(g)'
  <2>1. Placed(g)'
    <3>1. \A i \in Id : IsReader(i, g)' <=> IsReader(i, g)
      BY <1>1, <1>4, <1>5 DEF IsReader, NoActor
    <3> QED BY <1>1, <1>8, <3>1, PlacedKeeps DEF ChatInv
  <2>2. CASE cliwriter[g] # id
    <3>1. WriterHas(g)'
      BY <1>1, <1>4, <2>2, WriterIs, WriterKeeps
    <3> QED BY <2>1, <3>1
  <2>3. CASE cliwriter[g] = id
    <3>1. /\ Same /\ cliwriter'[g] = id
          /\ actor[id] = [fn |-> "clientWriter", fd |-> g, conn |-> socket[g]]
          /\ \A i \in DOMAIN mailbox[id] : mailbox[id][i].type = "WRITE"
      BY <1>1, <1>3, <1>5, <1>7, <2>3, Ids DEF ChatInv, WriterHas
    <3>2. \A i \in DOMAIN mailbox'[id] : mailbox'[id][i].type = "WRITE"
      BY <1>5, <1>6, <1>7, <2>3, <3>1
    <3> QED BY <1>1, <2>1, <3>1, <3>2 DEF WriterHas
  <2> QED BY <2>2, <2>3
<1>11. \A t \in Text, g \in Fd : Foreign(t, g) => Foreign(t, g)'
  BY <1>1 DEF Foreign
<1>12. PendingForeign(id)'
  <2>1. CASE Waits
    BY <1>1, <1>2, <2>1 DEF PendingForeign, Foreign
  <2>2. CASE Takes
    <3>1. PICK t : t = Head(mailbox[id]).payload
      OBVIOUS
    <3>2. Foreign(t, actor[id].fd)
      BY <1>1, <1>2, <1>6, <2>2, <3>1 DEF PendingForeign
    <3>3. /\ \A i \in DOMAIN writing'[id] : writing'[id][i] = t
          /\ \A i \in DOMAIN mailbox'[id] : \E j \in DOMAIN mailbox[id] : mailbox'[id][i] = mailbox[id][j]
      BY <1>6, <2>2, <3>1
    <3> QED BY <1>1, <1>2, <2>2, <3>2, <3>3 DEF PendingForeign, Foreign
  <2>3. CASE Ends
    BY <2>3 DEF PendingForeign, NoActor
  <2> QED BY <1>5, <2>1, <2>2, <2>3
<1>13. ASSUME NEW i \in Id  PROVE ReaderHas(i)' /\ PendingForeign(i)'
  <2>1. CASE i = id
    BY <1>1, <1>5, <1>12, <2>1 DEF ReaderHas, NoActor
  <2>2. CASE i # id
    <3>1. ReaderHas(i)'
      BY <1>1, <1>4, <2>2 DEF ChatInv, ReaderHas
    <3> QED BY <1>4, <1>11, <2>2, <3>1, TextsKeep
  <2> QED BY <2>1, <2>2
<1>14. LinesRead'
  BY <1>1, <1>8 DEF ChatInv, LinesRead, ReadFrom
<1> QED BY <1>9, <1>10, <1>13, <1>14 DEF ChatInv

-----------------------------------------------------------------------------
(* The server *)

LEMMA CCreate ==
  ASSUME ChatInv, Create
  PROVE  ChatInv'
<1>1. PICK fd : fd = Head(mailbox[serverid]).payload
  OBVIOUS
<1> DEFINE Runs(fn) == [fn |-> fn, fd |-> fd, conn |-> socket[fd]]
<1>2. PICK reader, writer \in Free :
        /\ reader < writer
        /\ actor' = [actor EXCEPT ![reader] = Runs("clientReader"), ![writer] = Runs("clientWriter")]
        /\ clireader' = [clireader EXCEPT ![fd] = reader]
        /\ cliwriter' = [cliwriter EXCEPT ![fd] = writer]
        /\ mailbox' = [mailbox EXCEPT ![serverid] = Tail(@), ![writer] = Append(@, WriteMsg(welcomeMsg))]
  BY <1>1 DEF Create
<1>3. /\ Receives("CREATE") /\ UNCHANGED <<writing, socket, said, peer, out, log>>
      /\ joined' = [joined EXCEPT ![socket[fd]] = [at |-> Len(log), gone |-> {c \in Conn : peer[c] = "gone"}]]
  BY <1>1 DEF Create
<1>4. ActorTypes /\ MailTypes /\ DataTypes /\ DOMAIN actor = Id /\ DOMAIN mailbox = Id
  BY DEF ChatInv, ActorTypes, MailTypes
<1>5. /\ reader \in Id \ {serverid, accpetorid} /\ writer \in Id \ {serverid, accpetorid} /\ reader # writer
      /\ actor[reader] = NoActor /\ actor[writer] = NoActor
      /\ mailbox[reader] = <<>> /\ mailbox[writer] = <<>> /\ writing[reader] = <<>> /\ writing[writer] = <<>>
      /\ reader # 0 /\ writer # 0
  <2>1. \A i \in Id : i \in Nat
    BY DEF Id
  <2>2. actor[reader] = NoActor /\ actor[writer] = NoActor /\ NoActor.fn # "clientWriter"
    BY <1>4, FreeIds DEF NoActor
  <2>3. reader \in Id \ {serverid, accpetorid} /\ writer \in Id \ {serverid, accpetorid}
    BY <1>2, <1>4, FreeIds
  <2>4. reader # writer
    BY <1>2, <2>1, <2>3
  <2> QED BY <1>4, <2>2, <2>3, <2>4, Ids DEF MailTypes
<1>6. Inbox' = Tail(Inbox)
  BY <1>2, <1>4, <1>5, Ids DEF Inbox
<1>7. /\ Inbox' \in Seq(ServerMsg) /\ Head(Inbox) \in ServerMsg /\ Head(Inbox).type = "CREATE"
      /\ \A i \in DOMAIN Inbox' : i + 1 \in DOMAIN Inbox /\ Inbox'[i] = Inbox[i + 1]
      /\ \A t, g : /\ NoMsg(Inbox, t, g) => NoMsg(Inbox', t, g)
                   /\ ~("CREATE" = t /\ Head(Inbox).payload = g) /\ OneMsg(Inbox, t, g) => OneMsg(Inbox', t, g)
                   /\ "CREATE" = t /\ Head(Inbox).payload = g =>
                        ~NoMsg(Inbox, t, g) /\ (OneMsg(Inbox, t, g) => NoMsg(Inbox', t, g))
  BY <1>3, <1>4, <1>6, InboxTakes
<1>8. fd \in Fd /\ Head(Inbox).payload = fd
  BY <1>1, <1>7 DEF ServerMsg, Inbox
<1>9. Coming(fd) /\ socket[fd] \in Conn
  BY <1>4, <1>7, <1>8, Ids DEF ChatInv, Placed, Unused, Up, Leaving, Coming, DataTypes
<1>10. /\ actor'[reader] = Runs("clientReader") /\ actor'[writer] = Runs("clientWriter")
       /\ \A i \in Id : i # reader /\ i # writer => actor'[i] = actor[i]
       /\ DOMAIN actor' = Id /\ DOMAIN mailbox' = Id
       /\ \A i \in Id : i # serverid /\ i # writer => mailbox'[i] = mailbox[i]
       /\ clireader'[fd] = reader /\ cliwriter'[fd] = writer
       /\ \A g \in Fd : g # fd => clireader'[g] = clireader[g] /\ cliwriter'[g] = cliwriter[g]
  BY <1>2, <1>4, <1>5, <1>8 DEF DataTypes
<1> DEFINE q == mailbox[writer]  r == mailbox'[writer]
<1>11. r \in Seq(WriterMsg) /\ \A i \in DOMAIN r : r[i] = WriteMsg(welcomeMsg)
  <2>1. q = <<>> /\ r = Append(q, WriteMsg(welcomeMsg)) /\ q \in Seq(WriterMsg)
    BY <1>2, <1>4, <1>5 DEF MailTypes
  <2>2. WriteMsg(welcomeMsg) \in WriterMsg
    BY Ids, ChatAssumption DEF WriteMsg, welcomeMsg, WriterMsg, Text, NoConn
  <2> HIDE DEF q, r
  <2>3. DOMAIN q = {}
    BY <2>1
  <2> QED BY <2>1, <2>2, <2>3, Sent
<1>12. ActorTypes' /\ MailTypes' /\ DataTypes' /\ Sockets' /\ NoEcho'
  <2>1. ActorTypes'
    <3>1. \A fn \in Workers : Runs(fn) \in [fn : Workers, fd : Fd, conn : Conn]
      BY <1>8, <1>9
    <3>2. actor'[reader] \in [fn : Workers, fd : Fd, conn : Conn] /\ actor'[writer] \in [fn : Workers, fd : Fd, conn : Conn]
      BY <1>10, <3>1 DEF Workers
    <3> QED BY <1>4, <1>5, <1>10, <3>2, Ids DEF ActorTypes
  <2>2. MailTypes'
    <3>1. actor'[writer].fn = "clientWriter"
      BY <1>10
    <3>2. \A i \in Id : actor'[i].fn # "clientWriter" => actor[i].fn # "clientWriter"
      BY <1>5, <1>10, <3>1 DEF NoActor
    <3>3. Inbox' = mailbox'[serverid]
      BY DEF Inbox
    <3>4. ASSUME NEW i \in Id \ {serverid}
          PROVE  mailbox'[i] \in Seq(WriterMsg) /\ (actor'[i].fn # "clientWriter" => mailbox'[i] = <<>>)
      BY <1>4, <1>10, <1>11, <3>1, <3>2 DEF MailTypes
    <3> QED BY <1>3, <1>4, <1>7, <1>10, <3>2, <3>3, <3>4 DEF MailTypes
  <2>3. DataTypes'
    <3>1. Len(log) \in Nat
      BY <1>4, LenProperties DEF DataTypes
    <3>2. joined' \in [Conn -> [at : Nat, gone : SUBSET Conn]]
      BY <1>3, <1>4, <1>9, <3>1 DEF DataTypes
    <3> QED BY <1>2, <1>3, <1>4, <1>5, <1>8, <3>2 DEF DataTypes
  <2>4. Sockets' /\ NoEcho'
    BY <1>3 DEF ChatInv, Sockets, NoEcho
  <2> QED BY <2>1, <2>2, <2>3, <2>4
<1>13. \A g \in Fd : cliwriter[g] # 0 =>
         cliwriter[g] \in Id /\ cliwriter[g] # serverid /\ cliwriter[g] # reader /\ cliwriter[g] # writer
  BY <1>5, WriterIs DEF NoActor
<1>14. ASSUME NEW g \in Fd  PROVE Placed(g)' /\ WriterHas(g)'
  <2>1. CASE g = fd
    <3>1. NoMsg(Inbox', "CREATE", g) /\ NoMsg(Inbox', "EXIT", g)
      BY <1>7, <1>8, <1>9, <2>1 DEF Coming
    <3>2. \A i \in Id : IsReader(i, g)' <=> i = reader
      BY <1>9, <1>10, <2>1 DEF Coming, NoReader, IsReader
    <3>3. Up(g)'
      BY <1>3, <1>5, <1>9, <1>10, <2>1, <3>1, <3>2 DEF Coming, Up
    <3>4. actor'[writer] = [fn |-> "clientWriter", fd |-> g, conn |-> socket'[g]]
      BY <1>3, <1>10, <2>1
    <3>5. \A i \in DOMAIN mailbox'[writer] : mailbox'[writer][i].type = "WRITE"
      BY <1>11 DEF WriteMsg
    <3>6. WriterHas(g)'
      BY <1>10, <2>1, <3>4, <3>5 DEF WriterHas
    <3> QED BY <3>3, <3>6 DEF Placed
  <2>2. CASE g # fd
    <3>1. \A i \in Id : IsReader(i, g)' <=> IsReader(i, g)
      BY <1>5, <1>10, <2>2 DEF IsReader, NoActor
    <3>2. Placed(g)'
      BY <1>3, <1>7, <1>8, <1>10, <2>2, <3>1, PlacedKeeps DEF ChatInv
    <3>3. WriterHas(g)'
      BY <1>3, <1>10, <1>13, <2>2, WriterKeeps
    <3> QED BY <3>2, <3>3
  <2> QED BY <2>1, <2>2
<1>15. \A t \in Text, g \in Fd : Foreign(t, g) => Foreign(t, g)'
  BY <1>3 DEF Foreign
<1>16. ASSUME NEW i \in Id  PROVE ReaderHas(i)' /\ PendingForeign(i)'
  <2>1. CASE i = reader
    BY <1>3, <1>10, <2>1 DEF ReaderHas, PendingForeign
  <2>2. CASE i = writer
    <3>1. DOMAIN writing'[i] = {}
      BY <1>3, <1>5, <2>2
    <3>2. \A j \in DOMAIN mailbox'[i] : mailbox'[i][j].payload.from = NoConn
      BY <1>11, <2>2 DEF WriteMsg, welcomeMsg
    <3> QED BY <1>10, <2>2, <3>1, <3>2 DEF ReaderHas, PendingForeign, Foreign
  <2>3. CASE i # reader /\ i # writer
    <3>1. ReaderHas(i)'
      BY <1>3, <1>10, <2>3 DEF ChatInv, ReaderHas
    <3> QED BY <1>3, <1>10, <1>15, <2>3, <3>1, TextsKeep
  <2> QED BY <2>1, <2>2, <2>3
<1>17. LinesRead'
  <2>1. ASSUME NEW msg \in ServerMsg, ReadFrom(msg)  PROVE ReadFrom(msg)'
    BY <1>3, <1>9, <1>10, <2>1 DEF ReadFrom, Coming
  <2>2. PICK msg : msg = Head(Inbox)
    OBVIOUS
  <2>3. ReadFrom(msg)'
    BY <1>7, <2>2 DEF ReadFrom
  <2> QED BY <1>7, <2>1, <2>3, LinesKeep
<1> QED BY <1>12, <1>14, <1>16, <1>17 DEF ChatInv

LEMMA CExit ==
  ASSUME ChatInv, Exit
  PROVE  ChatInv'
<1>1. PICK fd : fd = Head(mailbox[serverid]).payload
  OBVIOUS
<1>2. PICK w : w = cliwriter[fd]
  OBVIOUS
<1> DEFINE m == [type |-> "EXIT", sender |-> serverid, payload |-> 0]
<1>3. /\ Receives("EXIT") /\ UNCHANGED <<actor, writing, said, peer, out, log, joined>>
      /\ mailbox' = [id \in Id |->
           CASE id = serverid -> Tail(mailbox[id])
             [] id \in {w} -> Append(mailbox[id], m)
             [] OTHER -> mailbox[id]]
      /\ socket' = [socket EXCEPT ![fd] = NoConn]
      /\ clireader' = [clireader EXCEPT ![fd] = 0]
      /\ cliwriter' = [cliwriter EXCEPT ![fd] = 0]
  BY <1>1, <1>2 DEF Exit, ExitTo, history
<1>4. ActorTypes /\ MailTypes /\ DataTypes
  BY DEF ChatInv
<1>5. w \in Id /\ w # serverid /\ Inbox' = Tail(Inbox)
  <2>1. /\ Inbox \in Seq(ServerMsg) /\ Inbox # <<>>
        /\ Head(Inbox).type = "EXIT" /\ Head(Inbox).payload = fd
    BY <1>1, <1>3, <1>4 DEF MailTypes, Receives, Inbox
  <2>2. 1 \in DOMAIN Inbox /\ Head(Inbox) = Inbox[1] /\ Head(Inbox) \in ServerMsg
    <3> DEFINE q == Inbox
    <3>1. q \in Seq(ServerMsg) /\ q # <<>>
      BY <2>1
    <3> HIDE DEF q
    <3>2. 1 \in DOMAIN q /\ Head(q) = q[1] /\ Head(q) \in ServerMsg
      BY <3>1, Taken
    <3> QED BY <3>2 DEF q
  <2>3. fd \in Fd /\ ~NoMsg(Inbox, "EXIT", fd)
    BY <2>1, <2>2 DEF NoMsg, IsMsg, ServerMsg
  <2>4. cliwriter[fd] # 0
    BY <2>3 DEF ChatInv, Placed, Unused, Coming, Up, Leaving
  <2>5. w \in Id /\ w # serverid
    BY <1>2, <2>3, <2>4, WriterIs
  <2>6. mailbox'[serverid] = Tail(mailbox[serverid])
    BY <1>3, <2>5, Ids
  <2> QED BY <2>5, <2>6 DEF Inbox
<1>6. /\ Inbox' \in Seq(ServerMsg) /\ Head(Inbox) \in ServerMsg /\ Head(Inbox).type = "EXIT"
      /\ \A i \in DOMAIN Inbox' : i + 1 \in DOMAIN Inbox /\ Inbox'[i] = Inbox[i + 1]
      /\ \A t, g : /\ NoMsg(Inbox, t, g) => NoMsg(Inbox', t, g)
                   /\ ~("EXIT" = t /\ Head(Inbox).payload = g) /\ OneMsg(Inbox, t, g) => OneMsg(Inbox', t, g)
                   /\ "EXIT" = t /\ Head(Inbox).payload = g =>
                        ~NoMsg(Inbox, t, g) /\ (OneMsg(Inbox, t, g) => NoMsg(Inbox', t, g))
  BY <1>3, <1>4, <1>5, InboxTakes
<1>7. fd \in Fd /\ Head(Inbox).payload = fd
  BY <1>1, <1>6 DEF ServerMsg, Inbox
<1>8. Leaving(fd)
  BY <1>6, <1>7 DEF ChatInv, Placed, Unused, Coming, Up
<1>9. w \in Id /\ w # serverid /\ actor[w].fn = "clientWriter" /\ actor[w].fd = fd
  BY <1>2, <1>7, <1>8, WriterIs DEF Leaving
<1>10. /\ DOMAIN mailbox' = Id /\ mailbox'[w] = Append(mailbox[w], m)
       /\ \A i \in Id : i # serverid /\ i # w => mailbox'[i] = mailbox[i]
       /\ socket'[fd] = NoConn /\ clireader'[fd] = 0 /\ cliwriter'[fd] = 0
       /\ \A g \in Fd : g # fd => socket'[g] = socket[g] /\ clireader'[g] = clireader[g] /\ cliwriter'[g] = cliwriter[g]
  BY <1>3, <1>4, <1>5, <1>7, <1>9 DEF DataTypes
<1> DEFINE q == mailbox[w]  r == mailbox'[w]
<1>11. r \in Seq(WriterMsg) /\ \A i \in DOMAIN r : (i \in DOMAIN q /\ r[i] = q[i]) \/ r[i].type = "EXIT"
  <2>1. q \in Seq(WriterMsg) /\ r = Append(q, m) /\ m \in WriterMsg /\ m.type = "EXIT"
    BY <1>4, <1>9, <1>10 DEF MailTypes, WriterMsg
  <2> HIDE DEF q, r, m
  <2> QED BY <2>1, Sent
<1> HIDE DEF m
<1>12. ActorTypes' /\ MailTypes' /\ DataTypes' /\ Sockets' /\ NoEcho'
  <2>1. ActorTypes'
    BY <1>3, <1>4 DEF ActorTypes
  <2>2. MailTypes'
    <3>1. Inbox' = mailbox'[serverid]
      BY DEF Inbox
    <3>2. ASSUME NEW i \in Id \ {serverid}
          PROVE  mailbox'[i] \in Seq(WriterMsg) /\ (actor'[i].fn # "clientWriter" => mailbox'[i] = <<>>)
      BY <1>3, <1>4, <1>9, <1>10, <1>11 DEF MailTypes
    <3> QED BY <1>3, <1>4, <1>6, <1>10, <3>1, <3>2 DEF MailTypes
  <2>3. DataTypes'
    BY <1>3, <1>4, Ids DEF DataTypes
  <2>4. Sockets'
    <3>1. \A g \in Fd : socket[g] \in Conn \cup {NoConn}
      BY <1>4, Ids DEF DataTypes
    <3> QED BY <1>3, <1>10, <3>1 DEF ChatInv, Sockets
  <2>5. NoEcho'
    BY <1>3 DEF ChatInv, NoEcho
  <2> QED BY <2>1, <2>2, <2>3, <2>4, <2>5
<1>13. ASSUME NEW g \in Fd  PROVE Placed(g)' /\ WriterHas(g)'
  <2>1. CASE g = fd
    <3>1. NoMsg(Inbox', "CREATE", g) /\ NoMsg(Inbox', "EXIT", g) /\ NoReader(g)'
      BY <1>3, <1>6, <1>7, <1>8, <2>1 DEF Leaving, NoReader, IsReader
    <3> QED BY <1>10, <2>1, <3>1 DEF Unused, Placed, WriterHas
  <2>2. CASE g # fd
    <3>1. Placed(g)'
      BY <1>3, <1>6, <1>7, <1>10, <2>2, PlacedKeeps DEF ChatInv, IsReader
    <3>2. cliwriter[g] # 0 => cliwriter[g] \in Id /\ cliwriter[g] # serverid /\ cliwriter[g] # w
      BY <1>9, <2>2, WriterIs
    <3>3. WriterHas(g)'
      BY <1>3, <1>10, <2>2, <3>2, WriterKeeps
    <3> QED BY <3>1, <3>3
  <2> QED BY <2>1, <2>2
<1>14. ASSUME NEW t \in Text, NEW g \in Fd, Foreign(t, g)  PROVE Foreign(t, g)'
  <2>1. t.from # NoConn => socket'[g] # t.from
    BY <1>10, <1>14 DEF Foreign
  <2> QED BY <1>3, <1>14, <2>1 DEF Foreign
<1>15. ASSUME NEW i \in Id  PROVE ReaderHas(i)' /\ PendingForeign(i)'
  <2>1. ReaderHas(i)'
    <3>1. actor[i].fn = "clientReader" => actor[i].fd \in Fd /\ actor[i].fd # fd
      BY <1>8, ReaderIs DEF Leaving, NoReader, IsReader
    <3> QED BY <1>3, <1>10, <3>1 DEF ChatInv, ReaderHas
  <2>2. CASE i # w
    BY <1>3, <1>10, <1>14, <2>1, <2>2, TextsKeep
  <2>3. CASE i = w
    <3>1. PendingForeign(w)
      BY <1>9 DEF ChatInv
    <3>2. \A j \in DOMAIN writing'[w] : Foreign(writing'[w][j], fd)
      BY <1>3, <1>9, <3>1 DEF PendingForeign
    <3>3. \A j \in DOMAIN mailbox'[w] : mailbox'[w][j].type = "WRITE" => Foreign(mailbox'[w][j].payload, fd)
      BY <1>9, <1>11, <3>1 DEF PendingForeign
    <3>4. \A j \in DOMAIN writing'[w] : writing'[w][j] \in Text
      BY <1>3, <1>4, <1>9, LenProperties DEF MailTypes
    <3>5. \A j \in DOMAIN mailbox'[w] : mailbox'[w][j].type = "WRITE" => mailbox'[w][j].payload \in Text
      <4>1. \A j \in DOMAIN mailbox'[w] : mailbox'[w][j] \in WriterMsg
        BY <1>11, LenProperties
      <4> QED BY <4>1 DEF WriterMsg
    <3>6. \A t \in Text : Foreign(t, fd) => Foreign(t, fd)'
      BY <1>7, <1>14
    <3>7. PendingForeign(w)'
      BY <1>3, <1>9, <3>2, <3>3, <3>4, <3>5, <3>6 DEF PendingForeign, Foreign
    <3> QED BY <2>1, <2>3, <3>7
  <2> QED BY <2>2, <2>3
<1>16. LinesRead'
  <2>1. ASSUME NEW msg \in ServerMsg, ReadFrom(msg)  PROVE ReadFrom(msg)'
    <3>1. msg.type = "READ" => msg.payload.from \in Conn
      BY DEF ServerMsg, Line
    <3> QED BY <1>3, <1>10, <2>1, <3>1, Ids DEF ReadFrom
  <2>2. PICK msg : msg = Head(Inbox)
    OBVIOUS
  <2>3. ReadFrom(msg)'
    BY <1>6, <2>2 DEF ReadFrom
  <2> QED BY <1>6, <2>1, <2>3, LinesKeep
<1> QED BY <1>12, <1>13, <1>15, <1>16 DEF ChatInv

LEMMA CBroadcast ==
  ASSUME ChatInv, Broadcast
  PROVE  ChatInv'
<1>1. PICK msg : msg = Head(Inbox)
  OBVIOUS
<1> DEFINE m == WriteMsg(msg.payload)
<1>2. PICK heard : heard = Listeners(msg.sender)
  OBVIOUS
<1>3. /\ Receives("READ") /\ UNCHANGED <<actor, writing, clireader, cliwriter, socket, said, peer, out, joined>>
      /\ mailbox' = [id \in Id |->
           CASE id = serverid -> Tail(mailbox[id])
             [] id \in heard -> Append(mailbox[id], m)
             [] OTHER -> mailbox[id]]
      /\ log' = Append(log, msg.payload)
  BY <1>1, <1>2 DEF Broadcast, tables, Inbox
<1>4. ActorTypes /\ MailTypes /\ DataTypes /\ LinesRead
  BY DEF ChatInv
<1>5. ASSUME NEW w \in heard
      PROVE  /\ w \in Id /\ w # serverid /\ actor[w].fn = "clientWriter" /\ actor[w].fd \in Fd
             /\ cliwriter[actor[w].fd] # 0 /\ clireader[actor[w].fd] # msg.sender
  <2>1. PICK fd \in Fd : w = cliwriter[fd] /\ cliwriter[fd] # 0 /\ clireader[fd] # msg.sender
    BY <1>2, <1>5 DEF Listeners
  <2> QED BY <2>1, WriterIs
<1>6. serverid \notin heard /\ Inbox' = Tail(Inbox)
  <2>1. serverid \notin heard
    BY <1>5
  <2>2. mailbox'[serverid] = Tail(mailbox[serverid])
    BY <1>3, <2>1, Ids
  <2> QED BY <2>1, <2>2 DEF Inbox
<1>7. /\ Inbox' \in Seq(ServerMsg) /\ 1 \in DOMAIN Inbox /\ msg = Inbox[1] /\ msg \in ServerMsg /\ msg.type = "READ"
      /\ \A i \in DOMAIN Inbox' : i + 1 \in DOMAIN Inbox /\ Inbox'[i] = Inbox[i + 1]
      /\ \A t \in {"CREATE", "EXIT"}, g \in Fd :
           /\ NoMsg(Inbox, t, g) => NoMsg(Inbox', t, g)
           /\ OneMsg(Inbox, t, g) => OneMsg(Inbox', t, g)
  BY <1>1, <1>3, <1>4, <1>6, InboxTakes
<1>8. msg.payload \in Line /\ msg.payload.from \in Conn /\ msg.payload \in Text /\ m \in WriterMsg
  <2>1. msg.payload \in Line
    BY <1>7 DEF ServerMsg
  <2> QED BY <2>1, Ids DEF Line, Text, WriterMsg, WriteMsg
<1>9. /\ peer[msg.payload.from] # "new"
      /\ \A fd \in Fd : socket[fd] = msg.payload.from => clireader[fd] = msg.sender
  BY <1>4, <1>7 DEF LinesRead, ReadFrom
<1>10. /\ DOMAIN mailbox' = Id
       /\ \A i \in Id : i # serverid /\ i \notin heard => mailbox'[i] = mailbox[i]
       /\ \A w \in heard : mailbox'[w] = Append(mailbox[w], m)
  BY <1>3, <1>5, <1>6
<1>11. m.type = "WRITE" /\ m.payload = msg.payload
  BY DEF WriteMsg
<1> HIDE DEF m
<1>12. ASSUME NEW w \in heard
       PROVE  /\ mailbox'[w] \in Seq(WriterMsg)
              /\ \A i \in DOMAIN mailbox'[w] :
                   (i \in DOMAIN mailbox[w] /\ mailbox'[w][i] = mailbox[w][i]) \/ mailbox'[w][i] = m
  <2> DEFINE q == mailbox[w]  r == mailbox'[w]
  <2>1. q \in Seq(WriterMsg) /\ r = Append(q, m)
    BY <1>4, <1>5, <1>10 DEF MailTypes
  <2> HIDE DEF q, r
  <2>2. /\ r \in Seq(WriterMsg)
        /\ \A i \in DOMAIN r : (i \in DOMAIN q /\ r[i] = q[i]) \/ r[i] = m
    BY <1>8, <2>1, Sent
  <2> QED BY <2>2 DEF q, r
<1>13. ActorTypes' /\ MailTypes' /\ DataTypes' /\ Sockets' /\ NoEcho'
  <2>1. ActorTypes' /\ Sockets' /\ NoEcho'
    BY <1>3, <1>4 DEF ChatInv, ActorTypes, Sockets, NoEcho
  <2>2. MailTypes'
    <3>1. Inbox' = mailbox'[serverid]
      BY DEF Inbox
    <3>2. ASSUME NEW i \in Id \ {serverid}
          PROVE  mailbox'[i] \in Seq(WriterMsg) /\ (actor'[i].fn # "clientWriter" => mailbox'[i] = <<>>)
      BY <1>3, <1>4, <1>5, <1>10, <1>12 DEF MailTypes
    <3> QED BY <1>3, <1>4, <1>7, <1>10, <3>1, <3>2 DEF MailTypes
  <2>3. DataTypes'
    <3>1. log' \in Seq(Line)
      BY <1>3, <1>4, <1>8, AppendProperties DEF DataTypes
    <3> QED BY <1>3, <1>4, <3>1 DEF DataTypes
  <2> QED BY <2>1, <2>2, <2>3
<1>14. ASSUME NEW g \in Fd  PROVE Placed(g)' /\ WriterHas(g)'
  <2>1. Placed(g)'
    BY <1>3, <1>7, PlacedKeeps DEF ChatInv, IsReader
  <2>2. CASE cliwriter[g] \in heard
    <3>1. PICK w \in heard : w = cliwriter[g]
      BY <2>2
    <3>2. /\ actor[w] = [fn |-> "clientWriter", fd |-> g, conn |-> socket[g]]
          /\ \A i \in DOMAIN mailbox[w] : mailbox[w][i].type = "WRITE"
      BY <1>5, <3>1, Ids DEF ChatInv, WriterHas
    <3>3. \A i \in DOMAIN mailbox'[w] : mailbox'[w][i].type = "WRITE"
      BY <1>11, <1>12, <3>2
    <3>4. actor'[w] = actor[w] /\ cliwriter'[g] = w /\ socket'[g] = socket[g]
      BY <1>3, <3>1
    <3>5. WriterHas(g)'
      BY ONLY <3>2, <3>3, <3>4 DEF WriterHas
    <3> QED BY ONLY <2>1, <3>5
  <2>3. CASE cliwriter[g] \notin heard
    BY <1>3, <1>10, <2>1, <2>3, WriterIs, WriterKeeps
  <2> QED BY <2>2, <2>3
<1>15. \A t \in Text, g \in Fd : Foreign(t, g) => Foreign(t, g)'
  BY <1>3 DEF Foreign
<1>16. ASSUME NEW i \in Id  PROVE ReaderHas(i)' /\ PendingForeign(i)'
  <2>1. ReaderHas(i)'
    BY <1>3 DEF ChatInv, ReaderHas
  <2>2. CASE i \notin heard
    BY <1>3, <1>10, <1>15, <2>1, <2>2, TextsKeep
  <2>3. CASE i \in heard
    <3>1. PendingForeign(i)
      BY DEF ChatInv
    <3>2. Foreign(msg.payload, actor[i].fd)
      BY <1>5, <1>9, <2>3 DEF Foreign
    <3>3. \A j \in DOMAIN mailbox'[i] : mailbox'[i][j].type = "WRITE" => Foreign(mailbox'[i][j].payload, actor[i].fd)
      BY <1>5, <1>11, <1>12, <2>3, <3>1, <3>2 DEF PendingForeign
    <3>4. PendingForeign(i)'
      BY <1>3, <3>1, <3>3 DEF PendingForeign, Foreign
    <3> QED BY <2>1, <3>4
  <2> QED BY <2>2, <2>3
<1>17. LinesRead'
  <2>1. \A x \in ServerMsg : ReadFrom(x) => ReadFrom(x)'
    BY <1>3 DEF ReadFrom
  <2>2. ReadFrom(msg)'
    BY <1>3, <1>4, <1>7 DEF LinesRead, ReadFrom
  <2> QED BY <1>7, <2>1, <2>2, LinesKeep
<1> QED BY <1>13, <1>14, <1>16, <1>17 DEF ChatInv

LEMMA CStep ==
  ASSUME ChatInv, [Next]_chatvars
  PROVE  ChatInv'
<1>1. CASE Next
  <2>1. CASE \E c \in Conn : clientAccpetor(c)
    BY <2>1, CAccept
  <2>2. CASE \E id \in Id : clientReader(id)
    BY <2>2, CReaderReads, CReaderEnds DEF clientReader
  <2>3. CASE \E id \in Id : clientWriter(id)
    BY <2>3, CClientWriter
  <2>4. CASE Server
    BY <2>4, CCreate, CExit, CBroadcast DEF Server
  <2> QED BY <1>1, <2>1, <2>2, <2>3, <2>4 DEF Next
<1>2. CASE UNCHANGED chatvars
  <2>1. UNCHANGED <<actor, mailbox, writing, clireader, cliwriter, socket, said, peer, out, log, joined>>
    BY <1>2 DEF chatvars, tables, history
  <2>2. ActorTypes' /\ MailTypes' /\ DataTypes' /\ Sockets' /\ NoEcho'
    BY <2>1 DEF ChatInv, ActorTypes, MailTypes, DataTypes, Sockets, NoEcho
  <2>3. \A fd \in Fd : Placed(fd)' /\ WriterHas(fd)'
    BY <2>1 DEF ChatInv, WriterHas, Placed, Unused, Coming, Up, Leaving, NoReader, IsReader, Inbox
  <2>4. \A id \in Id : ReaderHas(id)' /\ PendingForeign(id)'
    BY <2>1 DEF ChatInv, ReaderHas, PendingForeign, Foreign
  <2>5. LinesRead'
    BY <2>1 DEF ChatInv, LinesRead, ReadFrom, Inbox
  <2> QED BY <2>2, <2>3, <2>4, <2>5 DEF ChatInv
<1> QED BY <1>1, <1>2

LEMMA ChatInductive == Spec => []ChatInv
BY CInit, CStep, PTL DEF Spec

-----------------------------------------------------------------------------
(* What it says of the server *)

LEMMA Counted ==
  ASSUME NEW fd, NEW type
  PROVE  /\ NoMsg(Inbox, type, fd) => InServer(type, fd) = 0
         /\ OneMsg(Inbox, type, fd) => InServer(type, fd) = 1
<1> DEFINE S == {i \in DOMAIN Inbox : IsMsg(Inbox, i, type, fd)}
<1>1. InServer(type, fd) = Cardinality(S)
  BY DEF InServer, IsMsg, Inbox
<1>2. ASSUME NoMsg(Inbox, type, fd)  PROVE Cardinality(S) = 0
  <2>1. S = {}
    BY <1>2 DEF NoMsg
  <2> QED BY <2>1, FS_EmptySet
<1>3. ASSUME OneMsg(Inbox, type, fd)  PROVE Cardinality(S) = 1
  <2>1. PICK i : S = {i}
    BY <1>3 DEF OneMsg
  <2> QED BY <2>1, FS_Singleton
<1> QED BY <1>1, <1>2, <1>3

LEMMA Readers ==
  ASSUME NEW fd
  PROVE  /\ NoReader(fd) => Cardinality(ReadersOf(fd)) = 0
         /\ \A r \in Id : (\A id \in Id : IsReader(id, fd) <=> id = r) => Cardinality(ReadersOf(fd)) = 1
<1>1. ReadersOf(fd) = {id \in Id : IsReader(id, fd)}
  BY DEF ReadersOf, IsReader
<1>2. NoReader(fd) => ReadersOf(fd) = {}
  BY <1>1 DEF NoReader
<1>3. \A r \in Id : (\A id \in Id : IsReader(id, fd) <=> id = r) => ReadersOf(fd) = {r}
  BY <1>1
<1> QED BY <1>2, <1>3, FS_EmptySet, FS_Singleton

\* An open descriptor is in exactly one place: announced to the server, read
\* by one reader, or given up by it; and the tables of main hold it in the last
\* two.  main never closes a descriptor twice or one given out again.
THEOREM OnePlace == Spec => []FdInOnePlace
<1>1. ChatInv => FdInOnePlace
  <2> SUFFICES ASSUME ChatInv, NEW fd \in Fd
               PROVE  LET leaving == Cardinality(ReadersOf(fd)) + InServer("EXIT", fd)
                      IN  /\ InServer("CREATE", fd) + leaving = IF socket[fd] = NoConn THEN 0 ELSE 1
                          /\ cliwriter[fd] # 0 <=> leaving = 1
                          /\ clireader[fd] # 0 <=> leaving = 1
    BY DEF FdInOnePlace
  <2>1. CASE Unused(fd)
    BY <2>1, Counted, Readers DEF Unused
  <2>2. CASE Coming(fd)
    BY <2>2, Counted, Readers DEF Coming
  <2>3. CASE Up(fd)
    <3>1. clireader[fd] \in Id
      BY DEF ChatInv, DataTypes
    <3> QED BY <2>3, <3>1, Counted, Readers DEF Up
  <2>4. CASE Leaving(fd)
    BY <2>4, Counted, Readers DEF Leaving
  <2> QED BY <2>1, <2>2, <2>3, <2>4 DEF ChatInv, Placed
<1> QED BY <1>1, ChatInductive, PTL

\* An id in cliwriter is that of the live writer of the connection, whose
\* mailbox holds nothing but texts: what main sends reaches the client.
THEOREM WritersLive == Spec => []WritersRegistered
<1>1. ChatInv => WritersRegistered
  BY DEF ChatInv, WriterHas, WritersRegistered
<1> QED BY <1>1, ChatInductive, PTL

\* No client gets a line of its own, from any writer, whatever numbers of
\* descriptors and ids have been given out again.
THEOREM NobodyEchoes == Spec => []NoEcho
<1>1. ChatInv => NoEcho
  BY DEF ChatInv
<1> QED BY <1>1, ChatInductive, PTL

-----------------------------------------------------------------------------
(* The order of what a client gets *)

\* Only the registered writer of a connection on a descriptor has it for its own,
WriterOf(id) ==
  actor[id].fn = "clientWriter" =>
    /\ peer[actor[id].conn] # "new"
    /\ socket[actor[id].fd] = actor[id].conn => cliwriter[actor[id].fd] = id

\* and before it is registered nothing is written.
Unwritten(c) ==
  peer[c] = "new" \/ (\E fd \in Fd : socket[fd] = c /\ cliwriter[fd] = 0) => out[c][c] = <<>>

JoinedBefore(c) == joined[c].at <= Len(log)

\* Who has sent a line on its way to the server, has its id still or is gone.
SenderLives(msg) ==
  msg.type = "READ" =>
    \/ actor[msg.sender].fn = "clientReader" /\ actor[msg.sender].conn = msg.payload.from
    \/ peer[msg.payload.from] = "gone"

SendersLive == \A i \in DOMAIN Inbox : SenderLives(Inbox[i])

\* In q, up to the EXIT of fd, the lines with the id of its reader are of allowed.
Posing(q, fd, reader, allowed) ==
  \A i \in DOMAIN q :
    /\ q[i].type = "READ" /\ q[i].sender = reader
    /\ \A j \in 1..(i - 1) : ~IsMsg(q, j, "EXIT", fd)
    => q[i].payload.from \in allowed

Impostors(fd) ==
  cliwriter[fd] # 0 => Posing(Inbox, fd, clireader[fd], {socket[fd]} \cup joined[socket[fd]].gone)

\* What has been written, is written and waits in a mailbox.
Flow(o, w, q) == o \o w \o [i \in DOMAIN q |-> q[i].payload]

\* What a client that joined at at has got, when the server has received lines.
Due(lines, at, c) == {k \in (at + 1)..Len(lines) : lines[k].from # c}

Ordered(stream, lines, at, gone, c) ==
  /\ stream # <<>> /\ stream[1] = welcomeMsg
  /\ \E line \in [2..Len(stream) -> Due(lines, at, c)] :
       /\ \A i \in 2..Len(stream) : stream[i] = lines[line[i]]
       /\ \A i, j \in 2..Len(stream) : i < j => line[i] < line[j]
       /\ \A k \in Due(lines, at, c) : lines[k].from \notin gone => k \in Range(line)

GetsInOrder(fd) ==
  cliwriter[fd] # 0 =>
    Ordered(Stream(socket[fd], cliwriter[fd]), log, joined[socket[fd]].at, joined[socket[fd]].gone, socket[fd])

OrderInv ==
  /\ \A id \in Id : WriterOf(id)
  /\ \A c \in Conn : Unwritten(c) /\ JoinedBefore(c)
  /\ SendersLive
  /\ \A fd \in Fd : Impostors(fd) /\ GetsInOrder(fd)

LEMMA Chained ==
  ASSUME NEW T, NEW p \in Seq(T), NEW r \in Seq(T), NEW pr, pr = p \o r
  PROVE  /\ pr \in Seq(T) /\ Len(p) \in Nat /\ Len(r) \in Nat /\ Len(pr) = Len(p) + Len(r)
         /\ \A i \in 1..Len(p) : pr[i] = p[i]
         /\ \A i \in 1..Len(r) : pr[Len(p) + i] = r[i]
<1>1. Len(p) \in Nat /\ Len(r) \in Nat
  BY LenProperties
<1>2. /\ p \o r \in Seq(T) /\ Len(p \o r) = Len(p) + Len(r)
      /\ \A i \in 1..(Len(p) + Len(r)) : (p \o r)[i] = IF i <= Len(p) THEN p[i] ELSE r[i - Len(p)]
  BY ConcatProperties
<1>a. pr = p \o r
  OBVIOUS
<1>3. \A i \in 1..Len(p) : i \in 1..(Len(p) + Len(r)) /\ i <= Len(p)
  BY ONLY <1>1
<1>4. \A i \in 1..Len(r) : /\ Len(p) + i \in 1..(Len(p) + Len(r)) /\ ~(Len(p) + i <= Len(p))
                           /\ (Len(p) + i) - Len(p) = i
  BY ONLY <1>1
<1> QED BY ONLY <1>1, <1>2, <1>a, <1>3, <1>4

IsFlow(f, o, w, q) ==
  /\ f \in Seq(Text) /\ Len(f) = Len(o) + Len(w) + Len(q)
  /\ Len(o) \in Nat /\ Len(w) \in Nat /\ Len(q) \in Nat
  /\ \A i \in 1..Len(o) : f[i] = o[i]
  /\ \A i \in 1..Len(w) : f[Len(o) + i] = w[i]
  /\ \A i \in 1..Len(q) : f[Len(o) + Len(w) + i] = q[i].payload

LEMMA FlowIs ==
  ASSUME NEW o \in Seq(Text), NEW w \in Seq(Text), NEW q \in Seq(WriterMsg),
         \A i \in DOMAIN q : q[i].type = "WRITE",
         NEW f, f = Flow(o, w, q)
  PROVE  IsFlow(f, o, w, q)
<1> DEFINE t == [i \in DOMAIN q |-> q[i].payload]
           ow == o \o w
<1>1. Len(q) \in Nat /\ DOMAIN q = 1..Len(q) /\ \A i \in 1..Len(q) : q[i] \in WriterMsg
  BY LenProperties
<1>2. \A i \in 1..Len(q) : q[i].payload \in Text
  BY <1>1 DEF WriterMsg
<1>3. t \in [1..Len(q) -> Text] /\ \A i \in 1..Len(q) : t[i] = q[i].payload
  BY <1>1, <1>2
<1> HIDE DEF t
<1>4. t \in Seq(Text)
  BY <1>1, <1>3, IsASeq
<1>5. Len(t) = Len(q)
  BY <1>1, <1>3, <1>4, LenProperties
<1>6. /\ ow \in Seq(Text) /\ Len(o) \in Nat /\ Len(w) \in Nat /\ Len(ow) = Len(o) + Len(w)
      /\ \A i \in 1..Len(o) : ow[i] = o[i]
      /\ \A i \in 1..Len(w) : ow[Len(o) + i] = w[i]
  BY Chained
<1> HIDE DEF ow
<1>7. f = ow \o t
  BY DEF Flow, ow, t
<1>8. /\ f \in Seq(Text) /\ Len(f) = Len(ow) + Len(t)
      /\ \A i \in 1..Len(ow) : f[i] = ow[i]
      /\ \A i \in 1..Len(t) : f[Len(ow) + i] = t[i]
  <2>1. ow \in Seq(Text)
    BY <1>6
  <2> QED BY ONLY <1>4, <1>7, <2>1, Chained
<1>9. /\ \A i \in 1..Len(o) : i \in 1..Len(ow)
      /\ \A i \in 1..Len(w) : Len(o) + i \in 1..Len(ow)
  BY ONLY <1>6
<1> QED BY ONLY <1>1, <1>3, <1>5, <1>6, <1>7, <1>8, <1>9 DEF IsFlow

\* A text that is sent to a writer comes last.
GetsOne(f, g, p) == f \in Seq(Text) /\ g = Append(f, p)

LEMMA FlowGets ==
  ASSUME NEW o \in Seq(Text), NEW w \in Seq(Text), NEW q \in Seq(WriterMsg),
         \A i \in DOMAIN q : q[i].type = "WRITE",
         NEW m \in WriterMsg, m.type = "WRITE", NEW r, r = Append(q, m),
         NEW f, f = Flow(o, w, q), NEW g, g = Flow(o, w, r)
  PROVE  GetsOne(f, g, m.payload)
<1>1. /\ r \in Seq(WriterMsg) /\ Len(r) = Len(q) + 1 /\ r[Len(q) + 1] = m
      /\ \A i \in 1..Len(q) : r[i] = q[i]
  BY AppendProperties
<1>2. DOMAIN q = 1..Len(q) /\ DOMAIN r = 1..Len(r) /\ Len(q) \in Nat
  BY <1>1, LenProperties
<1>3. \A i \in DOMAIN r : r[i].type = "WRITE"
  BY <1>1, <1>2
<1>4. f = Flow(o, w, q) /\ g = Flow(o, w, r)
  OBVIOUS
<1>5. /\ f \in Seq(Text) /\ Len(f) = Len(o) + Len(w) + Len(q)
      /\ Len(o) \in Nat /\ Len(w) \in Nat
      /\ \A i \in 1..Len(o) : f[i] = o[i]
      /\ \A i \in 1..Len(w) : f[Len(o) + i] = w[i]
      /\ \A i \in 1..Len(q) : f[Len(o) + Len(w) + i] = q[i].payload
  <2>1. IsFlow(f, o, w, q)
    BY <1>4, FlowIs
  <2> QED BY <2>1 DEF IsFlow
<1>6. /\ g \in Seq(Text) /\ Len(g) = Len(o) + Len(w) + Len(r)
      /\ \A i \in 1..Len(o) : g[i] = o[i]
      /\ \A i \in 1..Len(w) : g[Len(o) + i] = w[i]
      /\ \A i \in 1..Len(r) : g[Len(o) + Len(w) + i] = r[i].payload
  <2>1. IsFlow(g, o, w, r)
    BY <1>1, <1>3, <1>4, FlowIs
  <2> QED BY <2>1 DEF IsFlow
<1>7. m.payload \in Text
  BY DEF WriterMsg
<1> DEFINE h == Append(f, m.payload)
<1>8. /\ h \in Seq(Text) /\ Len(h) = Len(f) + 1 /\ h[Len(f) + 1] = m.payload
      /\ \A i \in 1..Len(f) : h[i] = f[i]
  BY <1>5, <1>7, AppendProperties
<1> HIDE DEF h
<1>9. ASSUME NEW i \in 1..Len(g)  PROVE g[i] = h[i]
  <2>1. CASE i <= Len(o)
    <3>1. i \in 1..Len(o) /\ i \in 1..Len(f)
      BY ONLY <1>1, <1>2, <1>5, <1>6, <2>1, i \in 1..Len(g)
    <3> QED BY <1>5, <1>6, <1>8, <3>1
  <2>2. CASE Len(o) < i /\ i <= Len(o) + Len(w)
    <3>1. PICK j \in 1..Len(w) : i = Len(o) + j
      <4>1. i - Len(o) \in 1..Len(w) /\ i = Len(o) + (i - Len(o))
        BY <1>5, <2>2
      <4> QED BY <4>1
    <3>2. i \in 1..Len(f)
      BY ONLY <1>2, <1>5, <3>1
    <3> QED BY <1>5, <1>6, <1>8, <3>1, <3>2
  <2>3. CASE Len(o) + Len(w) < i /\ i <= Len(o) + Len(w) + Len(q)
    <3>1. PICK j \in 1..Len(q) : i = Len(o) + Len(w) + j
      <4>1. i - (Len(o) + Len(w)) \in 1..Len(q) /\ i = Len(o) + Len(w) + (i - (Len(o) + Len(w)))
        BY <1>2, <1>5, <2>3
      <4> QED BY <4>1
    <3>2. i \in 1..Len(f) /\ j \in 1..Len(r)
      BY ONLY <1>1, <1>2, <1>5, <3>1
    <3>3. f[i] = q[j].payload /\ g[i] = r[j].payload /\ r[j] = q[j]
      BY <1>1, <1>5, <1>6, <3>1, <3>2
    <3> QED BY <1>8, <3>2, <3>3
  <2>4. CASE i = Len(o) + Len(w) + (Len(q) + 1)
    <3>1. Len(q) + 1 \in 1..Len(r) /\ i = Len(f) + 1
      BY ONLY <1>1, <1>2, <1>5, <2>4
    <3> QED BY <1>1, <1>6, <1>8, <2>4, <3>1
  <2> QED BY <1>1, <1>2, <1>5, <1>6, <2>1, <2>2, <2>3, <2>4
<1>10. Len(g) = Len(h)
  BY ONLY <1>1, <1>2, <1>5, <1>6, <1>8
<1>11. g = h
  BY <1>6, <1>8, <1>9, <1>10, SeqEqual
<1> QED BY <1>5, <1>11 DEF GetsOne, h

\* A writer hands on what it has written ...
LEMMA FlowWrites ==
  ASSUME NEW o \in Seq(Text), NEW w \in Seq(Text), Len(w) <= 1, NEW q \in Seq(WriterMsg),
         \A i \in DOMAIN q : q[i].type = "WRITE",
         NEW p, p = IF w = <<>> THEN o ELSE Append(o, w[1])
  PROVE  p \in Seq(Text) /\ Flow(p, <<>>, q) = Flow(o, w, q)
<1>1. CASE w = <<>>
  BY <1>1
<1>2. CASE w # <<>>
  <2>1. Len(w) = 1 /\ w[1] \in Text
    <3>1. Len(w) \in Nat \ {0} /\ w \in [1..Len(w) -> Text]
      BY <1>2, LenProperties, EmptySeq
    <3> QED BY <3>1
  <2>2. /\ p \in Seq(Text) /\ Len(p) = Len(o) + 1 /\ p[Len(o) + 1] = w[1]
        /\ \A i \in 1..Len(o) : p[i] = o[i]
    BY <1>2, <2>1, AppendProperties
  <2>3. <<>> \in Seq(Text) /\ Len(<<>>) = 0
    BY EmptySeq
  <2> DEFINE f == Flow(o, w, q)
             g == Flow(p, <<>>, q)
  <2>4. f = Flow(o, w, q) /\ g = Flow(p, <<>>, q)
    OBVIOUS
  <2> HIDE DEF f, g
  <2>5. /\ f \in Seq(Text) /\ Len(f) = Len(o) + 1 + Len(q) /\ Len(o) \in Nat /\ Len(q) \in Nat
        /\ \A i \in 1..Len(o) : f[i] = o[i]
        /\ f[Len(o) + 1] = w[1]
        /\ \A i \in 1..Len(q) : f[Len(o) + 1 + i] = q[i].payload
    <3>1. IsFlow(f, o, w, q)
      BY <2>4, FlowIs
    <3> QED BY <2>1, <3>1 DEF IsFlow
  <2>6. /\ g \in Seq(Text) /\ Len(g) = Len(o) + 1 + Len(q)
        /\ \A i \in 1..(Len(o) + 1) : g[i] = p[i]
        /\ \A i \in 1..Len(q) : g[Len(o) + 1 + i] = q[i].payload
    <3>1. IsFlow(g, p, <<>>, q)
      BY <2>2, <2>3, <2>4, FlowIs
    <3> QED BY <2>2, <2>3, <2>5, <3>1 DEF IsFlow
  <2>7. ASSUME NEW i \in 1..Len(f)  PROVE f[i] = g[i]
    <3>1. CASE i <= Len(o)
      <4>1. i \in 1..Len(o) /\ i \in 1..(Len(o) + 1)
        BY ONLY <2>5, <3>1, i \in 1..Len(f)
      <4> QED BY <2>2, <2>5, <2>6, <4>1
    <3>2. CASE i = Len(o) + 1
      <4>1. i \in 1..(Len(o) + 1)
        BY ONLY <2>5, <3>2
      <4> QED BY <2>2, <2>5, <2>6, <3>2, <4>1
    <3>3. CASE Len(o) + 1 < i
      <4>1. PICK j \in 1..Len(q) : i = Len(o) + 1 + j
        <5>1. i - (Len(o) + 1) \in 1..Len(q) /\ i = Len(o) + 1 + (i - (Len(o) + 1))
          BY <2>5, <3>3
        <5> QED BY <5>1
      <4> QED BY <2>5, <2>6, <4>1
    <3> QED BY <2>5, <3>1, <3>2, <3>3
  <2>8. Len(f) = Len(g)
    BY ONLY <2>5, <2>6
  <2>9. f = g
    BY <2>5, <2>6, <2>7, <2>8, SeqEqual
  <2> QED BY <2>2, <2>4, <2>9
<1> QED BY <1>1, <1>2

\* ... and goes on with the next text.
LEMMA FlowTakes ==
  ASSUME NEW o \in Seq(Text), NEW q \in Seq(WriterMsg), q # <<>>,
         \A i \in DOMAIN q : q[i].type = "WRITE",
         NEW w, w = <<Head(q).payload>>, NEW r, r = Tail(q)
  PROVE  Flow(o, w, r) = Flow(o, <<>>, q)
<1>1. /\ r \in Seq(WriterMsg) /\ Len(r) = Len(q) - 1 /\ \A i \in 1..Len(r) : r[i] = q[i + 1]
      /\ Head(q) \in WriterMsg
  BY HeadTailProperties
<1>2. Len(q) \in Nat \ {0} /\ DOMAIN q = 1..Len(q) /\ DOMAIN r = 1..Len(r)
  BY <1>1, LenProperties, EmptySeq
<1>3. Head(q) = q[1]
  BY <1>2
<1>4. q[1].payload \in Text /\ w = <<q[1].payload>>
  BY <1>1, <1>3 DEF WriterMsg
<1>5. w \in Seq(Text) /\ Len(w) = 1 /\ w[1] = q[1].payload
  BY <1>4
<1>6. \A i \in DOMAIN r : r[i].type = "WRITE"
  <2>1. \A i \in 1..Len(r) : i + 1 \in 1..Len(q)
    BY ONLY <1>1, <1>2
  <2> QED BY <1>1, <1>2, <2>1
<1>7. <<>> \in Seq(Text) /\ Len(<<>>) = 0
  BY EmptySeq
<1> DEFINE f == Flow(o, <<>>, q)
           g == Flow(o, w, r)
<1>8. f = Flow(o, <<>>, q) /\ g = Flow(o, w, r)
  OBVIOUS
<1> HIDE DEF f, g
<1>9. /\ f \in Seq(Text) /\ Len(f) = Len(o) + Len(q) /\ Len(o) \in Nat
      /\ \A i \in 1..Len(o) : f[i] = o[i]
      /\ \A i \in 1..Len(q) : f[Len(o) + i] = q[i].payload
  <2>1. IsFlow(f, o, <<>>, q)
    BY <1>7, <1>8, FlowIs
  <2> QED BY <1>7, <2>1 DEF IsFlow
<1>10. /\ g \in Seq(Text) /\ Len(g) = Len(o) + 1 + Len(r)
       /\ \A i \in 1..Len(o) : g[i] = o[i]
       /\ g[Len(o) + 1] = q[1].payload
       /\ \A i \in 1..Len(r) : g[Len(o) + 1 + i] = r[i].payload
  <2>1. IsFlow(g, o, w, r)
    BY <1>1, <1>5, <1>6, <1>8, FlowIs
  <2> QED BY <1>5, <2>1 DEF IsFlow
<1>11. ASSUME NEW i \in 1..Len(g)  PROVE g[i] = f[i]
  <2>1. CASE i <= Len(o)
    <3>1. i \in 1..Len(o)
      BY ONLY <1>9, <2>1, i \in 1..Len(g)
    <3> QED BY <1>9, <1>10, <3>1
  <2>2. CASE Len(o) < i
    <3>1. PICK j \in 1..Len(q) : i = Len(o) + j
      <4>1. i - Len(o) \in 1..Len(q) /\ i = Len(o) + (i - Len(o))
        BY ONLY <1>1, <1>2, <1>9, <1>10, <2>2, i \in 1..Len(g)
      <4> QED BY <4>1
    <3>2. f[i] = q[j].payload
      BY <1>9, <3>1
    <3>3. CASE j = 1
      <4>1. i = Len(o) + 1
        BY ONLY <1>9, <3>1, <3>3
      <4> QED BY <1>10, <3>2, <3>3, <4>1
    <3>4. CASE j # 1
      <4>1. PICK k \in 1..Len(r) : j = k + 1 /\ i = Len(o) + 1 + k
        <5>1. j - 1 \in 1..Len(r) /\ j = (j - 1) + 1 /\ i = Len(o) + 1 + (j - 1)
          BY ONLY <1>1, <1>2, <1>9, <3>1, <3>4
        <5> QED BY <5>1
      <4> QED BY <1>1, <1>10, <3>2, <4>1
    <3> QED BY <3>3, <3>4
  <2> QED BY <1>9, <2>1, <2>2
<1>12. Len(g) = Len(f)
  BY ONLY <1>1, <1>2, <1>9, <1>10
<1>13. g = f
  BY <1>9, <1>10, <1>11, <1>12, SeqEqual
<1> QED BY <1>8, <1>13

\* A client that has just joined has got the welcome.
LEMMA OrderedFirst ==
  ASSUME NEW lines \in Seq(Line), NEW c, NEW gone, NEW stream, stream = <<welcomeMsg>>
  PROVE  Ordered(stream, lines, Len(lines), gone, c)
<1>1. Len(lines) \in Nat /\ Len(stream) = 1 /\ stream # <<>> /\ stream[1] = welcomeMsg
  BY LenProperties
<1>2. 2..Len(stream) = {} /\ (Len(lines) + 1)..Len(lines) = {}
  BY <1>1
<1>3. Due(lines, Len(lines), c) = {}
  BY <1>2 DEF Due
<1> DEFINE line == [i \in 2..Len(stream) |-> 0]
<1>4. line \in [2..Len(stream) -> Due(lines, Len(lines), c)]
  BY <1>2
<1> HIDE DEF line
<1> QED BY <1>1, <1>2, <1>3, <1>4 DEF Ordered

\* The lines that are due when the server receives one more.
DueGrows(lines, more, at, c, p) ==
  /\ Len(lines) \in Nat /\ more[Len(lines) + 1] = p
  /\ \A k \in Due(lines, at, c) :
       /\ k \in Due(more, at, c) /\ more[k] = lines[k]
       /\ k \in Nat /\ k < Len(lines) + 1
  /\ \A k \in Due(more, at, c) : k \in Due(lines, at, c) \/ (k = Len(lines) + 1 /\ p.from # c)
  /\ p.from # c => Len(lines) + 1 \in Due(more, at, c)

LEMMA DueMore ==
  ASSUME NEW lines \in Seq(Line), NEW at \in Nat, at <= Len(lines), NEW c,
         NEW p \in Line, NEW more, more = Append(lines, p)
  PROVE  DueGrows(lines, more, at, c, p)
<1>1. /\ Len(lines) \in Nat /\ Len(more) = Len(lines) + 1 /\ more[Len(lines) + 1] = p
      /\ \A i \in 1..Len(lines) : more[i] = lines[i]
  BY LenProperties, AppendProperties
<1>2. /\ \A k \in (at + 1)..Len(lines) : k \in 1..Len(lines) /\ k \in (at + 1)..Len(more) /\ k < Len(lines) + 1
      /\ Len(lines) + 1 \in (at + 1)..Len(more)
      /\ \A k \in (at + 1)..Len(more) : k \in (at + 1)..Len(lines) \/ k = Len(lines) + 1
  BY <1>1
<1>3. \A k \in (at + 1)..Len(lines) : k \in Nat /\ more[k] = lines[k]
  BY <1>1, <1>2
<1> QED BY <1>1, <1>2, <1>3 DEF Due, DueGrows

\* It gets a line of another client, ...
LEMMA OrderedGrows ==
  ASSUME NEW lines \in Seq(Line), NEW at \in Nat, at <= Len(lines), NEW c, NEW gone,
         NEW p \in Line, NEW more, more = Append(lines, p),
         NEW stream \in Seq(Text), p \in Text, NEW longer, longer = Append(stream, p),
         Ordered(stream, lines, at, gone, c), p.from # c
  PROVE  Ordered(longer, more, at, gone, c)
<1> DEFINE n == Len(stream) + 1
           last == Len(lines) + 1
<1>1. /\ longer \in Seq(Text) /\ Len(longer) = n /\ longer[n] = p /\ Len(stream) \in Nat
      /\ \A i \in 1..Len(stream) : longer[i] = stream[i]
  BY LenProperties, AppendProperties
<1>2. PICK line \in [2..Len(stream) -> Due(lines, at, c)] :
        /\ \A i \in 2..Len(stream) : stream[i] = lines[line[i]]
        /\ \A i, j \in 2..Len(stream) : i < j => line[i] < line[j]
        /\ \A k \in Due(lines, at, c) : lines[k].from \notin gone => k \in Range(line)
  BY DEF Ordered
<1>3. stream # <<>> /\ stream[1] = welcomeMsg /\ Len(stream) # 0
  BY EmptySeq DEF Ordered
<1>4. /\ last \in Nat /\ more[last] = p /\ last \in Due(more, at, c)
      /\ \A k \in Due(lines, at, c) : k \in Due(more, at, c) /\ more[k] = lines[k] /\ k \in Nat /\ k < last
      /\ \A k \in Due(more, at, c) : k \in Due(lines, at, c) \/ k = last
  <2>1. DueGrows(lines, more, at, c, p)
    BY DueMore
  <2>2. last \in Nat /\ more[last] = p /\ last \in Due(more, at, c)
    BY <2>1 DEF DueGrows
  <2>3. \A k \in Due(lines, at, c) : k \in Due(more, at, c) /\ more[k] = lines[k] /\ k \in Nat /\ k < last
    BY <2>1 DEF DueGrows
  <2>4. \A k \in Due(more, at, c) : k \in Due(lines, at, c) \/ k = last
    BY <2>1 DEF DueGrows
  <2> HIDE DEF last
  <2> QED BY <2>2, <2>3, <2>4
<1>5. /\ 1 \in 1..Len(stream) /\ n \in 2..n /\ n \notin 2..Len(stream)
      /\ \A i \in 2..Len(stream) : i \in 1..Len(stream) /\ i \in 2..n /\ i # n /\ i < n
      /\ \A i \in 2..n : i \in 2..Len(stream) \/ i = n
  BY <1>1, <1>3
<1> HIDE DEF n, last
<1> DEFINE next == [i \in 2..n |-> IF i = n THEN last ELSE line[i]]
<1>6. DOMAIN next = 2..n /\ next[n] = last /\ \A i \in 2..Len(stream) : next[i] = line[i]
  BY <1>5
<1>7. next \in [2..n -> Due(more, at, c)]
  <2>1. \A i \in 2..n : next[i] \in Due(more, at, c)
    BY <1>4, <1>5, <1>6
  <2> QED BY <2>1
<1> HIDE DEF next
<1>8. ASSUME NEW i \in 2..n  PROVE longer[i] = more[next[i]]
  <2>1. CASE i = n
    BY <1>1, <1>4, <1>6, <2>1
  <2>2. CASE i # n
    <3>1. i \in 2..Len(stream) /\ i \in 1..Len(stream)
      BY <1>5, <2>2
    <3>2. line[i] \in Due(lines, at, c) /\ next[i] = line[i] /\ stream[i] = lines[line[i]]
      BY <1>2, <1>6, <3>1
    <3> QED BY <1>1, <1>4, <3>1, <3>2
  <2> QED BY <2>1, <2>2
<1>9. ASSUME NEW i \in 2..n, NEW j \in 2..n, i < j  PROVE next[i] < next[j]
  <2>1. n \in Int /\ \A k \in 2..Len(stream) : k < n
    BY <1>1, <1>5 DEF n
  <2>2. i \in 2..Len(stream)
    BY <1>5, <1>9, <2>1
  <2>3. CASE j = n
    BY <1>2, <1>4, <1>6, <2>2, <2>3
  <2>4. CASE j # n
    BY <1>2, <1>5, <1>6, <1>9, <2>2, <2>4
  <2> QED BY <2>3, <2>4
<1>10. ASSUME NEW k \in Due(more, at, c), more[k].from \notin gone  PROVE k \in Range(next)
  <2>1. CASE k = last
    BY <1>5, <1>6, <2>1 DEF Range
  <2>2. CASE k \in Due(lines, at, c)
    <3>1. PICK i \in 2..Len(stream) : k = line[i]
      BY <1>2, <1>4, <1>10, <2>2 DEF Range
    <3> QED BY <1>5, <1>6, <3>1 DEF Range
  <2> QED BY <1>4, <2>1, <2>2
<1>11. longer # <<>> /\ longer[1] = welcomeMsg
  BY <1>1, <1>3, <1>5, EmptySeq DEF n
<1>12. Len(longer) = n
  BY <1>1 DEF n
<1> QED BY <1>7, <1>8, <1>9, <1>10, <1>11, <1>12 DEF Ordered

\* ... or it does not get one of its own, or of a client that had gone.
LEMMA OrderedPasses ==
  ASSUME NEW lines \in Seq(Line), NEW at \in Nat, at <= Len(lines), NEW c, NEW gone,
         NEW p \in Line, NEW more, more = Append(lines, p), NEW stream,
         Ordered(stream, lines, at, gone, c), p.from \in {c} \cup gone
  PROVE  Ordered(stream, more, at, gone, c)
<1>1. PICK line \in [2..Len(stream) -> Due(lines, at, c)] :
        /\ \A i \in 2..Len(stream) : stream[i] = lines[line[i]]
        /\ \A i, j \in 2..Len(stream) : i < j => line[i] < line[j]
        /\ \A k \in Due(lines, at, c) : lines[k].from \notin gone => k \in Range(line)
  BY DEF Ordered
<1>2. /\ more[Len(lines) + 1] = p
      /\ \A k \in Due(lines, at, c) : k \in Due(more, at, c) /\ more[k] = lines[k]
      /\ \A k \in Due(more, at, c) : k \in Due(lines, at, c) \/ (k = Len(lines) + 1 /\ p.from # c)
  <2>1. DueGrows(lines, more, at, c, p)
    BY DueMore
  <2> QED BY <2>1 DEF DueGrows
<1>3. line \in [2..Len(stream) -> Due(more, at, c)]
  BY <1>2
<1>4. \A i \in 2..Len(stream) : stream[i] = more[line[i]]
  BY <1>1, <1>2
<1>5. \A k \in Due(more, at, c) : more[k].from \notin gone => k \in Range(line)
  BY <1>1, <1>2
<1> QED BY <1>1, <1>3, <1>4, <1>5 DEF Ordered

\* The lines that carry the id of the reader of fd, in an inbox that gets a message ...
LEMMA PosingSent ==
  ASSUME NEW q \in Seq(ServerMsg), NEW m \in ServerMsg, NEW r, r = Append(q, m),
         NEW fd, NEW reader, NEW allowed, Posing(q, fd, reader, allowed),
         m.type = "READ" /\ m.sender = reader /\ NoMsg(q, "EXIT", fd) => m.payload.from \in allowed
  PROVE  Posing(r, fd, reader, allowed)
<1>1. /\ Len(q) \in Nat /\ DOMAIN q = 1..Len(q)
      /\ \A i \in DOMAIN q : i \in DOMAIN r /\ r[i] = q[i]
      /\ r[Len(q) + 1] = m
      /\ \A i \in DOMAIN r : i \in DOMAIN q \/ i = Len(q) + 1
  BY Sent
<1> SUFFICES ASSUME NEW i \in DOMAIN r, r[i].type = "READ" /\ r[i].sender = reader,
                    \A j \in 1..(i - 1) : ~IsMsg(r, j, "EXIT", fd)
             PROVE  r[i].payload.from \in allowed
  BY DEF Posing
<1>2. CASE i \in DOMAIN q
  <2>1. \A j \in 1..(i - 1) : j \in DOMAIN q
    BY <1>1, <1>2
  <2>2. \A j \in 1..(i - 1) : ~IsMsg(q, j, "EXIT", fd)
    BY <1>1, <2>1 DEF IsMsg
  <2> QED BY <1>1, <1>2, <2>2 DEF Posing
<1>3. CASE i = Len(q) + 1
  <2>1. \A j \in DOMAIN q : j \in 1..(i - 1)
    BY <1>1, <1>3
  <2>2. NoMsg(q, "EXIT", fd)
    BY <1>1, <2>1 DEF NoMsg, IsMsg
  <2> QED BY <1>1, <1>3, <2>2
<1> QED BY <1>1, <1>2, <1>3

\* ... or of which the first is taken.
LEMMA PosingTaken ==
  ASSUME NEW q \in Seq(ServerMsg), q # <<>>, NEW r, r = Tail(q),
         NEW fd, NEW reader, NEW allowed, Posing(q, fd, reader, allowed),
         ~(Head(q).type = "EXIT" /\ Head(q).payload = fd)
  PROVE  Posing(r, fd, reader, allowed)
<1>1. /\ r \in Seq(ServerMsg) /\ Head(q) = q[1] /\ 1 \in DOMAIN q
      /\ \A i \in DOMAIN r : i \in Nat /\ i + 1 \in DOMAIN q /\ i + 1 # 1 /\ r[i] = q[i + 1]
  BY Taken
<1>2. Len(r) \in Nat /\ DOMAIN r = 1..Len(r)
  BY <1>1, LenProperties
<1> SUFFICES ASSUME NEW i \in DOMAIN r, r[i].type = "READ" /\ r[i].sender = reader,
                    \A j \in 1..(i - 1) : ~IsMsg(r, j, "EXIT", fd)
             PROVE  r[i].payload.from \in allowed
  BY DEF Posing
<1>3. ASSUME NEW j \in 1..((i + 1) - 1)  PROVE ~IsMsg(q, j, "EXIT", fd)
  <2>1. CASE j = 1
    BY <1>1, <2>1 DEF IsMsg
  <2>2. CASE j # 1
    <3>1. j - 1 \in 1..(i - 1) /\ j - 1 \in DOMAIN r /\ (j - 1) + 1 = j
      BY <1>2, <2>2
    <3> QED BY <1>1, <3>1 DEF IsMsg
  <2> QED BY <2>1, <2>2
<1>4. i + 1 \in DOMAIN q /\ r[i] = q[i + 1]
  BY <1>1
<1> QED BY <1>3, <1>4 DEF Posing

\* A registered client, its writer and what is on its way to it.
IsRegistered(fd, w, c) ==
  /\ cliwriter[fd] = w /\ w \in Id /\ w # serverid /\ w # 0
  /\ socket[fd] = c /\ c \in Conn /\ c # NoConn /\ peer[c] # "new"
  /\ actor[w].fn = "clientWriter" /\ actor[w].fd = fd /\ actor[w].conn = c
  /\ mailbox[w] \in Seq(WriterMsg) /\ \A i \in DOMAIN mailbox[w] : mailbox[w][i].type = "WRITE"
  /\ writing[w] \in Seq(Text) /\ Len(writing[w]) <= 1
  /\ out[c][c] \in Seq(Text)
  /\ \A g \in Fd : (cliwriter[g] = w => g = fd) /\ (socket[g] = c => g = fd)

LEMMA Registered ==
  ASSUME ChatInv, NEW fd \in Fd, cliwriter[fd] # 0
  PROVE  \E w, c : IsRegistered(fd, w, c)
<1>1. PICK w, c : w = cliwriter[fd] /\ c = socket[fd]
  OBVIOUS
<1>2. /\ MailTypes /\ DataTypes /\ Sockets /\ \A g \in Fd : WriterHas(g)
      /\ Placed(fd)
  BY DEF ChatInv
<1>3. /\ actor[w] = [fn |-> "clientWriter", fd |-> fd, conn |-> c]
      /\ \A i \in DOMAIN mailbox[w] : mailbox[w][i].type = "WRITE"
  BY <1>1, <1>2 DEF WriterHas
<1>4. w \in Id /\ w # serverid /\ w # 0
  BY <1>1, WriterIs
<1>5. c \in Conn /\ c # NoConn /\ peer[c] # "new"
  <2>1. c # NoConn
    BY <1>1, <1>2 DEF Placed, Unused, Coming, Up, Leaving
  <2>2. c \in Conn \cup {NoConn}
    BY <1>1, <1>2, Ids DEF DataTypes
  <2> QED BY <1>1, <1>2, <2>1, <2>2 DEF Sockets
<1>6. mailbox[w] \in Seq(WriterMsg) /\ writing[w] \in Seq(Text) /\ Len(writing[w]) <= 1 /\ out[c][c] \in Seq(Text)
  BY <1>2, <1>4, <1>5 DEF MailTypes, DataTypes
<1>7. \A g \in Fd : (cliwriter[g] = w => g = fd) /\ (socket[g] = c => g = fd)
  <2>1. ASSUME NEW g \in Fd, cliwriter[g] = w  PROVE g = fd
    <3>1. actor[w] = [fn |-> "clientWriter", fd |-> g, conn |-> socket[g]]
      BY <1>2, <1>4, <2>1 DEF WriterHas
    <3> QED BY <1>3, <3>1
  <2>2. ASSUME NEW g \in Fd, socket[g] = c  PROVE g = fd
    BY <1>1, <1>2, <1>5, <2>2 DEF Sockets
  <2> QED BY <2>1, <2>2
<1>8. IsRegistered(fd, w, c)
  BY <1>1, <1>3, <1>4, <1>5, <1>6, <1>7 DEF IsRegistered
<1> QED BY <1>8

\* What a step leaves of the order, when it changes nothing of a client, ...
LEMMA OrderKeeps ==
  ASSUME ChatInv, NEW fd \in Fd, GetsInOrder(fd),
         cliwriter'[fd] = cliwriter[fd], socket'[fd] = socket[fd], log' = log,
         \A w, c : IsRegistered(fd, w, c) =>
           /\ writing'[w] = writing[w] /\ mailbox'[w] = mailbox[w]
           /\ out'[c][c] = out[c][c] /\ joined'[c] = joined[c]
  PROVE  GetsInOrder(fd)'
<1> SUFFICES ASSUME cliwriter[fd] # 0
             PROVE  GetsInOrder(fd)'
  BY DEF GetsInOrder
<1>1. PICK w, c : IsRegistered(fd, w, c)
  BY Registered
<1>2. /\ cliwriter[fd] = w /\ socket[fd] = c /\ cliwriter'[fd] = w /\ socket'[fd] = c
      /\ writing'[w] = writing[w] /\ mailbox'[w] = mailbox[w]
      /\ out'[c][c] = out[c][c] /\ joined'[c] = joined[c]
  BY <1>1 DEF IsRegistered
<1> QED BY <1>2 DEF GetsInOrder, Stream

\* ... or only moves texts on.
LEMMA OrderMoves ==
  ASSUME NEW fd \in Fd, NEW w, NEW c, IsRegistered(fd, w, c), GetsInOrder(fd),
         cliwriter'[fd] = w, socket'[fd] = c, log' = log, joined'[c] = joined[c],
         Flow(out'[c][c], writing'[w], mailbox'[w]) = Flow(out[c][c], writing[w], mailbox[w])
  PROVE  GetsInOrder(fd)'
<1>1. /\ Stream(c, w) = Flow(out[c][c], writing[w], mailbox[w])
      /\ Stream(c, w)' = Flow(out'[c][c], writing'[w], mailbox'[w])
  BY DEF Stream, Flow
<1>2. Ordered(Stream(c, w), log, joined[c].at, joined[c].gone, c)
  BY DEF GetsInOrder, IsRegistered
<1> DEFINE st == Stream(c, w)'
<1>3. Ordered(st, log', joined'[c].at, joined'[c].gone, c)
  BY <1>1, <1>2
<1>4. GetsInOrder(fd)' <=> (w # 0 => Ordered(st, log', joined'[c].at, joined'[c].gone, c))
  BY DEF GetsInOrder, Stream
<1> QED BY <1>3, <1>4

LEMMA SendersKeep ==
  ASSUME ChatInv, SendersLive, NEW more,
         \A i \in DOMAIN Inbox' : (\E j \in DOMAIN Inbox : Inbox'[i] = Inbox[j]) \/ Inbox'[i] = more,
         \A msg \in ServerMsg : SenderLives(msg) => SenderLives(msg)',
         SenderLives(more)'
  PROVE  SendersLive'
<1>1. \A i \in DOMAIN Inbox : Inbox[i] \in ServerMsg /\ SenderLives(Inbox[i])
  BY LenProperties DEF ChatInv, MailTypes, SendersLive, Inbox
<1>2. \A i \in DOMAIN Inbox' : \A msg : msg = Inbox'[i] => SenderLives(msg)'
  BY <1>1
<1> QED BY <1>2 DEF SendersLive, SenderLives

LEMMA ImpostorsSent ==
  ASSUME ChatInv, NEW fd \in Fd, Impostors(fd), NEW m \in ServerMsg, Inbox' = Append(Inbox, m),
         cliwriter'[fd] = cliwriter[fd], clireader'[fd] = clireader[fd], socket'[fd] = socket[fd], joined' = joined,
         cliwriter[fd] # 0 /\ m.type = "READ" /\ m.sender = clireader[fd] /\ NoMsg(Inbox, "EXIT", fd) =>
           m.payload.from \in {socket[fd]} \cup joined[socket[fd]].gone
  PROVE  Impostors(fd)'
<1> SUFFICES ASSUME cliwriter[fd] # 0
             PROVE  Impostors(fd)'
  BY DEF Impostors
<1> DEFINE q == Inbox  r == Inbox'
<1>1. PICK reader, allowed : reader = clireader[fd] /\ allowed = {socket[fd]} \cup joined[socket[fd]].gone
  OBVIOUS
<1>2. /\ q \in Seq(ServerMsg) /\ r = Append(q, m) /\ Posing(q, fd, reader, allowed)
      /\ m.type = "READ" /\ m.sender = reader /\ NoMsg(q, "EXIT", fd) => m.payload.from \in allowed
  BY <1>1 DEF ChatInv, MailTypes, Inbox, Impostors
<1> HIDE DEF q, r
<1>3. Posing(r, fd, reader, allowed)
  BY <1>2, PosingSent
<1>4. reader = clireader'[fd] /\ allowed = {socket'[fd]} \cup joined'[socket'[fd]].gone
  BY <1>1
<1> QED BY <1>3, <1>4 DEF Impostors, r

LEMMA ImpostorsTaken ==
  ASSUME ChatInv, NEW fd \in Fd, Impostors(fd), Inbox # <<>>, Inbox' = Tail(Inbox),
         ~(Head(Inbox).type = "EXIT" /\ Head(Inbox).payload = fd),
         cliwriter'[fd] = cliwriter[fd], clireader'[fd] = clireader[fd], socket'[fd] = socket[fd],
         \A w, c : IsRegistered(fd, w, c) => joined'[c] = joined[c]
  PROVE  Impostors(fd)'
<1> SUFFICES ASSUME cliwriter[fd] # 0
             PROVE  Impostors(fd)'
  BY DEF Impostors
<1>0. joined'[socket[fd]] = joined[socket[fd]]
  <2>1. PICK w, c : IsRegistered(fd, w, c)
    BY Registered
  <2>2. c = socket[fd]
    BY <2>1 DEF IsRegistered
  <2> QED BY <2>1, <2>2
<1> DEFINE q == Inbox  r == Inbox'
<1>1. PICK reader, allowed : reader = clireader[fd] /\ allowed = {socket[fd]} \cup joined[socket[fd]].gone
  OBVIOUS
<1>2. /\ q \in Seq(ServerMsg) /\ q # <<>> /\ r = Tail(q) /\ Posing(q, fd, reader, allowed)
      /\ ~(Head(q).type = "EXIT" /\ Head(q).payload = fd)
  BY <1>1 DEF ChatInv, MailTypes, Inbox, Impostors
<1> HIDE DEF q, r
<1>3. Posing(r, fd, reader, allowed)
  BY <1>2, PosingTaken
<1>4. reader = clireader'[fd] /\ allowed = {socket'[fd]} \cup joined'[socket'[fd]].gone
  BY <1>0, <1>1
<1> QED BY <1>3, <1>4 DEF Impostors, r

LEMMA OInit == Init => OrderInv
<1> SUFFICES ASSUME Init  PROVE OrderInv
  OBVIOUS
<1>1. Inbox = <<>> /\ DOMAIN Inbox = {} /\ Len(log) \in Nat
  BY Ids, EmptySeq DEF Init, Inbox
<1>2. \A id \in Id : actor[id].fn # "clientWriter"
  BY Ids DEF Init, NoActor
<1>3. \A fd \in Fd : cliwriter[fd] = 0
  BY DEF Init
<1>4. \A c \in Conn : out[c][c] = <<>> /\ joined[c].at = 0 /\ 0 <= Len(log)
  BY <1>1 DEF Init
<1> QED BY <1>1, <1>2, <1>3, <1>4
        DEF OrderInv, WriterOf, Unwritten, JoinedBefore, SendersLive, Impostors, GetsInOrder

LEMMA OAccept ==
  ASSUME ChatInv, OrderInv, NEW c \in Conn, clientAccpetor(c)
  PROVE  OrderInv'
<1>1. PICK fd \in Fd :
        /\ socket[fd] = NoConn /\ socket' = [socket EXCEPT ![fd] = c]
        /\ sherrySendMsg(serverid, [type |-> "CREATE", sender |-> accpetorid, payload |-> fd])
  BY DEF clientAccpetor
<1> DEFINE m == [type |-> "CREATE", sender |-> accpetorid, payload |-> fd]
<1>2. /\ peer[c] = "new" /\ peer' = [peer EXCEPT ![c] = "open"]
      /\ UNCHANGED <<actor, writing, clireader, cliwriter, said, out, log, joined>>
  BY DEF clientAccpetor, tables
<1>3. ActorTypes /\ MailTypes /\ DataTypes /\ Sockets
  BY DEF ChatInv
<1>4. m \in ServerMsg /\ m.type = "CREATE" /\ sherrySendMsg(serverid, m)
  BY <1>1, Ids DEF ServerMsg
<1> HIDE DEF m
<1>5. /\ Inbox' = Append(Inbox, m)
      /\ \A id \in Id : id # serverid => mailbox'[id] = mailbox[id]
      /\ \A i \in DOMAIN Inbox' : (i \in DOMAIN Inbox /\ Inbox'[i] = Inbox[i]) \/ Inbox'[i] = m
  BY <1>3, <1>4, InboxGets
<1>6. /\ socket'[fd] = c /\ c # NoConn
      /\ \A g \in Fd : g # fd => socket'[g] = socket[g] /\ socket[g] # c
      /\ \A d \in Conn : d # c => peer'[d] = peer[d]
      /\ peer'[c] = "open"
  BY <1>1, <1>2, <1>3, Ids DEF DataTypes, Sockets
<1>7. cliwriter[fd] = 0
  BY <1>1 DEF ChatInv, Placed, Unused, Coming, Up, Leaving
<1>8. ASSUME NEW id \in Id  PROVE WriterOf(id)'
  <2>1. actor[id].fn = "clientWriter" => actor[id].conn \in Conn /\ actor[id].fd \in Fd
    BY <1>3, Working DEF Workers
  <2> QED BY <1>2, <1>6, <2>1 DEF OrderInv, WriterOf
<1>9. ASSUME NEW d \in Conn  PROVE Unwritten(d)' /\ JoinedBefore(d)'
  <2>1. Unwritten(d)'
    BY <1>2, <1>6 DEF OrderInv, Unwritten
  <2>2. JoinedBefore(d)'
    BY <1>2 DEF OrderInv, JoinedBefore
  <2> QED BY <2>1, <2>2
<1>10. SendersLive'
  <2>1. ASSUME NEW msg \in ServerMsg, SenderLives(msg)  PROVE SenderLives(msg)'
    <3>1. msg.type = "READ" => msg.payload.from \in Conn
      BY DEF ServerMsg, Line
    <3> QED BY <1>2, <1>6, <2>1, <3>1 DEF SenderLives
  <2>2. SenderLives(m)'
    BY <1>4 DEF SenderLives
  <2> QED BY <1>5, <2>1, <2>2, SendersKeep DEF OrderInv
<1>11. ASSUME NEW g \in Fd  PROVE Impostors(g)' /\ GetsInOrder(g)'
  <2>1. CASE g = fd
    BY <1>2, <1>7, <2>1 DEF Impostors, GetsInOrder
  <2>2. CASE g # fd
    <3>1. Impostors(g)'
      BY <1>2, <1>4, <1>5, <1>6, <2>2, ImpostorsSent DEF OrderInv
    <3>2. GetsInOrder(g)'
      BY <1>2, <1>5, <1>6, <2>2, OrderKeeps DEF OrderInv, IsRegistered
    <3> QED BY <3>1, <3>2
  <2> QED BY <2>1, <2>2
<1> QED BY <1>8, <1>9, <1>10, <1>11 DEF OrderInv

LEMMA OReaderReads ==
  ASSUME ChatInv, OrderInv, NEW id \in Id, ReaderReads(id)
  PROVE  OrderInv'
<1> DEFINE c == socket[actor[id].fd]
           m == [type |-> "READ", sender |-> id, payload |-> [from |-> c, n |-> said[c] + 1]]
<1>1. /\ actor[id].fn = "clientReader" /\ sherrySendMsg(serverid, m)
      /\ UNCHANGED <<actor, writing, clireader, cliwriter, socket, peer, out, log, joined>>
  BY DEF ReaderReads, tables, history
<1>2. PICK fd \in Fd : fd = actor[id].fd
  BY <1>1, ReaderIs
<1>3. /\ Up(fd) /\ clireader[fd] = id /\ c = socket[fd] /\ c \in Conn /\ actor[id].conn = c
  BY <1>1, <1>2, ReaderIs
<1>4. MailTypes /\ DataTypes
  BY DEF ChatInv
<1>5. m \in ServerMsg /\ m.type = "READ" /\ m.sender = id /\ m.payload.from = c
  BY <1>3, <1>4 DEF ServerMsg, Line, DataTypes
<1> HIDE DEF m, c
<1>6. /\ Inbox' = Append(Inbox, m)
      /\ \A i \in Id : i # serverid => mailbox'[i] = mailbox[i]
      /\ \A i \in DOMAIN Inbox' : (i \in DOMAIN Inbox /\ Inbox'[i] = Inbox[i]) \/ Inbox'[i] = m
  BY <1>1, <1>4, <1>5, InboxGets
<1>7. /\ \A i \in Id : WriterOf(i)'
      /\ \A d \in Conn : Unwritten(d)' /\ JoinedBefore(d)'
  BY <1>1 DEF OrderInv, WriterOf, Unwritten, JoinedBefore
<1>8. SendersLive'
  <2>1. \A msg \in ServerMsg : SenderLives(msg) => SenderLives(msg)'
    BY <1>1 DEF SenderLives
  <2>2. PICK msg : msg = m
    OBVIOUS
  <2>3. SenderLives(msg)'
    BY <1>1, <1>3, <1>5, <2>2 DEF SenderLives
  <2> QED BY <1>6, <2>1, <2>2, <2>3, SendersKeep DEF OrderInv
<1>9. ASSUME NEW g \in Fd  PROVE Impostors(g)' /\ GetsInOrder(g)'
  <2>1. ASSUME cliwriter[g] # 0, m.sender = clireader[g], NoMsg(Inbox, "EXIT", g)
        PROVE  m.payload.from = socket[g]
    <3>1. Up(g)
      <4>1. Placed(g) /\ ~Leaving(g)
        BY <2>1 DEF ChatInv, Leaving, OneMsg, NoMsg
      <4> QED BY <2>1, <4>1 DEF Placed, Unused, Coming
    <3>2. IsReader(id, g)
      BY <1>5, <2>1, <3>1 DEF Up
    <3> QED BY <1>2, <1>3, <1>5, <3>2 DEF IsReader
  <2>2. Impostors(g)'
    BY <1>1, <1>5, <1>6, <2>1, ImpostorsSent DEF OrderInv
  <2>3. GetsInOrder(g)'
    BY <1>1, <1>6, OrderKeeps DEF OrderInv, IsRegistered
  <2> QED BY <2>2, <2>3
<1> QED BY <1>7, <1>8, <1>9 DEF OrderInv

LEMMA OReaderEnds ==
  ASSUME ChatInv, OrderInv, NEW id \in Id, ReaderEnds(id)
  PROVE  OrderInv'
<1>1. PICK fd \in Fd : fd = actor[id].fd /\ actor[id].fn = "clientReader"
  BY ReaderIs DEF ReaderEnds
<1> DEFINE m == [type |-> "EXIT", sender |-> id, payload |-> fd]
<1>2. PICK c \in Conn : c = socket[fd] /\ actor[id].conn = c
  BY <1>1, ReaderIs
<1>3. /\ sherrySendMsg(serverid, m)
      /\ actor' = [actor EXCEPT ![id] = NoActor] /\ peer' = [peer EXCEPT ![c] = "gone"]
      /\ UNCHANGED <<writing, clireader, cliwriter, socket, said, out, log, joined>>
  BY <1>1, <1>2 DEF ReaderEnds, tables
<1>4. ActorTypes /\ MailTypes /\ DataTypes
  BY DEF ChatInv
<1>5. m \in ServerMsg /\ m.type = "EXIT"
  BY DEF ServerMsg
<1> HIDE DEF m
<1>6. /\ Inbox' = Append(Inbox, m)
      /\ \A i \in Id : i # serverid => mailbox'[i] = mailbox[i]
      /\ \A i \in DOMAIN Inbox' : (i \in DOMAIN Inbox /\ Inbox'[i] = Inbox[i]) \/ Inbox'[i] = m
  BY <1>3, <1>4, <1>5, InboxGets
<1>7. /\ actor'[id] = NoActor /\ NoActor.fn = "none" /\ \A i \in Id : i # id => actor'[i] = actor[i]
      /\ peer'[c] = "gone" /\ \A d \in Conn : d # c => peer'[d] = peer[d]
  BY <1>3, <1>4 DEF ActorTypes, DataTypes, NoActor
<1>8. ASSUME NEW i \in Id  PROVE WriterOf(i)'
  <2>1. CASE i = id
    BY <1>7, <2>1 DEF WriterOf
  <2>2. CASE i # id
    <3>1. actor[i].fn = "clientWriter" => actor[i].conn \in Conn
      BY <1>4, Working DEF Workers
    <3> QED BY <1>3, <1>7, <2>2, <3>1 DEF OrderInv, WriterOf
  <2> QED BY <2>1, <2>2
<1>9. \A d \in Conn : Unwritten(d)' /\ JoinedBefore(d)'
  BY <1>3, <1>7 DEF OrderInv, Unwritten, JoinedBefore
<1>10. SendersLive'
  <2>1. ASSUME NEW msg \in ServerMsg, SenderLives(msg)  PROVE SenderLives(msg)'
    <3>1. msg.type = "READ" => msg.payload.from \in Conn /\ msg.sender \in Id
      BY DEF ServerMsg, Line
    <3>2. CASE msg.type = "READ" /\ msg.sender = id
      BY <1>1, <1>2, <1>7, <2>1, <3>1, <3>2 DEF SenderLives
    <3>3. CASE ~(msg.type = "READ" /\ msg.sender = id)
      BY <1>7, <2>1, <3>1, <3>3 DEF SenderLives
    <3> QED BY <3>2, <3>3
  <2>2. SenderLives(m)'
    BY <1>5 DEF SenderLives
  <2> QED BY <1>6, <2>1, <2>2, SendersKeep DEF OrderInv
<1>11. ASSUME NEW g \in Fd  PROVE Impostors(g)' /\ GetsInOrder(g)'
  <2>1. Impostors(g)'
    BY <1>3, <1>5, <1>6, ImpostorsSent DEF OrderInv
  <2>2. GetsInOrder(g)'
    BY <1>3, <1>6, OrderKeeps DEF OrderInv, IsRegistered
  <2> QED BY <2>1, <2>2
<1> QED BY <1>8, <1>9, <1>10, <1>11 DEF OrderInv

LEMMA OClientWriter ==
  ASSUME ChatInv, OrderInv, NEW id \in Id, clientWriter(id)
  PROVE  OrderInv'
<1> DEFINE Same == actor'[id] = actor[id]
           Waits == Same /\ mailbox'[id] = mailbox[id] /\ writing'[id] = <<>>
           Takes == /\ Same /\ mailbox[id] # <<>>
                    /\ mailbox'[id] = Tail(mailbox[id]) /\ writing'[id] = <<Head(mailbox[id]).payload>>
           Ends == mailbox[id] # <<>> /\ Head(mailbox[id]).type = "EXIT" /\ actor'[id] = NoActor
<1>1. /\ actor[id].fn = "clientWriter" /\ sherryWrite(id)
      /\ UNCHANGED <<clireader, cliwriter, socket, said, peer, log, joined>>
  BY DEF clientWriter, tables
<1>2. /\ ActorTypes /\ MailTypes /\ DataTypes /\ Sockets
      /\ DOMAIN actor = Id /\ DOMAIN mailbox = Id /\ DOMAIN writing = Id
  BY DEF ChatInv, ActorTypes, MailTypes
<1>3. id # serverid /\ mailbox[id] \in Seq(WriterMsg)
  BY <1>1, <1>2, Working DEF Workers, MailTypes
<1>4. \A i \in Id : i # id => actor'[i] = actor[i] /\ mailbox'[i] = mailbox[i] /\ writing'[i] = writing[i]
  BY <1>2 DEF clientWriter
<1>5. (Waits \/ Takes \/ Ends) /\ NoActor.fn = "none"
  BY <1>2 DEF clientWriter, NoActor
<1>6. Inbox' = Inbox
  BY <1>3, <1>4, Ids DEF Inbox
<1>7. PICK fd \in Fd, d \in Conn : fd = actor[id].fd /\ d = actor[id].conn
  BY <1>1, <1>2, Working DEF Workers
<1>8. out' = IF socket[fd] = NoConn \/ writing[id] = <<>> THEN out
             ELSE [out EXCEPT ![socket[fd]][d] = Append(@, writing[id][1])]
  BY <1>1, <1>7 DEF sherryWrite
<1>9. socket[fd] \in Conn \cup {NoConn} /\ out \in [Conn -> [Conn -> Seq(Text)]]
  BY <1>2, Ids DEF DataTypes
<1>10. ASSUME NEW e \in Conn, out'[e][e] # out[e][e]
       PROVE  socket[fd] = e /\ cliwriter[fd] = id
  <2>1. socket[fd] = e /\ d = e
    BY <1>8, <1>9, <1>10
  <2> QED BY <1>1, <1>7, <2>1 DEF OrderInv, WriterOf
<1>11. ASSUME NEW i \in Id  PROVE WriterOf(i)'
  <2>1. CASE i = id
    BY <1>1, <1>5, <2>1 DEF OrderInv, WriterOf
  <2>2. CASE i # id
    BY <1>1, <1>4, <2>2 DEF OrderInv, WriterOf
  <2> QED BY <2>1, <2>2
<1>12. ASSUME NEW e \in Conn  PROVE Unwritten(e)' /\ JoinedBefore(e)'
  <2>1. JoinedBefore(e)'
    BY <1>1 DEF OrderInv, JoinedBefore
  <2>2. ASSUME socket[fd] = e, cliwriter[fd] = id
        PROVE  ~(peer[e] = "new" \/ \E f \in Fd : socket[f] = e /\ cliwriter[f] = 0)
    <3>1. id # 0 /\ e # NoConn
      BY <1>3, Ids
    <3> QED BY <1>2, <2>2, <3>1 DEF Sockets
  <2>3. Unwritten(e)'
    BY <1>1, <1>10, <2>2 DEF OrderInv, Unwritten
  <2> QED BY <2>1, <2>3
<1>13. SendersLive'
  <2>1. \A msg \in ServerMsg : SenderLives(msg) => SenderLives(msg)'
    <3>1. \A msg \in ServerMsg : msg.type = "READ" => msg.sender \in Id
      BY DEF ServerMsg
    <3> QED BY <1>1, <1>4, <3>1 DEF SenderLives
  <2>2. PICK msg : msg = [type |-> "EXIT"]
    OBVIOUS
  <2>3. SenderLives(msg)'
    BY <2>2 DEF SenderLives
  <2> QED BY <1>6, <2>1, <2>3, SendersKeep DEF OrderInv
<1>14. ASSUME NEW g \in Fd  PROVE Impostors(g)' /\ GetsInOrder(g)'
  <2>1. Impostors(g)'
    BY <1>1, <1>6 DEF OrderInv, Impostors
  <2>2. CASE cliwriter[g] # id
    <3>1. ASSUME NEW w, NEW c, IsRegistered(g, w, c)
          PROVE  writing'[w] = writing[w] /\ mailbox'[w] = mailbox[w] /\ out'[c][c] = out[c][c]
      <4>1. w \in Id /\ w # id /\ c \in Conn /\ cliwriter[g] = w /\ \A f \in Fd : socket[f] = c => f = g
        BY <2>2, <3>1 DEF IsRegistered
      <4> QED BY <1>4, <1>10, <4>1
    <3>2. GetsInOrder(g)'
      BY <1>1, <3>1, OrderKeeps DEF OrderInv
    <3> QED BY <2>1, <3>2
  <2>3. CASE cliwriter[g] = id
    <3>1. cliwriter[g] # 0
      BY <1>3, <2>3, Ids
    <3>2. PICK w, c : IsRegistered(g, w, c)
      BY <3>1, Registered
    <3>3. /\ w = id /\ fd = g /\ d = c /\ socket[fd] = c /\ c # NoConn /\ c \in Conn
          /\ \A i \in DOMAIN mailbox[w] : mailbox[w][i].type = "WRITE"
          /\ writing[w] \in Seq(Text) /\ Len(writing[w]) <= 1 /\ out[c][c] \in Seq(Text)
      BY <1>7, <2>3, <3>2 DEF IsRegistered
    <3> DEFINE o == out[c][c]
               x == writing[w]
               q == mailbox[w]
               p == out'[c][c]
               y == writing'[w]
               r == mailbox'[w]
    <3>4. p = IF x = <<>> THEN o ELSE Append(o, x[1])
      BY <1>8, <1>9, <3>3
    <3>5. (r = q /\ y = <<>>) \/ (q # <<>> /\ r = Tail(q) /\ y = <<Head(q).payload>>)
      <4>1. ~Ends
        <5>1. mailbox[id] # <<>> => Head(mailbox[id]).type = "WRITE"
          <6> DEFINE z == mailbox[id]
          <6>1. z \in Seq(WriterMsg) /\ \A i \in DOMAIN z : z[i].type = "WRITE"
            BY <1>3, <3>3
          <6> HIDE DEF z
          <6>2. z # <<>> => 1 \in DOMAIN z /\ Head(z) = z[1]
            BY <6>1, Taken
          <6>3. z # <<>> => Head(z).type = "WRITE"
            BY <6>1, <6>2
          <6> QED BY <6>3 DEF z
        <5> QED BY <5>1
      <4> QED BY <1>5, <3>3, <4>1
    <3>6. /\ o \in Seq(Text) /\ x \in Seq(Text) /\ Len(x) <= 1
          /\ q \in Seq(WriterMsg) /\ \A i \in DOMAIN q : q[i].type = "WRITE"
      BY <1>3, <3>3
    <3>7. Flow(p, y, r) = Flow(o, x, q)
      <4> HIDE DEF o, x, q, p, y, r
      <4>1. p \in Seq(Text) /\ Flow(p, <<>>, q) = Flow(o, x, q)
        BY <3>4, <3>6, FlowWrites
      <4>2. p \in Seq(Text)
        BY <4>1
      <4>3. q \in Seq(WriterMsg) /\ \A i \in DOMAIN q : q[i].type = "WRITE"
        BY <3>6
      <4>4. ASSUME q # <<>>, r = Tail(q), y = <<Head(q).payload>>
            PROVE  Flow(p, y, r) = Flow(p, <<>>, q)
        BY ONLY <4>2, <4>3, <4>4, FlowTakes
      <4> QED BY <3>5, <4>1, <4>4
    <3>8. GetsInOrder(g)'
      <4>1. cliwriter'[g] = w /\ socket'[g] = c /\ log' = log /\ joined'[c] = joined[c]
        BY <1>1, <2>3, <3>3
      <4> QED BY <3>2, <3>7, <4>1, OrderMoves DEF OrderInv
    <3> QED BY <2>1, <3>8
  <2> QED BY <2>2, <2>3
<1> QED BY <1>11, <1>12, <1>13, <1>14 DEF OrderInv

LEMMA OCreate ==
  ASSUME ChatInv, OrderInv, Create
  PROVE  OrderInv'
<1>1. PICK fd : fd = Head(mailbox[serverid]).payload
  OBVIOUS
<1> DEFINE Runs(fn) == [fn |-> fn, fd |-> fd, conn |-> socket[fd]]
           gone == {d \in Conn : peer[d] = "gone"}
<1>2. PICK reader, writer \in Free :
        /\ reader < writer
        /\ actor' = [actor EXCEPT ![reader] = Runs("clientReader"), ![writer] = Runs("clientWriter")]
        /\ clireader' = [clireader EXCEPT ![fd] = reader]
        /\ cliwriter' = [cliwriter EXCEPT ![fd] = writer]
        /\ mailbox' = [mailbox EXCEPT ![serverid] = Tail(@), ![writer] = Append(@, WriteMsg(welcomeMsg))]
  BY <1>1 DEF Create
<1>3. /\ Receives("CREATE") /\ UNCHANGED <<writing, socket, said, peer, out, log>>
      /\ joined' = [joined EXCEPT ![socket[fd]] = [at |-> Len(log), gone |-> gone]]
  BY <1>1 DEF Create
<1>4. ActorTypes /\ MailTypes /\ DataTypes /\ Sockets /\ DOMAIN actor = Id /\ DOMAIN mailbox = Id
  BY DEF ChatInv, ActorTypes, MailTypes
<1>5. /\ reader \in Id \ {serverid, accpetorid} /\ writer \in Id \ {serverid, accpetorid} /\ reader # writer
      /\ actor[reader] = NoActor /\ actor[writer] = NoActor /\ NoActor.fn = "none"
      /\ mailbox[writer] = <<>> /\ writing[writer] = <<>> /\ writer # 0
  <2>1. \A i \in Id : i \in Nat
    BY DEF Id
  <2>2. actor[reader] = NoActor /\ actor[writer] = NoActor /\ NoActor.fn = "none"
    BY <1>4, FreeIds DEF NoActor
  <2>3. reader \in Id \ {serverid, accpetorid} /\ writer \in Id \ {serverid, accpetorid}
    BY <1>2, <1>4, FreeIds
  <2>4. reader # writer
    BY <1>2, <2>1, <2>3
  <2> QED BY <1>4, <2>2, <2>3, <2>4, Ids DEF MailTypes
<1>6. Inbox' = Tail(Inbox) /\ Inbox # <<>>
  BY <1>2, <1>3, <1>4, <1>5, Ids DEF Inbox, Receives
<1>7. /\ Head(Inbox) \in ServerMsg /\ Head(Inbox).type = "CREATE"
      /\ \A i \in DOMAIN Inbox' : i + 1 \in DOMAIN Inbox /\ Inbox'[i] = Inbox[i + 1]
      /\ ~NoMsg(Inbox, "CREATE", Head(Inbox).payload)
  BY <1>3, <1>4, <1>6, InboxTakes
<1>8. fd \in Fd /\ Head(Inbox).payload = fd
  BY <1>1, <1>7 DEF ServerMsg, Inbox
<1>9. PICK c \in Conn : c = socket[fd] /\ cliwriter[fd] = 0 /\ peer[c] # "new" /\ c # NoConn
  BY <1>4, <1>7, <1>8, Ids DEF ChatInv, Placed, Unused, Up, Leaving, Coming, DataTypes, Sockets
<1>10. /\ actor'[reader] = Runs("clientReader") /\ actor'[writer] = Runs("clientWriter")
       /\ \A i \in Id : i # reader /\ i # writer => actor'[i] = actor[i]
       /\ \A i \in Id : i # serverid /\ i # writer => mailbox'[i] = mailbox[i]
       /\ mailbox'[writer] = Append(<<>>, WriteMsg(welcomeMsg))
       /\ clireader'[fd] = reader /\ cliwriter'[fd] = writer
       /\ \A g \in Fd : g # fd => /\ clireader'[g] = clireader[g] /\ cliwriter'[g] = cliwriter[g]
                                  /\ socket[g] # c
       /\ joined'[c].at = Len(log) /\ joined'[c].gone = gone
       /\ \A d \in Conn : d # c => joined'[d] = joined[d]
  BY <1>2, <1>3, <1>4, <1>5, <1>8, <1>9 DEF DataTypes, Sockets
<1>11. ASSUME NEW i \in Id  PROVE WriterOf(i)'
  <2>1. CASE i = reader
    BY <1>10, <2>1 DEF WriterOf
  <2>2. CASE i = writer
    BY <1>3, <1>9, <1>10, <2>2 DEF WriterOf
  <2>3. CASE i # reader /\ i # writer
    <3>1. actor'[i] = actor[i]
      BY <1>10, <2>3
    <3>2. actor[i].fn = "clientWriter" => actor[i].fd \in Fd /\ i # 0
      BY <1>4, Working, Ids DEF Workers
    <3> QED BY <1>3, <1>9, <1>10, <3>1, <3>2 DEF OrderInv, WriterOf
  <2> QED BY <2>1, <2>2, <2>3
<1>12. ASSUME NEW d \in Conn  PROVE Unwritten(d)' /\ JoinedBefore(d)'
  <2>1. Unwritten(d)'
    BY <1>3, <1>5, <1>10 DEF OrderInv, Unwritten
  <2>2. JoinedBefore(d)'
    <3>1. Len(log) \in Nat
      BY <1>4, LenProperties DEF DataTypes
    <3> QED BY <1>3, <1>10, <3>1 DEF OrderInv, JoinedBefore
  <2> QED BY <2>1, <2>2
<1>13. ASSUME NEW msg \in ServerMsg, SenderLives(msg)
       PROVE  /\ SenderLives(msg)'
              /\ msg.type = "READ" /\ msg.sender = reader => msg.payload.from \in gone
  <2>1. msg.type = "READ" => msg.sender \in Id /\ msg.payload.from \in Conn
    BY DEF ServerMsg, Line
  <2> QED BY <1>3, <1>5, <1>10, <1>13, <2>1 DEF SenderLives
<1>14. SendersLive'
  <2>1. PICK msg : msg = Head(Inbox)
    OBVIOUS
  <2>2. SenderLives(msg)'
    BY <1>7, <2>1 DEF SenderLives
  <2> QED BY <1>7, <1>13, <2>1, <2>2, SendersKeep DEF OrderInv
<1>15. Impostors(fd)'
  <2>1. ASSUME NEW i \in DOMAIN Inbox', Inbox'[i].type = "READ", Inbox'[i].sender = reader
        PROVE  Inbox'[i].payload.from \in gone
    <3>1. PICK msg : msg = Inbox[i + 1]
      OBVIOUS
    <3>2. Inbox'[i] = msg /\ msg \in ServerMsg /\ SenderLives(msg)
      BY <1>4, <1>7, <3>1, LenProperties DEF OrderInv, SendersLive, MailTypes, Inbox
    <3> QED BY <1>13, <2>1, <3>2
  <2> DEFINE q == Inbox'
             allowed == {c} \cup gone
  <2>2. Posing(q, fd, reader, allowed)
    <3>1. \A i \in DOMAIN q : q[i].type = "READ" /\ q[i].sender = reader => q[i].payload.from \in allowed
      BY <2>1
    <3> HIDE DEF q, allowed
    <3> QED BY <3>1 DEF Posing
  <2>3. clireader'[fd] = reader /\ {socket'[fd]} \cup joined'[socket'[fd]].gone = allowed
    BY <1>3, <1>9, <1>10
  <2> HIDE DEF allowed
  <2> QED BY <2>2, <2>3 DEF Impostors
<1>16. GetsInOrder(fd)'
  <2> DEFINE m == WriteMsg(welcomeMsg)
             r == Append(<<>>, m)
             stream == Stream(c, writer)'
  <2>1. out'[c][c] = <<>> /\ writing'[writer] = <<>> /\ mailbox'[writer] = r
    BY <1>3, <1>5, <1>8, <1>9, <1>10 DEF OrderInv, Unwritten
  <2>2. stream = Flow(<<>>, <<>>, r)
    BY <2>1 DEF Stream, Flow
  <2>3. m \in WriterMsg /\ m.type = "WRITE" /\ m.payload = welcomeMsg
    BY Ids, ChatAssumption DEF WriteMsg, welcomeMsg, WriterMsg, Text, NoConn
  <2>4. <<>> \in Seq(Text) /\ <<>> \in Seq(WriterMsg) /\ Len(<<>>) = 0
    BY EmptySeq
  <2>5. r = <<m>> /\ r \in Seq(WriterMsg) /\ Len(r) = 1 /\ DOMAIN r = {1} /\ r[1] = m
    BY <2>3, <2>4
  <2> HIDE DEF m, r, stream
  <2>6. stream = <<welcomeMsg>>
    <3>1. IsFlow(stream, <<>>, <<>>, r)
      <4>1. \A i \in DOMAIN r : r[i].type = "WRITE"
        BY <2>3, <2>5
      <4> QED BY ONLY <2>2, <2>4, <2>5, <4>1, FlowIs
    <3>2. stream \in Seq(Text) /\ Len(stream) = 1 /\ stream[1] = welcomeMsg
      BY <2>3, <2>4, <2>5, <3>1 DEF IsFlow
    <3>3. stream = <<stream[1]>>
      BY <3>2
    <3> QED BY <3>2, <3>3
  <2>7. Ordered(stream, log, Len(log), gone, c)
    <3>1. log \in Seq(Line)
      BY <1>4 DEF DataTypes
    <3> HIDE DEF gone
    <3> QED BY <2>6, <3>1, OrderedFirst
  <2>8. GetsInOrder(fd)' <=>
          (writer # 0 => Ordered(stream, log', joined'[c].at, joined'[c].gone, c))
    BY <1>3, <1>9, <1>10 DEF GetsInOrder, stream
  <2> QED BY <1>3, <1>10, <2>7, <2>8
<1>17. ASSUME NEW g \in Fd, g # fd  PROVE Impostors(g)' /\ GetsInOrder(g)'
  <2>1. ASSUME NEW w, NEW d, IsRegistered(g, w, d)
        PROVE  /\ writing'[w] = writing[w] /\ mailbox'[w] = mailbox[w]
               /\ out'[d][d] = out[d][d] /\ joined'[d] = joined[d]
    <3>1. w \in Id /\ w # serverid /\ w # writer /\ d \in Conn /\ d # c
      BY <1>5, <1>10, <1>17, <2>1 DEF IsRegistered
    <3> QED BY <1>3, <1>10, <3>1
  <2>2. Impostors(g)'
    BY <1>3, <1>6, <1>7, <1>10, <1>17, <2>1, ImpostorsTaken DEF OrderInv
  <2>3. GetsInOrder(g)'
    BY <1>3, <1>10, <1>17, <2>1, OrderKeeps DEF OrderInv
  <2> QED BY <2>2, <2>3
<1> QED BY <1>11, <1>12, <1>14, <1>15, <1>16, <1>17 DEF OrderInv

LEMMA OExit ==
  ASSUME ChatInv, OrderInv, Exit
  PROVE  OrderInv'
<1>1. PICK fd, w : fd = Head(mailbox[serverid]).payload /\ w = cliwriter[fd]
  OBVIOUS
<1> DEFINE m == [type |-> "EXIT", sender |-> serverid, payload |-> 0]
<1>2. /\ Receives("EXIT") /\ UNCHANGED <<actor, writing, said, peer, out, log, joined>>
      /\ mailbox' = [id \in Id |->
           CASE id = serverid -> Tail(mailbox[id])
             [] id \in {w} -> Append(mailbox[id], m)
             [] OTHER -> mailbox[id]]
      /\ socket' = [socket EXCEPT ![fd] = NoConn]
      /\ clireader' = [clireader EXCEPT ![fd] = 0]
      /\ cliwriter' = [cliwriter EXCEPT ![fd] = 0]
  BY <1>1 DEF Exit, ExitTo, history
<1> HIDE DEF m
<1>3. ActorTypes /\ MailTypes /\ DataTypes
  BY DEF ChatInv
<1>4. /\ fd \in Fd /\ Head(Inbox) \in ServerMsg /\ Head(Inbox).type = "EXIT" /\ Head(Inbox).payload = fd
      /\ Inbox # <<>> /\ ~NoMsg(Inbox, "EXIT", fd)
  <2> DEFINE q == Inbox
  <2>1. q \in Seq(ServerMsg) /\ q # <<>> /\ Head(q).type = "EXIT" /\ Head(q).payload = fd
    BY <1>1, <1>2, <1>3 DEF MailTypes, Receives, Inbox
  <2> HIDE DEF q
  <2>2. 1 \in DOMAIN q /\ Head(q) = q[1] /\ Head(q) \in ServerMsg
    BY <2>1, Taken
  <2>3. fd \in Fd /\ ~NoMsg(q, "EXIT", fd)
    BY <2>1, <2>2 DEF NoMsg, IsMsg, ServerMsg
  <2> QED BY <2>1, <2>2, <2>3 DEF q
<1>5. w # 0 /\ w \in Id /\ w # serverid
  <2>1. cliwriter[fd] # 0
    BY <1>4 DEF ChatInv, Placed, Unused, Coming, Up, Leaving
  <2> QED BY <1>1, <1>4, <2>1, WriterIs
<1>6. /\ Inbox' = Tail(Inbox)
      /\ \A i \in Id : i # serverid /\ i # w => mailbox'[i] = mailbox[i]
      /\ socket'[fd] = NoConn /\ cliwriter'[fd] = 0
      /\ \A g \in Fd : g # fd => socket'[g] = socket[g] /\ clireader'[g] = clireader[g] /\ cliwriter'[g] = cliwriter[g]
  BY <1>2, <1>3, <1>4, <1>5, Ids DEF DataTypes, Inbox
<1>7. \A i \in DOMAIN Inbox' : i + 1 \in DOMAIN Inbox /\ Inbox'[i] = Inbox[i + 1]
  BY <1>2, <1>3, <1>6, InboxTakes
<1>8. ASSUME NEW i \in Id  PROVE WriterOf(i)'
  <2>1. actor[i].fn = "clientWriter" => actor[i].fd \in Fd /\ actor[i].conn # NoConn
    BY <1>3, Working, Ids DEF Workers
  <2> QED BY <1>2, <1>6, <2>1 DEF OrderInv, WriterOf
<1>9. \A d \in Conn : Unwritten(d)' /\ JoinedBefore(d)'
  BY <1>2, <1>6, Ids DEF OrderInv, Unwritten, JoinedBefore
<1>10. SendersLive'
  <2>1. \A msg \in ServerMsg : SenderLives(msg) => SenderLives(msg)'
    BY <1>2 DEF SenderLives
  <2>2. PICK msg : msg = Head(Inbox)
    OBVIOUS
  <2>3. SenderLives(msg)'
    BY <1>4, <2>2 DEF SenderLives
  <2> QED BY <1>7, <2>1, <2>3, SendersKeep DEF OrderInv
<1>11. ASSUME NEW g \in Fd  PROVE Impostors(g)' /\ GetsInOrder(g)'
  <2>1. CASE g = fd
    BY <1>6, <2>1 DEF Impostors, GetsInOrder
  <2>2. CASE g # fd
    <3>1. Impostors(g)'
      BY <1>2, <1>4, <1>6, <2>2, ImpostorsTaken DEF OrderInv
    <3>2. ASSUME NEW v, NEW c, IsRegistered(g, v, c)  PROVE mailbox'[v] = mailbox[v]
      <4>1. v \in Id /\ v # serverid /\ v # w
        BY <1>1, <1>4, <2>2, <3>2 DEF IsRegistered
      <4> QED BY <1>6, <4>1
    <3>3. GetsInOrder(g)'
      BY <1>2, <1>6, <2>2, <3>2, OrderKeeps DEF OrderInv
    <3> QED BY <3>1, <3>3
  <2> QED BY <2>1, <2>2
<1> QED BY <1>8, <1>9, <1>10, <1>11 DEF OrderInv

LEMMA OBroadcast ==
  ASSUME ChatInv, OrderInv, Broadcast
  PROVE  OrderInv'
<1>1. PICK msg, heard : msg = Head(Inbox) /\ heard = Listeners(msg.sender)
  OBVIOUS
<1>2. PICK p, m : p = msg.payload /\ m = WriteMsg(p)
  OBVIOUS
<1>3. /\ Receives("READ") /\ UNCHANGED <<actor, writing, clireader, cliwriter, socket, said, peer, out, joined>>
      /\ mailbox' = [id \in Id |->
           CASE id = serverid -> Tail(mailbox[id])
             [] id \in heard -> Append(mailbox[id], m)
             [] OTHER -> mailbox[id]]
      /\ log' = Append(log, p)
  BY <1>1, <1>2 DEF Broadcast, tables, Inbox
<1>4. MailTypes /\ DataTypes /\ LinesRead
  BY DEF ChatInv
<1>5. serverid \notin heard
  BY <1>1, WriterIs DEF Listeners
<1>6. /\ Inbox' = Tail(Inbox)
      /\ \A i \in Id : i # serverid /\ i \notin heard => mailbox'[i] = mailbox[i]
      /\ \A i \in Id : i # serverid /\ i \in heard => mailbox'[i] = Append(mailbox[i], m)
  <2>1. mailbox'[serverid] = Tail(mailbox[serverid])
    BY <1>3, <1>5, Ids
  <2>2. \A i \in Id : i # serverid /\ i \in heard => mailbox'[i] = Append(mailbox[i], m)
    BY <1>3
  <2>3. \A i \in Id : i # serverid /\ i \notin heard => mailbox'[i] = mailbox[i]
    BY <1>3
  <2> QED BY <2>1, <2>2, <2>3 DEF Inbox
<1>7. /\ Inbox # <<>> /\ 1 \in DOMAIN Inbox /\ msg = Inbox[1] /\ msg \in ServerMsg /\ msg.type = "READ"
      /\ \A i \in DOMAIN Inbox' : i + 1 \in DOMAIN Inbox /\ Inbox'[i] = Inbox[i + 1]
  BY <1>1, <1>3, <1>4, <1>6, InboxTakes DEF Receives, Inbox
<1>8. p \in Line /\ p.from \in Conn /\ p \in Text /\ m \in WriterMsg /\ m.type = "WRITE" /\ m.payload = p
  <2>1. p \in Line
    BY <1>2, <1>7 DEF ServerMsg
  <2> QED BY <1>2, <2>1, Ids DEF Line, Text, WriterMsg, WriteMsg
<1>9. log \in Seq(Line) /\ Len(log) \in Nat /\ Len(log') = Len(log) + 1
  <2>1. log \in Seq(Line)
    BY <1>4 DEF DataTypes
  <2> QED BY <1>3, <1>8, <2>1, LenProperties, AppendProperties
<1>10. \A i \in Id : WriterOf(i)'
  BY <1>3 DEF OrderInv, WriterOf
<1>11. ASSUME NEW d \in Conn  PROVE Unwritten(d)' /\ JoinedBefore(d)' /\ joined[d].at \in Nat /\ joined[d].at <= Len(log)
  <2>1. joined[d].at \in Nat /\ joined[d].at <= Len(log)
    BY <1>4 DEF DataTypes, OrderInv, JoinedBefore
  <2> QED BY <1>3, <1>9, <2>1 DEF OrderInv, Unwritten, JoinedBefore
<1>12. SendersLive'
  <2>1. \A x \in ServerMsg : SenderLives(x) => SenderLives(x)'
    BY <1>3 DEF SenderLives
  <2>2. SenderLives(msg)'
    BY <1>3, <1>7 DEF OrderInv, SendersLive, SenderLives
  <2> QED BY <1>7, <2>1, <2>2, SendersKeep DEF OrderInv
<1>13. ASSUME NEW g \in Fd  PROVE Impostors(g)' /\ GetsInOrder(g)'
  <2>1. Impostors(g)'
    BY <1>1, <1>3, <1>6, <1>7, ImpostorsTaken DEF OrderInv
  <2>2. CASE cliwriter[g] = 0
    BY <1>3, <2>1, <2>2 DEF GetsInOrder
  <2>3. CASE cliwriter[g] # 0
    <3>1. PICK w, c : IsRegistered(g, w, c)
      BY <2>3, Registered
    <3>2. PICK at, gone : at = joined[c].at /\ gone = joined[c].gone
      OBVIOUS
    <3>3. /\ w \in Id /\ w # serverid /\ w # 0 /\ cliwriter[g] = w /\ socket[g] = c /\ c \in Conn
          /\ \A f \in Fd : cliwriter[f] = w => f = g
      BY <3>1 DEF IsRegistered
    <3>4. at \in Nat /\ at <= Len(log)
      BY <1>11, <3>2, <3>3
    <3> DEFINE stream == Stream(c, w)
               later == Stream(c, w)'
               q == mailbox[w]
               o == out[c][c]
               x == writing[w]
               r == mailbox'[w]
               more == log'
    <3>5. Ordered(stream, log, at, gone, c)
      BY <3>2, <3>3 DEF OrderInv, GetsInOrder
    <3>6. /\ o \in Seq(Text) /\ x \in Seq(Text) /\ q \in Seq(WriterMsg)
          /\ \A i \in DOMAIN q : q[i].type = "WRITE"
      BY <3>1 DEF IsRegistered
    <3>7. stream = Flow(o, x, q) /\ later = Flow(o, x, r)
      BY <1>3 DEF Stream, Flow
    <3>8. GetsInOrder(g)' <=> (w # 0 => Ordered(later, more, at, gone, c))
      BY <1>3, <3>2, <3>3 DEF GetsInOrder
    <3>9. more = Append(log, p)
      BY <1>3
    <3> HIDE DEF stream, later, q, o, x, r, more
    <3>10. CASE clireader[g] # msg.sender
      <4>1. w \in heard
        BY <1>1, <3>3, <3>10 DEF Listeners
      <4>2. r = Append(q, m)
        BY <1>6, <3>3, <4>1 DEF q, r
      <4>3. p.from # c
        BY <1>2, <1>4, <1>7, <3>3, <3>10 DEF LinesRead, ReadFrom
      <4>4. stream \in Seq(Text) /\ later = Append(stream, p)
        <5>1. o \in Seq(Text)
          BY <3>6
        <5>2. x \in Seq(Text)
          BY <3>6
        <5>3. q \in Seq(WriterMsg)
          BY <3>6
        <5>4. \A i \in DOMAIN q : q[i].type = "WRITE"
          BY <3>6
        <5>5. m \in WriterMsg
          BY <1>8
        <5>6. m.type = "WRITE"
          BY <1>8
        <5>7. stream = Flow(o, x, q) /\ later = Flow(o, x, r)
          BY <3>7
        <5>8. GetsOne(stream, later, m.payload)
          BY ONLY <4>2, <5>1, <5>2, <5>3, <5>4, <5>5, <5>6, <5>7, FlowGets
        <5> QED BY <1>8, <5>8 DEF GetsOne
      <4>5. Ordered(later, more, at, gone, c)
        BY ONLY <1>8, <1>9, <3>4, <3>5, <3>9, <4>3, <4>4, OrderedGrows
      <4> QED BY <2>1, <3>8, <4>5
    <3>11. CASE clireader[g] = msg.sender
      <4>1. w \notin heard
        BY <1>1, <3>3, <3>11 DEF Listeners
      <4>2. later = stream
        <5>1. r = q
          BY <1>6, <3>3, <4>1 DEF q, r
        <5> QED BY <3>7, <5>1
      <4>3. p.from \in {c} \cup gone
        <5>1. Posing(Inbox, g, msg.sender, {c} \cup gone)
          BY <2>3, <3>2, <3>3, <3>11 DEF OrderInv, Impostors
        <5>2. \A j \in 1..(1 - 1) : ~IsMsg(Inbox, j, "EXIT", g)
          OBVIOUS
        <5> QED BY <1>2, <1>7, <5>1, <5>2 DEF Posing
      <4>4. Ordered(stream, more, at, gone, c)
        BY ONLY <1>8, <1>9, <3>4, <3>5, <3>9, <4>3, OrderedPasses
      <4> QED BY <2>1, <3>8, <4>2, <4>4
    <3> QED BY <3>10, <3>11
  <2> QED BY <2>2, <2>3
<1> QED BY <1>10, <1>11, <1>12, <1>13 DEF OrderInv

LEMMA OStep ==
  ASSUME ChatInv, OrderInv, [Next]_chatvars
  PROVE  OrderInv'
<1>1. CASE Next
  <2>1. CASE \E c \in Conn : clientAccpetor(c)
    BY <2>1, OAccept
  <2>2. CASE \E id \in Id : clientReader(id)
    BY <2>2, OReaderReads, OReaderEnds DEF clientReader
  <2>3. CASE \E id \in Id : clientWriter(id)
    BY <2>3, OClientWriter
  <2>4. CASE Server
    BY <2>4, OCreate, OExit, OBroadcast DEF Server
  <2> QED BY <1>1, <2>1, <2>2, <2>3, <2>4 DEF Next
<1>2. CASE UNCHANGED chatvars
  <2>1. UNCHANGED <<actor, mailbox, writing, clireader, cliwriter, socket, said, peer, out, log, joined>>
    BY <1>2 DEF chatvars, tables, history
  <2>2. \A id \in Id : WriterOf(id)'
    BY <2>1 DEF OrderInv, WriterOf
  <2>3. \A c \in Conn : Unwritten(c)' /\ JoinedBefore(c)'
    BY <2>1 DEF OrderInv, Unwritten, JoinedBefore
  <2>4. SendersLive'
    BY <2>1 DEF OrderInv, SendersLive, SenderLives, Inbox
  <2>5. \A fd \in Fd : Impostors(fd)' /\ GetsInOrder(fd)'
    BY <2>1 DEF OrderInv, Impostors, GetsInOrder, Stream, Inbox
  <2> QED BY <2>2, <2>3, <2>4, <2>5 DEF OrderInv
<1> QED BY <1>1, <1>2

\* A registered client gets the welcome, and then lines of the others: each
\* once, in the order in which main received them, and all of them since it
\* joined but those of clients that had gone by then, however many clients
\* come and go and whatever ids and descriptors they are given.
THEOREM BroadcastsInOrder == Spec => []BroadcastInOrder
<1>1. ChatInv /\ OrderInv /\ [Next]_chatvars => OrderInv'
  BY OStep
<1>2. Spec => []OrderInv
  BY <1>1, OInit, ChatInductive, PTL DEF Spec
<1>3. OrderInv => BroadcastInOrder
  <2> SUFFICES ASSUME OrderInv, NEW fd \in Fd, cliwriter[fd] # 0
               PROVE  LET c == socket[fd]
                          stream == Stream(c, cliwriter[fd])
                          since == (joined[c].at + 1)..Len(log)
                          due == {k \in since : log[k].from # c}
                      IN  /\ stream # <<>> /\ stream[1] = welcomeMsg
                          /\ \E line \in [2..Len(stream) -> due] :
                               /\ \A i \in 2..Len(stream) : stream[i] = log[line[i]]
                               /\ \A i, j \in 2..Len(stream) : i < j => line[i] < line[j]
                               /\ \A k \in due : log[k].from \notin joined[c].gone => k \in Range(line)
    BY DEF BroadcastInOrder
  <2>1. PICK c, stream : c = socket[fd] /\ stream = Stream(socket[fd], cliwriter[fd])
    OBVIOUS
  <2>2. Ordered(stream, log, joined[c].at, joined[c].gone, c)
    BY <2>1 DEF OrderInv, GetsInOrder
  <2> QED BY <2>1, <2>2 DEF Ordered, Due
<1> QED BY <1>2, <1>3, PTL
=============================================================================
