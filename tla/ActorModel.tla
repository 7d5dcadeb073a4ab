----------------------------- MODULE ActorModel -----------------------------
(***************************************************************************)
(* What sherry.h promises to the actors, with no scheduler in sight: live  *)
(* actors have distinct ids, a message goes to the actor that has the id   *)
(* now, each inbox is a FIFO queue from which only its owner takes, and an *)
(* actor that waits for a message gets one as soon as there is one.        *)
(***************************************************************************)
EXTENDS Integers, Sequences

CONSTANTS Actor, MsgType

VARIABLES
  up,       \* the process runs actors
  live,     \* the actors that exist
  id,       \* the id of each live actor
  inbox,    \* the messages sent to a live actor and not received yet
  waiting   \* the live actors inside a receive that has blocked

amvars == <<up, live, id, inbox, waiting>>

Letter(a, b, t) == [sender |-> id[a], recver |-> id[b], type |-> t]

AMInit ==
  /\ up = FALSE
  /\ live = {}
  /\ waiting = {}
  /\ id = <<>>
  /\ inbox = <<>>

\* The first actor has the id SHERRY_MAIN_ID.
Start(m) ==
  /\ ~up /\ live = {}
  /\ up' = TRUE
  /\ live' = {m}
  /\ waiting' = {}
  /\ id' = [a \in {m} |-> 0]
  /\ inbox' = [a \in {m} |-> <<>>]

\* A new actor has an id no live actor has.
Spawn(a, b) ==
  /\ up /\ a \in live \ waiting /\ b \notin live
  /\ live' = live \cup {b}
  /\ id' \in [live' -> Nat]
  /\ \A c \in live : id'[c] = id[c] /\ id'[b] # id[c]
  /\ inbox' = [c \in live' |-> IF c = b THEN <<>> ELSE inbox[c]]
  /\ UNCHANGED <<up, waiting>>

Send(a, b, t) ==
  /\ up /\ a \in live \ waiting /\ b \in live
  /\ inbox' = [inbox EXCEPT ![b] = Append(@, Letter(a, b, t))]
  /\ UNCHANGED <<up, live, id, waiting>>

Wait(a) ==
  /\ up /\ a \in live \ waiting /\ inbox[a] = <<>>
  /\ waiting' = waiting \cup {a}
  /\ UNCHANGED <<up, live, id, inbox>>

\* A receive returns the oldest message; it never returns empty-handed.
Receive(a) ==
  /\ up /\ a \in live /\ inbox[a] # <<>>
  /\ inbox' = [inbox EXCEPT ![a] = Tail(@)]
  /\ waiting' = waiting \ {a}
  /\ UNCHANGED <<up, live, id>>

\* An actor goes away with its inbox; it is not waiting then.
Leave(a) ==
  /\ up /\ a \in live \ waiting
  /\ live' = live \ {a}
  /\ id' = [c \in live' |-> id[c]]
  /\ inbox' = [c \in live' |-> inbox[c]]
  /\ up' = (live' # {})
  /\ UNCHANGED waiting

Crash ==
  /\ up
  /\ up' = FALSE
  /\ UNCHANGED <<live, id, inbox, waiting>>

AMNext ==
  \/ \E m \in Actor : Start(m)
  \/ \E a \in Actor : Wait(a) \/ Receive(a) \/ Leave(a)
  \/ \E a, b \in Actor : Spawn(a, b)
  \/ \E a, b \in Actor, t \in MsgType : Send(a, b, t)
  \/ Crash

AMSpec == AMInit /\ [][AMNext]_amvars

\* A waiting actor with a message in its inbox receives it.
AMFairness == \A a \in Actor : WF_amvars(a \in waiting /\ Receive(a))

AMFairSpec == AMSpec /\ AMFairness
=============================================================================
