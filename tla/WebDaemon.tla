----------------------------- MODULE WebDaemon ------------------------------
(***************************************************************************)
(* The web daemon (services/bb-webd.c): one thread that accepts HTTP       *)
(* connections, collects a request from each, answers it and closes.       *)
(*                                                                         *)
(* Connections sit in an array that is kept dense by shifting, with the    *)
(* bytes received so far.  As in the bus daemon, epoll reports a           *)
(* connection under the index it had when it was accepted, and that key is *)
(* compared with the listener's descriptor first; here an index that is    *)
(* not below num_clients is passed over.                                   *)
(*                                                                         *)
(* A request is cut into units: r.head units up to the end of its headers, *)
(* then r.body units.  TCP delivers any number of them at a time.          *)
(***************************************************************************)
EXTENDS Integers, Sequences, FiniteSets, SequencesExt, FiniteSetsExt

CONSTANTS
  Conns,      \* connections, each made once by a browser
  Leavers,    \* those the other side may close
  Breakers,   \* those it may reset
  Requests,   \* per connection: the requests it may carry, each [act, head, body, cl]
  Srv,        \* descriptor of the listening socket
  MaxClients, \* MAX_CLIENTS, 64 in the code
  Cap,        \* units a buffer holds, 16383 bytes in the code
  HeadMax,    \* units of headers tolerated, 8192 bytes in the code
  Nil         \* no connection, no key, no Content-Length

\* Three controls; "report" for any of the nine reports (whose text JsonReports is
\* about), "page" for what else only gets an answer: the dashboard, a file, an error.
Controls == {"led", "gpio", "reboot"}
Acts == Controls \cup {"report", "page"}

ASSUME RequestsAssumption ==
  /\ Leavers \cup Breakers \subseteq Conns
  /\ \A c \in Conns : \A r \in Requests[c] :
       /\ r \in [act : Acts, head : Nat \ {0}, body : Nat, cl : Nat \cup {Nil}]
       /\ r.body > 0 => r.act \in Controls
ASSUME CapsAssumption ==
  /\ Srv \in Nat /\ MaxClients \in Nat \ {0}
  /\ HeadMax \in Nat /\ Cap \in Nat \ {0} /\ HeadMax < Cap
ASSUME NilAssumption == Nil \notin Conns \cup Nat

VARIABLES
  \* the daemon
  slot,     \* clients[]: connection and bytes received, a sequence of units
  num,      \* num_clients
  batch,    \* events of the last epoll_wait not handled yet
  wild,     \* memory outside clients[] has been written
  handled,  \* per connection: the calls of handle_request that answered it
  moved,    \* history: a removal has moved another connection
  \* the kernel
  backlog,  \* connections not accepted yet
  open,     \* descriptors the daemon holds
  key,      \* per connection: what epoll reports for it
  arrived,  \* per connection: units the other side has sent
  taken,    \* per connection: units the daemon has received
  \* the browsers
  peer,     \* "new", "up", "closed" or "reset"
  req       \* per connection: its request

tableVars == <<slot, num, wild, moved>>
netVars   == <<backlog, open, key, taken>>
peerVars  == <<arrived, peer, req>>
vars == <<tableVars, batch, handled, netVars, peerVars>>

Slots == 0 .. MaxClients - 1
Total(r) == r.head + r.body
Data(c)  == [k \in 1 .. arrived[c] - taken[c] |-> <<c, taken[c] + k>>]
Over(c)  == peer[c] \in {"closed", "reset"}

-----------------------------------------------------------------------------
Init ==
  /\ slot = [i \in Slots |-> [conn |-> Nil, buf |-> <<>>]]
  /\ num = 0 /\ batch = {} /\ wild = FALSE /\ moved = FALSE
  /\ handled = [c \in Conns |-> <<>>]
  /\ backlog = <<>> /\ open = {} /\ key = [c \in Conns |-> Nil]
  /\ arrived = [c \in Conns |-> 0] /\ taken = [c \in Conns |-> 0]
  /\ peer = [c \in Conns |-> "new"] /\ req = [c \in Conns |-> Nil]

-----------------------------------------------------------------------------
(* The browsers *)

Connect(c) ==
  /\ ~wild
  /\ peer[c] = "new"
  /\ peer' = [peer EXCEPT ![c] = "up"]
  /\ \E r \in Requests[c] : req' = [req EXCEPT ![c] = r]
  /\ backlog' = Append(backlog, c)
  /\ UNCHANGED <<tableVars, batch, handled, open, key, taken, arrived>>

\* The browser's end is up, and the daemon has not closed the other one.  (What
\* a browser does after that is of no consequence.)
Connected(c) == ~wild /\ peer[c] = "up" /\ c \in open \cup Range(backlog)

Send(c) ==
  /\ Connected(c)
  /\ arrived[c] < Total(req[c])
  /\ arrived' = [arrived EXCEPT ![c] = @ + 1]
  /\ UNCHANGED <<tableVars, batch, handled, netVars, peer, req>>

\* An orderly close: what was sent can still be read, then recv returns 0.
Close(c) ==
  /\ c \in Leavers
  /\ Connected(c)
  /\ peer' = [peer EXCEPT ![c] = "closed"]
  /\ UNCHANGED <<tableVars, batch, handled, netVars, arrived, req>>

\* A reset: what has arrived can still be read, and epoll reports a hangup.
Reset(c) ==
  /\ c \in Breakers
  /\ Connected(c)
  /\ peer' = [peer EXCEPT ![c] = "reset"]
  /\ UNCHANGED <<tableVars, batch, handled, netVars, arrived, req>>

-----------------------------------------------------------------------------
(* What a request asks for *)

\* Where the headers in a buffer end, 0 if they do not.
HeadersEnd(buf) ==
  LET ends == {i \in DOMAIN buf : buf[i][2] = req[buf[i][1]].head}
  IN IF ends = {} THEN 0 ELSE Min(ends)

RequestIn(buf) == req[buf[HeadersEnd(buf)][1]]

\* Variant: one unit of the body may be missing.
BodyHereButOne(buf) ==
  LET r == RequestIn(buf)
  IN r.cl # Nil => Len(buf) - HeadersEnd(buf) + 1 >= r.cl

\* Variant: the body must be longer than declared.
BodyHereAndMore(buf) ==
  LET r == RequestIn(buf)
  IN r.cl # Nil => Len(buf) - HeadersEnd(buf) > r.cl

\* A request that declares its length waits for its whole body, another one is
\* taken for complete when its headers are.
BodyHere(buf) ==
  LET r == RequestIn(buf)
  IN r.cl # Nil => Len(buf) - HeadersEnd(buf) >= r.cl

\* What handle_post_route sees of the body: no more than the declared length.
Body(buf) ==
  LET body == SubSeq(buf, HeadersEnd(buf) + 1, Len(buf))
      cl == RequestIn(buf).cl
  IN IF cl # Nil /\ cl < Len(body) THEN SubSeq(body, 1, cl) ELSE body

\* How many units of its body each control needs: the LED's name comes first (and
\* is enough for an "ok"), a GPIO line is not touched without its value, a reboot
\* has no parameters.
LedNeeds    == 1
GpioNeeds   == 2
RebootNeeds == 0

Needs == [led |-> LedNeeds, gpio |-> GpioNeeds, reboot |-> RebootNeeds]

\* handle_request: a control is carried out on what its body says, if that is
\* enough; everything else only answers.
Outcome(buf) ==
  LET act == RequestIn(buf).act
  IN [act |-> act, body |-> Body(buf),
      did |-> act \in Controls /\ Len(Body(buf)) >= Needs[act]]

-----------------------------------------------------------------------------
(* The daemon *)

Ready ==
  {[key |-> Srv, src |-> Srv, hup |-> FALSE] : x \in {y \in {0} : backlog # <<>>}}
  \cup {[key |-> key[c], src |-> c, hup |-> peer[c] = "reset"] :
          c \in {c \in open : arrived[c] > taken[c] \/ Over(c)}}

EpollWait ==
  /\ batch = {} /\ ~wild
  /\ Ready # {}
  /\ batch' = Ready
  /\ UNCHANGED <<tableVars, handled, netVars, peerVars>>

\* Variant: a connection that is turned away is not closed.
TurnAwayOpen(c) == open' = open \cup {c}

TurnAway(c) == UNCHANGED open

\* Variant: the slot keeps what its last connection sent.
FreshKeepsBuf(c) == [conn |-> c, buf |-> slot[num].buf]

Fresh(c) == [conn |-> c, buf |-> <<>>]

\* An event whose key is the listener's descriptor; accept blocks when there is
\* no connection.  With a full table the connection is closed at once.
Accept ==
  /\ ~wild
  /\ \E e \in batch : e.key = Srv /\ batch' = batch \ {e}
  /\ backlog # <<>>
  /\ LET c == Head(backlog)
     IN \/ /\ num \in Slots
           /\ key' = [key EXCEPT ![c] = num]
           /\ slot' = [slot EXCEPT ![num] = Fresh(c)]
           /\ num' = num + 1
           /\ open' = open \cup {c}
           /\ UNCHANGED wild
        \/ /\ num = MaxClients
           /\ TurnAway(c)
           /\ UNCHANGED <<key, slot, num, wild>>
        \/ /\ num < 0
           /\ wild' = TRUE
           /\ UNCHANGED <<key, slot, num, open>>
  /\ backlog' = Tail(backlog)
  /\ UNCHANGED <<handled, moved, taken, peerVars>>

\* remove_client on a table [slot, num, open]: the descriptor in the slot is
\* closed, the slots above move down.
Removed(t, i) ==
  [slot |-> [j \in Slots |-> IF i <= j /\ j < t.num - 1 THEN t.slot[j + 1] ELSE t.slot[j]],
   num  |-> t.num - 1,
   open |-> t.open \ {t.slot[i].conn}]

\* What is left of the table after removing slot i, and after a hangup reported
\* by the same event has removed "it" once more.
RemoveClient(t, i, hup) ==
  \E once \in {Removed(t, i)} :
    \E left \in {IF hup THEN Removed(once, i) ELSE once} :
      /\ slot' = left.slot /\ num' = left.num /\ open' = left.open
      /\ moved' = (moved \/ i < t.num - 1 \/ (hup /\ i < once.num - 1))

\* An index the table no longer has: the event is passed over.
PassOver ==
  /\ ~wild
  /\ \E e \in batch : e.key # Srv /\ e.key >= num /\ batch' = batch \ {e}
  /\ UNCHANGED <<tableVars, handled, netVars, peerVars>>

\* The event of a slot whose buffer is full or whose connection is over: the
\* connection is removed, and a hangup is not looked at.
Drop ==
  /\ ~wild
  /\ \E e \in batch :
       /\ e.key # Srv /\ e.key < num
       /\ batch' = batch \ {e}
       /\ LET c == slot[e.key].conn
          IN Len(slot[e.key].buf) = Cap \/ c \notin open \/ (arrived[c] = taken[c] /\ Over(c))
       /\ RemoveClient([slot |-> slot, num |-> num, open |-> open], e.key, FALSE)
  /\ UNCHANGED <<wild, handled, backlog, key, taken, peerVars>>

\* What happens once the buffer of the slot is buf: a request that lacks a part
\* of its body waits for it, without a look at the hangup; a complete one is
\* handled and its connection removed; headers without an end are given up.
Received(e, c, buf) ==
  LET t == [slot |-> [slot EXCEPT ![e.key].buf = buf], num |-> num, open |-> open]
      headed == HeadersEnd(buf) > 0
  IN \/ /\ headed /\ BodyHere(buf)
        /\ handled' = [handled EXCEPT ![c] = Append(@, Outcome(buf))]
        /\ RemoveClient(t, e.key, e.hup)
     \/ /\ ~headed /\ (Len(buf) > HeadMax \/ e.hup)
        /\ RemoveClient(t, e.key, Len(buf) > HeadMax /\ e.hup)
        /\ UNCHANGED handled
     \/ /\ IF headed THEN ~BodyHere(buf) ELSE Len(buf) <= HeadMax /\ ~e.hup
        /\ slot' = t.slot
        /\ UNCHANGED <<num, open, moved, handled>>

\* recv of what fits, on the slot the key names.  It blocks (no step) on an open
\* connection without data.
Recv ==
  /\ ~wild
  /\ \E e \in batch :
       /\ e.key # Srv /\ e.key < num
       /\ batch' = batch \ {e}
       /\ LET c == slot[e.key].conn
              n == Min({Cap - Len(slot[e.key].buf), arrived[c] - taken[c]})
          IN /\ c \in open /\ n > 0
             /\ taken' = [taken EXCEPT ![c] = @ + n]
             /\ \E buf \in {slot[e.key].buf \o SubSeq(Data(c), 1, n)} : Received(e, c, buf)
  /\ UNCHANGED <<wild, backlog, key, peerVars>>

-----------------------------------------------------------------------------
Daemon == EpollWait \/ Accept \/ PassOver \/ Drop \/ Recv

Next == Daemon \/ \E c \in Conns : Connect(c) \/ Send(c) \/ Close(c) \/ Reset(c)

Spec == Init /\ [][Next]_vars

-----------------------------------------------------------------------------
(* Properties *)

\* A request is handled at most once, for the connection that sent it, and with
\* its own bytes: all it declared to send, whatever slot the connection has been
\* shifted to and whatever the slot held before.
HandledAsSent ==
  \A c \in Conns :
    /\ Len(handled[c]) <= 1
    /\ \A h \in Range(handled[c]) :
         /\ h.act = req[c].act
         /\ \A j \in DOMAIN h.body : h.body[j] = <<c, req[c].head + j>>
         /\ req[c].cl # Nil => Len(h.body) = req[c].cl
         /\ req[c].cl # Nil /\ req[c].act \in Controls =>
              (h.did <=> req[c].cl >= Needs[req[c].act])

\* As long as no connection is reset, the table lists the open descriptors, each
\* once: none is leaked when a connection is dropped, moved or turned away.
Accounted ==
  (\A c \in Conns : peer[c] # "reset") =>
    /\ open = {slot[i].conn : i \in 0 .. num - 1}
    /\ Cardinality(open) = num

\* What the daemon gets through without losing anyone: no removal moves another
\* connection, no connection is reset, and no index equals the listener's
\* descriptor.
Calm ==
  /\ ~moved
  /\ \A c \in Conns : peer[c] # "reset" /\ key[c] # Srv

Acceptable(r) ==
  /\ r.head <= HeadMax /\ Total(r) <= Cap
  /\ r.cl # Nil => r.cl <= r.body

\* As long as it stays calm, an event names the connection it is about, so that
\* recv never blocks and nobody is dropped for another; a connection is given up
\* unanswered only when it is over or its request will not do; and when the daemon
\* has nothing left to do, no request that has been sent in full is waiting.
NoneLost ==
  Calm =>
    /\ \A e \in batch : e.key # Srv => e.key < num /\ slot[e.key].conn = e.src
    /\ \A c \in open : slot[key[c]].conn = c
    /\ \A c \in Conns \ open :
         key[c] # Nil => handled[c] # <<>> \/ Over(c) \/ ~Acceptable(req[c])
    /\ batch \cup Ready = {} =>
         \A c \in open : arrived[c] = Total(req[c]) => ~Acceptable(req[c])
=============================================================================
