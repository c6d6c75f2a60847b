----------------------------- MODULE BusDaemon ------------------------------
(***************************************************************************)
(* The message bus daemon (services/bb-busd.c): one thread that accepts    *)
(* connections, reads lines from whichever client epoll reports, and sends *)
(* PONGs and publications with blocking sends.                             *)
(*                                                                         *)
(* Clients sit in an array that is kept dense by shifting.  The key that   *)
(* epoll hands back for a connection is the array index it had when it was *)
(* accepted; the daemon uses it as the index now, and compares it with the *)
(* descriptor of the listening socket first.  Nothing checks that the      *)
(* index is below num_clients.                                             *)
(*                                                                         *)
(* A line is PING, SUB, UNSUB or PUB, or LONG when it fills the 8191-byte   *)
(* buffer before its newline.  recv takes it whole or in two pieces, its   *)
(* beginning and its end, and the slot's buffer keeps the beginning.  When *)
(* slots shift, a buffer may be copied, and its text may end up in front   *)
(* of another line.                                                        *)
(***************************************************************************)
EXTENDS Integers, Sequences, FiniteSets, FiniteSetsExt, SequencesExt

CONSTANTS
  Peers,      \* connections made to the daemon, each by a client process
  Leavers,    \* those whose process may close the connection
  Lines,      \* lines a client may send
  Patterns,   \* topics of SUB and UNSUB
  Topics,     \* topics of PUB
  Matching,   \* topic_match: the pairs <<pattern, topic>> that match
  Fds,        \* descriptors free for connections
  Srv,        \* descriptor of the listening socket
  MaxClients, \* MAX_CLIENTS, 64 in the code
  MaxSubs,    \* MAX_SUBS, 256 in the code
  RecvCap,    \* messages that fit in a client's socket buffer
  MaxLines,   \* bound: lines sent by one client
  Nil         \* no peer, no descriptor, no key, no event

Ping     == [cmd |-> "PING"]
Long     == [cmd |-> "LONG"]
Sub(t)   == [cmd |-> "SUB", topic |-> t]
Unsub(t) == [cmd |-> "UNSUB", topic |-> t]
Pub(t)   == [cmd |-> "PUB", topic |-> t]
Pong     == "PONG"
Junk     == [cmd |-> "JUNK"]  \* text that is no command
Full     == [cmd |-> "FULL"]  \* a buffer without room and without a newline

ASSUME LinesAssumption ==
  /\ Leavers \subseteq Peers
  /\ Matching \subseteq Patterns \X Topics
  /\ Lines \subseteq {Ping, Long} \cup {Sub(t) : t \in Patterns}
                     \cup {Unsub(t) : t \in Patterns} \cup {Pub(t) : t \in Topics}
ASSUME SizesAssumption ==
  /\ Fds \subseteq Nat /\ IsFiniteSet(Fds) /\ Srv \in Nat
  /\ MaxClients \in Nat \ {0} /\ MaxSubs \in Nat /\ RecvCap \in Nat \ {0}

\* The indices of clients[], and what epoll reports: a key, the descriptor it
\* was registered for, and whether that one has hung up.
Slots == 0 .. MaxClients - 1
Event == [key : Slots \cup {Srv}, src : Fds \cup {Srv}, hup : BOOLEAN]

\* The beginning of a peer's line, and what the buffer of a slot may hold.
Part    == [of : Peers, line : Lines]
Buffers == Part \cup {Nil, Junk, Full}

ASSUME NilAssumption ==
  /\ Nil \notin Peers \cup Fds \cup Slots \cup Event \cup Lines \cup Part \cup {Junk, Full}
  /\ Junk \notin Part /\ Full \notin Part

VARIABLES
  \* the daemon
  slotFd, slotBuf,  \* clients[]: descriptor, and the text without newline in buf
  num,              \* num_clients
  known, subs,      \* topics of subs[], and the subscribers of each
  batch,            \* events of the last epoll_wait not handled yet
  cur,              \* event whose data is being handled, or Nil
  todo, sends,      \* its pieces not handled yet, and the sends of its current line
  wild,             \* memory outside clients[] has been written
  \* the kernel
  backlog,          \* connections not accepted yet
  peerOf,           \* per descriptor: the peer it is connected to, or Nil
  key,              \* per descriptor: what epoll reports for it
  inbox,            \* per peer: lines of which nothing has been handled
  rest,             \* per descriptor: the line of which only the end is left, or Nil
  unread,           \* per peer: messages it has not read
  \* the clients
  peer,             \* "new", "up" or "gone"
  sent, got,        \* per peer: the lines it sent, the messages it got
  \* history
  torn,             \* a partial line has been where it does not belong (Stray)
  mixed             \* peers that had a line handled they did not send

tableVars  == <<slotFd, slotBuf, num, wild>>
subVars    == <<known, subs>>
eventVars  == <<batch, cur, todo, sends>>
socketVars == <<backlog, peerOf, key, inbox, rest, unread>>
peerVars   == <<peer, sent, got>>
vars == <<tableVars, subVars, eventVars, socketVars, peerVars, torn, mixed>>

Open  == {fd \in Fds : peerOf[fd] # Nil}
Data(fd) == inbox[peerOf[fd]]
Gone(fd) == peer[peerOf[fd]] = "gone"

\* The pieces waiting on a connection: the end of the line begun, then two for
\* each line.
Ends(fd)   == IF rest[fd] = Nil THEN 0 ELSE 1
Pieces(fd) == Ends(fd) + 2 * Len(Data(fd))

\* A partial line in a slot that names an open connection, but not that
\* connection's, or not in that slot alone.
Stray ==
  \E i \in Slots :
    /\ slotFd[i] \in Open /\ slotBuf[i] # Nil
    /\ rest[slotFd[i]] = Nil \/ \E j \in Slots \ {i} : slotFd[j] = slotFd[i]

-----------------------------------------------------------------------------
Init ==
  /\ slotFd = [i \in Slots |-> Nil] /\ slotBuf = [i \in Slots |-> Nil]
  /\ num = 0 /\ wild = FALSE
  /\ known = {} /\ subs = [t \in Patterns |-> {}]
  /\ batch = {} /\ cur = Nil /\ todo = 0 /\ sends = {}
  /\ backlog = <<>>
  /\ peerOf = [fd \in Fds |-> Nil] /\ key = [fd \in Fds |-> Nil]
  /\ inbox = [p \in Peers |-> <<>>] /\ rest = [fd \in Fds |-> Nil]
  /\ unread = [p \in Peers |-> 0]
  /\ peer = [p \in Peers |-> "new"]
  /\ sent = [p \in Peers |-> {}] /\ got = [p \in Peers |-> {}]
  /\ torn = FALSE /\ mixed = {}

-----------------------------------------------------------------------------
(* The clients *)

Connect(p) ==
  /\ peer[p] = "new"
  /\ peer' = [peer EXCEPT ![p] = "up"]
  /\ backlog' = Append(backlog, p)
  /\ UNCHANGED <<tableVars, subVars, eventVars, peerOf, key, inbox, rest, unread, sent, got,
                 mixed>>

Connected(p) == p \in Range(backlog) \/ \E fd \in Fds : peerOf[fd] = p

SendLine(p) ==
  /\ peer[p] = "up"
  /\ Connected(p)
  /\ \E l \in Lines \ sent[p] :
       /\ Cardinality(sent[p]) < MaxLines
       /\ inbox' = [inbox EXCEPT ![p] = Append(@, l)]
       /\ sent' = [sent EXCEPT ![p] = @ \cup {l}]
  /\ UNCHANGED <<tableVars, subVars, eventVars, backlog, peerOf, key, rest, unread, peer, got,
                 mixed>>

Read(p) ==
  /\ peer[p] = "up"
  /\ unread[p] > 0
  /\ unread' = [unread EXCEPT ![p] = 0]
  /\ UNCHANGED <<tableVars, subVars, eventVars, backlog, peerOf, key, inbox, rest, peerVars,
                 mixed>>

Leave(p) ==
  /\ p \in Leavers
  /\ peer[p] = "up"
  /\ peer' = [peer EXCEPT ![p] = "gone"]
  /\ UNCHANGED <<tableVars, subVars, eventVars, socketVars, sent, got, mixed>>

-----------------------------------------------------------------------------
(* The daemon *)

\* What epoll reports: the listener, and each registered connection with data
\* or a hangup (which is also readable), under its key.
Ready ==
  {[key |-> Srv, src |-> Srv, hup |-> FALSE] : x \in {y \in {0} : backlog # <<>>}}
  \cup {[key |-> key[fd], src |-> fd, hup |-> Gone(fd)] :
          fd \in {fd \in Open : key[fd] # Nil /\ (Pieces(fd) > 0 \/ Gone(fd))}}

\* Between two events.  Nothing is known of the daemon once it has written
\* outside clients[].
BetweenEvents == cur = Nil /\ ~wild

EpollWait ==
  /\ batch = {} /\ BetweenEvents
  /\ Ready # {}
  /\ batch' = Ready
  /\ UNCHANGED <<tableVars, subVars, cur, todo, sends, socketVars, peerVars, mixed>>

HasRoom == num \in Slots

\* An event whose key equals the listener's descriptor is taken for a new
\* connection; accept blocks when there is none.  With a full table the new
\* descriptor is neither registered nor closed.
Accept ==
  /\ BetweenEvents
  /\ \E e \in batch : e.key = Srv /\ batch' = batch \ {e}
  /\ backlog # <<>>
  /\ Fds \ Open # {}
  /\ LET fd == Min(Fds \ Open)
     IN /\ peerOf' = [peerOf EXCEPT ![fd] = Head(backlog)]
        /\ \/ /\ HasRoom
              /\ key' = [key EXCEPT ![fd] = num]
              /\ slotFd' = [slotFd EXCEPT ![num] = fd]
              /\ slotBuf' = [slotBuf EXCEPT ![num] = Nil]
              /\ num' = num + 1
              /\ UNCHANGED wild
           \/ /\ ~HasRoom /\ num >= 0
              /\ key' = [key EXCEPT ![fd] = Nil]
              /\ UNCHANGED tableVars
           \/ /\ num < 0
              /\ wild' = TRUE
              /\ UNCHANGED <<key, slotFd, slotBuf, num>>
  /\ backlog' = Tail(backlog)
  /\ UNCHANGED <<subVars, cur, todo, sends, inbox, rest, unread, peerVars, mixed>>

\* Variant: a client that goes keeps its subscriptions.
SubsLeft(fd) == subs

SubsWithout(fd) == [t \in Patterns |-> IF t \in known THEN subs[t] \ {fd} ELSE subs[t]]

\* remove_client: the descriptor in the slot loses its subscriptions and is
\* closed, the slots above move down, num_clients goes down.  The last slot keeps
\* what it held, a copy of the one below.  (-1 stands for every negative value.)
RemoveClient(i) ==
  LET fd == slotFd[i]
      Shift(table) == [j \in Slots |->
                         IF i <= j /\ j < num - 1 THEN table[j + 1] ELSE table[j]]
  IN /\ subs' = SubsWithout(fd)
     /\ peerOf' = [peerOf EXCEPT ![fd] = Nil]
     /\ key' = [key EXCEPT ![fd] = Nil]
     /\ inbox' = IF fd \in Open THEN [inbox EXCEPT ![peerOf[fd]] = <<>>] ELSE inbox
     /\ rest' = [rest EXCEPT ![fd] = Nil]
     /\ slotFd' = Shift(slotFd)
     /\ slotBuf' = Shift(slotBuf)
     /\ num' = IF num = -1 THEN -1 ELSE num - 1
     /\ UNCHANGED <<known, wild, backlog, unread>>

\* What one recv may return: any number of the pieces there are, up to the
\* beginning of a line that fills buf.
Received(fd) ==
  {n \in 1 .. Pieces(fd) :
     \A k \in DOMAIN Data(fd) : Data(fd)[k] = Long => n < Ends(fd) + 2 * k}

\* recv on the descriptor of the slot the key names.  It fails on a closed
\* descriptor, returns 0 when buf is full or the peer has gone, and blocks (no
\* step) on an open descriptor without data.
Recv ==
  /\ BetweenEvents
  /\ \E e \in batch :
       LET fd == slotFd[e.key]
       IN /\ e.key # Srv
          /\ batch' = batch \ {e}
          /\ \/ /\ \/ fd \notin Open
                   \/ fd \in Open /\ slotBuf[e.key] = Full
                   \/ fd \in Open /\ Pieces(fd) = 0 /\ Gone(fd)
                /\ RemoveClient(e.key)
                /\ UNCHANGED <<cur, todo>>
             \/ /\ fd \in Open /\ slotBuf[e.key] # Full
                /\ todo' \in Received(fd)
                /\ cur' = e
                /\ UNCHANGED <<tableVars, subVars, socketVars>>
  /\ UNCHANGED <<sends, peerVars, mixed>>

\* Variant: what is left behind the last newline is not kept.
Dropped(buf, p, l) == {Nil}

\* The buffer of a slot once the beginning of a line stands behind what it held:
\* a mixture may fill it with the last piece received.
PartOf(p, l) == IF l = Long THEN Full ELSE [of |-> p, line |-> l]
Joined(buf, p, l) ==
  IF buf = Nil THEN {PartOf(p, l)}
  ELSE IF l = Long THEN {Full}
  ELSE {Junk} \cup {x \in {Full} : todo = 1}

\* The text before a newline: a line, or whatever the end of a line makes of what
\* stands before it when that is not its own beginning.
Lined(buf, p, l) == IF buf = PartOf(p, l) THEN {l} ELSE (Lines \ {Long}) \cup {Junk}

\* The next piece is the beginning of a line: it stays in the buffer.
KeepPart ==
  /\ cur # Nil /\ todo > 0 /\ sends = {}
  /\ LET fd == slotFd[cur.key]
         l == Head(Data(fd))
     IN /\ rest[fd] = Nil
        /\ rest' = [rest EXCEPT ![fd] = l]
        /\ inbox' = [inbox EXCEPT ![peerOf[fd]] = Tail(@)]
        /\ \E buf \in Joined(slotBuf[cur.key], peerOf[fd], l) :
             slotBuf' = [slotBuf EXCEPT ![cur.key] = buf]
  /\ todo' = todo - 1
  /\ UNCHANGED <<slotFd, num, wild, subVars, batch, cur, sends, backlog, peerOf, key, unread,
                 peerVars, mixed>>

\* The next piece is the end of a line: handle_line, for the descriptor in the
\* slot.
HandleLine ==
  /\ cur # Nil /\ todo > 0 /\ sends = {}
  /\ LET fd == slotFd[cur.key]
         p == peerOf[fd]
         buf == slotBuf[cur.key]
     IN /\ rest[fd] # Nil
        /\ rest' = [rest EXCEPT ![fd] = Nil]
        /\ slotBuf' = [slotBuf EXCEPT ![cur.key] = Nil]
        /\ mixed' = IF buf = PartOf(p, rest[fd]) THEN mixed ELSE mixed \cup {p}
        /\ \E l \in Lined(buf, p, rest[fd]) :
             \/ /\ l = Junk
                /\ UNCHANGED <<subVars, sends>>
             \/ /\ l = Ping
                /\ sends' = {[to |-> fd, via |-> Nil, msg |-> Pong]}
                /\ UNCHANGED subVars
             \/ /\ l.cmd = "SUB"
                /\ known' = IF Cardinality(known) < MaxSubs THEN known \cup {l.topic}
                            ELSE known
                /\ subs' = IF l.topic \in known' /\ Cardinality(subs[l.topic]) < MaxClients
                             THEN [subs EXCEPT ![l.topic] = @ \cup {fd}] ELSE subs
                /\ UNCHANGED sends
             \/ /\ l.cmd = "UNSUB"
                /\ subs' = [subs EXCEPT ![l.topic] = @ \ {fd}]
                /\ UNCHANGED <<known, sends>>
             \/ /\ l.cmd = "PUB"
                /\ sends' = UNION {{[to |-> c, via |-> t, msg |-> l.topic] : c \in subs[t] \ {fd}} :
                                    t \in {s \in known : <<s, l.topic>> \in Matching}}
                /\ UNCHANGED subVars
  /\ todo' = todo - 1
  /\ UNCHANGED <<slotFd, num, wild, batch, cur, backlog, peerOf, key, inbox, unread, peerVars>>

\* Variant: a send that does not wait (MSG_DONTWAIT).
LostWhenFull(p) == p # Nil => peer[p] = "gone" \/ unread[p] = RecvCap

Lost(p) == p # Nil => peer[p] = "gone"

\* One send.  It blocks (no step) while the receiver's buffer is full, and is
\* lost when the receiver has gone.
SendOne ==
  \E s \in sends :
    LET p == peerOf[s.to]
    IN /\ sends' = sends \ {s}
       /\ \/ /\ Lost(p)
             /\ UNCHANGED <<unread, got>>
          \/ /\ ~Lost(p)
             /\ unread[p] < RecvCap
             /\ unread' = [unread EXCEPT ![p] = @ + 1]
             /\ got' = [got EXCEPT ![p] = @ \cup {s.msg}]
       /\ UNCHANGED <<tableVars, subVars, batch, cur, todo, backlog, peerOf, key, inbox, rest,
                      peer, sent, mixed>>

\* After the lines, a hangup reported by the same event removes the client.
EndOfEvent ==
  /\ cur # Nil /\ todo = 0 /\ sends = {}
  /\ cur' = Nil
  /\ IF cur.hup THEN RemoveClient(cur.key)
     ELSE UNCHANGED <<tableVars, subVars, socketVars>>
  /\ UNCHANGED <<batch, todo, sends, peerVars, mixed>>

-----------------------------------------------------------------------------
Daemon ==
  /\ EpollWait \/ Accept \/ Recv \/ KeepPart \/ HandleLine \/ SendOne \/ EndOfEvent
  /\ torn' = (torn \/ Stray')

Client(p) == (Connect(p) \/ SendLine(p) \/ Read(p) \/ Leave(p)) /\ UNCHANGED torn

Next == Daemon \/ \E p \in Peers : Client(p)

Spec == Init /\ [][Next]_vars

\* The daemon runs whenever it is not blocked, and clients read what they are
\* sent (bb_bus_poll).  Connecting, sending and leaving are their own choice.
FairSpec == Spec /\ WF_vars(Daemon) /\ \A p \in Peers : WF_vars(Read(p) /\ UNCHANGED torn)

-----------------------------------------------------------------------------
(* Properties *)

TypeOK ==
  /\ slotFd \in [Slots -> Fds \cup {Nil}] /\ slotBuf \in [Slots -> Buffers]
  /\ num \in -1 .. MaxClients /\ wild \in BOOLEAN
  /\ known \subseteq Patterns /\ Cardinality(known) <= MaxSubs
  /\ subs \in [Patterns -> SUBSET Fds]
  /\ peerOf \in [Fds -> Peers \cup {Nil}]
  /\ key \in [Fds -> Slots \cup {Nil}]
  /\ rest \in [Fds -> Lines \cup {Nil}]
  /\ unread \in [Peers -> 0 .. RecvCap]
  /\ peer \in [Peers -> {"new", "up", "gone"}]

\* Lines of a peer have been run together with a partial line that is not its
\* own.  Only a buffer that does not belong where it is can do that (torn).
Garbled(p) == torn /\ p \in mixed

\* A subscriber is an open connection whose own client asked for the topic, or
\* had its lines garbled by a partial line in the wrong slot: a client that is
\* given the descriptor of one that left never inherits its subscriptions, and
\* wherever recv cuts the lines they are put together again, even after the
\* daemon has mistaken one client for another.
SubscribersAsked ==
  \A t \in Patterns : \A fd \in subs[t] :
    fd \in Open /\ (Sub(t) \in sent[peerOf[fd]] \/ Garbled(peerOf[fd]))

\* A publication reaches only clients that subscribed to a matching topic, or
\* had their lines garbled.
OnlyWhatWasAskedFor ==
  \A p \in Peers : \A t \in got[p] \ {Pong} :
    \/ \E s \in Patterns : <<s, t>> \in Matching /\ Sub(s) \in sent[p]
    \/ Garbled(p)

\* "PING -> PONG" (docs/system-architecture.md:114): a client that sends PING
\* and stays is answered.
PingAnswered ==
  \A p \in Peers : (Ping \in sent[p]) ~> (Pong \in got[p] \/ peer[p] = "gone")

\* A publication waiting at the daemon reaches every client subscribed by then,
\* unless it unsubscribes.
PublicationArrives ==
  \A p, q \in Peers : \A s \in Patterns, t \in Topics :
    ( /\ p # q /\ <<s, t>> \in Matching
      /\ \E fd \in subs[s] : peerOf[fd] = p
      /\ Pub(t) \in Range(inbox[q]) )
    ~> (t \in got[p] \/ peer[p] = "gone" \/ Unsub(s) \in sent[p])
=============================================================================
