-------------------------- MODULE BusDaemonProofs ---------------------------
(***************************************************************************)
(* Proofs about BusDaemon for every number of clients, topics, descriptors *)
(* and table sizes: who is subscribed asked to be, and who is sent a       *)
(* publication asked for it, whichever client the daemon takes for which   *)
(* and wherever recv cuts a line, unless a partial line is left in a slot  *)
(* it does not belong to.                                                  *)
(***************************************************************************)
EXTENDS BusDaemon, FiniteSetTheorems, SequenceTheorems, WellFoundedInduction, TLAPS

Send == [to : Fds \cup {Nil}, via : Patterns \cup {Nil}, msg : Topics \cup {Pong}]

TableTypes ==
  /\ slotFd \in [Slots -> Fds \cup {Nil}]
  /\ slotBuf \in [Slots -> Buffers]
  /\ num \in -1 .. MaxClients
  /\ wild \in BOOLEAN
SubTypes ==
  /\ known \subseteq Patterns
  /\ subs \in [Patterns -> SUBSET Fds]
EventTypes ==
  /\ batch \subseteq Event
  /\ cur \in Event \cup {Nil}
  /\ todo \in Nat
  /\ sends \subseteq Send
SocketTypes ==
  /\ backlog \in Seq(Peers)
  /\ peerOf \in [Fds -> Peers \cup {Nil}]
  /\ key \in [Fds -> Slots \cup {Nil}]
  /\ inbox \in [Peers -> Seq(Lines)]
  /\ rest \in [Fds -> Lines \cup {Nil}]
  /\ unread \in [Peers -> 0 .. RecvCap]
PeerTypes ==
  /\ peer \in [Peers -> {"new", "up", "gone"}]
  /\ sent \in [Peers -> SUBSET Lines]
  /\ got \in [Peers -> SUBSET (Topics \cup {Pong})]
HistoryTypes == torn \in BOOLEAN /\ mixed \subseteq Peers
Types == TableTypes /\ SubTypes /\ EventTypes /\ SocketTypes /\ PeerTypes /\ HistoryTypes

\* subs[] holds the subscribers of the topics it knows, and no more of those
\* than fit.
KnownInv ==
  /\ IsFiniteSet(known) /\ Cardinality(known) <= MaxSubs
  /\ \A t \in Patterns \ known : subs[t] = {}

\* What is on its way to the daemon was sent by the client it comes from.
InboxInv ==
  \A p \in Peers : \A i \in DOMAIN inbox[p] : inbox[p][i] \in sent[p]

\* Only an open connection has a line of which the end is left, one its client
\* sent.
RestInv ==
  \A fd \in Fds : rest[fd] # Nil => fd \in Open /\ rest[fd] \in sent[peerOf[fd]]

\* The pieces being handled wait on the connection in the slot of the event,
\* which stays open until they are through.
CurInv ==
  IF cur = Nil THEN todo = 0 /\ sends = {}
  ELSE /\ cur.key \in Slots /\ slotFd[cur.key] \in Open
       /\ todo <= Pieces(slotFd[cur.key])

\* Until a partial line is where it does not belong, each slot of a connection
\* with a line begun holds its beginning, and no other line has been handled.
BufInv ==
  torn \/ /\ ~Stray /\ mixed = {}
          /\ \A i \in Slots : slotFd[i] \in Open /\ rest[slotFd[i]] # Nil =>
               slotBuf[i] = PartOf(peerOf[slotFd[i]], rest[slotFd[i]])

\* A publication goes to subscribers of a pattern it matches.
SendsInv ==
  \A s \in sends :
    \/ s.msg = Pong
    \/ s.via \in Patterns /\ <<s.via, s.msg>> \in Matching /\ s.to \in subs[s.via]

IInv == /\ Types /\ KnownInv /\ InboxInv /\ RestInv /\ CurInv /\ BufInv /\ SendsInv
        /\ SubscribersAsked /\ OnlyWhatWasAskedFor


-----------------------------------------------------------------------------
\* A set of natural numbers that is not empty has a least one.
LEMMA Least ==
  ASSUME NEW S, S \subseteq Nat, S # {}
  PROVE  \E x \in S : \A y \in S : x <= y
<1> DEFINE R == OpToRel(<, Nat)
<1>1. IsWellFoundedOn(R, Nat)
  BY NatLessThanWellFounded
<1>2. \A x, y \in Nat : x < y => <<x, y>> \in R
  BY DEF OpToRel
<1> HIDE DEF R
<1>3. PICK x \in S : \A y \in S : ~ (<<y, x>> \in R)
  BY <1>1, WFMin
<1>4. ASSUME NEW y \in S PROVE x <= y
  <2>1. ~ (y < x)
    BY <1>2, <1>3
  <2> QED BY <2>1
<1> QED BY <1>4

\* accept returns a descriptor that is not open.
LEMMA LowestFd == Fds \ Open # {} => Min(Fds \ Open) \in Fds \ Open
<1> SUFFICES ASSUME Fds \ Open # {} PROVE Min(Fds \ Open) \in Fds \ Open
  OBVIOUS
<1>1. \E x \in Fds \ Open : \A y \in Fds \ Open : x <= y
  BY Least, SizesAssumption
<1> QED BY <1>1 DEF Min

\* The beginning of a line is not nothing.
LEMMA PartIsText ==
  ASSUME NEW p \in Peers, NEW l \in Lines
  PROVE  PartOf(p, l) \in Buffers /\ PartOf(p, l) # Nil
BY NilAssumption DEF PartOf, Part, Buffers

\* What waits on an open connection.
LEMMA PiecesType ==
  ASSUME Types, NEW fd \in Open
  PROVE  /\ fd \in Fds /\ peerOf[fd] \in Peers /\ Data(fd) \in Seq(Lines)
         /\ Pieces(fd) \in Nat
         /\ Pieces(fd) > 0 /\ rest[fd] = Nil =>
              /\ Data(fd) # <<>> /\ Head(Data(fd)) \in Lines
              /\ Tail(Data(fd)) \in Seq(Lines) /\ Len(Tail(Data(fd))) = Len(Data(fd)) - 1
<1>1. fd \in Fds /\ peerOf[fd] \in Peers
  BY DEF Open, Types, SocketTypes
<1>2. Data(fd) \in Seq(Lines) /\ Len(Data(fd)) \in Nat
  BY <1>1 DEF Data, Types, SocketTypes
<1>3. Ends(fd) \in Nat /\ (rest[fd] = Nil => Ends(fd) = 0)
  BY DEF Ends
<1>4. Pieces(fd) \in Nat
  BY <1>2, <1>3 DEF Pieces
<1>5. ASSUME Pieces(fd) > 0, rest[fd] = Nil PROVE Data(fd) # <<>>
  BY <1>3, <1>5 DEF Pieces
<1> QED BY <1>1, <1>2, <1>4, <1>5

LEMMA NilIsNew ==
  Nil \notin Peers /\ Nil \notin Fds /\ Nil \notin Slots /\ Nil \notin Event
BY NilAssumption

\* The event goes on, on what waits on the same connection.
LEMMA SameEvent ==
  ASSUME cur # Nil, cur.key \in Slots, slotFd[cur.key] \in Open,
         UNCHANGED <<slotFd, cur, peerOf>>, (todo <= Pieces(slotFd[cur.key]))'
  PROVE  CurInv'
<1>1. cur' # Nil /\ cur'.key \in Slots
  OBVIOUS
<1>2. (slotFd[cur.key] \in Open)'
  BY DEF Open
<1> QED BY <1>1, <1>2 DEF CurInv

LEMMA SamePieces ==
  ASSUME CurInv, UNCHANGED <<slotFd, cur, todo, sends, peerOf, inbox, rest>>
  PROVE  CurInv'
BY DEF CurInv, Open, Pieces, Ends, Data

LEMMA InitInv == Init => IInv
<1> SUFFICES ASSUME Init PROVE IInv
  OBVIOUS
<1>1. <<>> \in Seq(Peers) /\ <<>> \in Seq(Lines)
  BY EmptySeq
<1>2. num = 0 /\ 0 \in -1 .. MaxClients
  BY SizesAssumption DEF Init
<1>3. Types
  <2>1. TableTypes /\ SubTypes /\ PeerTypes /\ HistoryTypes
    BY <1>2 DEF Init, TableTypes, SubTypes, PeerTypes, HistoryTypes, Buffers
  <2>2. EventTypes
    BY <1>1 DEF Init, EventTypes
  <2>3. SocketTypes
    BY <1>1, SizesAssumption DEF Init, SocketTypes
  <2> QED BY <2>1, <2>2, <2>3 DEF Types
<1>4. KnownInv
  BY FS_EmptySet, SizesAssumption DEF Init, KnownInv
<1>5. BufInv
  BY DEF Init, BufInv, Stray, Open
<1> QED BY <1>3, <1>4, <1>5 DEF Init, IInv, InboxInv, RestInv, CurInv, SendsInv,
             SubscribersAsked, OnlyWhatWasAskedFor

\* A step that touches neither the table nor what is left of the lines.
LEMMA BufKept ==
  ASSUME BufInv, UNCHANGED <<tableVars, peerOf, rest, mixed>>, torn' = (torn \/ Stray')
  PROVE  BufInv'
BY DEF tableVars, BufInv, Stray, Open

-----------------------------------------------------------------------------
(* Connecting, sending a line, reading and leaving *)

LEMMA ConnectStep == IInv /\ (\E p \in Peers : Connect(p) /\ UNCHANGED torn) => IInv'
<1> SUFFICES ASSUME IInv, NEW p \in Peers, Connect(p), UNCHANGED torn PROVE IInv'
  OBVIOUS
<1> USE DEF tableVars, subVars, eventVars
<1>1. Types'
  BY DEF Connect, IInv, Types, TableTypes, SubTypes, EventTypes, SocketTypes, PeerTypes,
         HistoryTypes
<1>2. BufInv'
  BY DEF Connect, IInv, BufInv, Stray, Open
<1> QED BY <1>1, <1>2 DEF Connect, IInv, KnownInv, InboxInv, RestInv, CurInv, SendsInv, Open,
             Pieces, Ends, Data, SubscribersAsked, OnlyWhatWasAskedFor, Garbled

LEMMA SendLineStep == IInv /\ (\E p \in Peers : SendLine(p) /\ UNCHANGED torn) => IInv'
<1> SUFFICES ASSUME IInv, NEW p \in Peers, SendLine(p), UNCHANGED torn PROVE IInv'
  OBVIOUS
<1> USE DEF tableVars, subVars, eventVars
<1>1. PICK l \in Lines : /\ inbox' = [inbox EXCEPT ![p] = Append(@, l)]
                         /\ sent' = [sent EXCEPT ![p] = @ \cup {l}]
  BY DEF SendLine
<1>2. /\ UNCHANGED <<tableVars, subVars, eventVars, backlog, peerOf, key, rest, unread, peer, got>>
      /\ UNCHANGED <<torn, mixed>>
  BY DEF SendLine
<1>3. /\ inbox \in [Peers -> Seq(Lines)] /\ sent \in [Peers -> SUBSET Lines]
      /\ peerOf \in [Fds -> Peers \cup {Nil}]
  BY DEF IInv, Types, SocketTypes, PeerTypes
<1>4. \A q \in Peers : sent[q] \subseteq sent'[q]
  BY <1>1, <1>3
<1>5. Types'
  <2>1. TableTypes' /\ SubTypes' /\ EventTypes'
    BY <1>2 DEF IInv, Types, TableTypes, SubTypes, EventTypes
  <2>2. SocketTypes' /\ PeerTypes'
    BY <1>1, <1>2 DEF IInv, Types, SocketTypes, PeerTypes
  <2>3. HistoryTypes'
    BY <1>2 DEF IInv, Types, HistoryTypes
  <2> QED BY <2>1, <2>2, <2>3 DEF Types
<1>6. InboxInv'
  <2> SUFFICES ASSUME NEW q \in Peers, NEW i \in DOMAIN inbox'[q]
               PROVE  inbox'[q][i] \in sent'[q]
    BY DEF InboxInv
  <2>1. CASE q = p
    BY <1>1, <1>3, <2>1 DEF IInv, InboxInv
  <2>2. CASE q # p
    BY <1>1, <1>3, <2>2 DEF IInv, InboxInv
  <2> QED BY <2>1, <2>2
<1>7. CurInv'
  <2>1. CASE cur = Nil
    BY <1>2, <2>1 DEF IInv, CurInv
  <2>2. CASE cur # Nil
    <3> DEFINE fd == slotFd[cur.key]
    <3>1. fd \in Open /\ cur.key \in Slots /\ todo <= Pieces(fd)
      BY <2>2 DEF IInv, CurInv
    <3>2. Data(fd) \in Seq(Lines) /\ peerOf[fd] \in Peers /\ fd \in Fds
      BY <3>1, PiecesType DEF IInv
    <3>3. Len(inbox'[peerOf[fd]]) >= Len(inbox[peerOf[fd]])
      BY <1>1, <1>3, <3>2 DEF Data
    <3>4. todo \in Nat
      BY DEF IInv, Types, EventTypes
    <3>5. (fd \in Open)' /\ fd' = fd
      BY <1>2, <3>1 DEF Open
    <3> HIDE DEF fd
    <3>6. (Ends(fd))' = Ends(fd) /\ Ends(fd) \in Nat
      BY <1>2, <3>5 DEF Ends
    <3>7. /\ (Pieces(fd))' = (Ends(fd))' + 2 * Len(inbox'[peerOf[fd]])
          /\ Pieces(fd) = Ends(fd) + 2 * Len(inbox[peerOf[fd]])
          /\ Len(inbox'[peerOf[fd]]) \in Nat /\ Len(inbox[peerOf[fd]]) \in Nat
      BY <1>1, <1>2, <1>3, <3>2, <3>5 DEF Pieces, Data
    <3>8. todo <= (Pieces(fd))'
      BY <3>1, <3>3, <3>4, <3>6, <3>7
    <3>9. (todo <= Pieces(slotFd[cur.key]))'
      BY <1>2, <3>8 DEF fd
    <3> QED BY <1>2, <2>2, <3>1, <3>9, SameEvent DEF fd
  <2> QED BY <2>1, <2>2
<1>10. RestInv'
  <2> SUFFICES ASSUME NEW fd \in Fds, rest[fd] # Nil
               PROVE  (fd \in Open)' /\ rest[fd] \in sent'[peerOf[fd]]
    BY <1>2 DEF RestInv
  <2>1. fd \in Open /\ rest[fd] \in sent[peerOf[fd]] /\ peerOf[fd] \in Peers
    BY <1>3 DEF IInv, RestInv, Open
  <2> QED BY <1>2, <1>4, <2>1 DEF Open
<1>11. BufInv'
  BY <1>2 DEF IInv, BufInv, Stray, Open
<1>8. SubscribersAsked'
  <2> SUFFICES ASSUME NEW t \in Patterns, NEW fd \in subs[t]
               PROVE  (fd \in Open)' /\ (Sub(t) \in sent'[peerOf'[fd]] \/ Garbled(peerOf[fd]))
    BY <1>2 DEF SubscribersAsked, Garbled
  <2>1. fd \in Open /\ (Sub(t) \in sent[peerOf[fd]] \/ Garbled(peerOf[fd]))
    BY DEF IInv, SubscribersAsked
  <2>2. peerOf[fd] \in Peers
    BY <1>3, <2>1 DEF Open
  <2> QED BY <1>2, <1>4, <2>1, <2>2 DEF Open
<1>9. OnlyWhatWasAskedFor'
  <2> SUFFICES ASSUME NEW q \in Peers, NEW t \in got[q] \ {Pong}
               PROVE  (\E s \in Patterns : <<s, t>> \in Matching /\ Sub(s) \in sent'[q])
                        \/ Garbled(q)
    BY <1>2 DEF OnlyWhatWasAskedFor, Garbled
  <2> QED BY <1>4 DEF IInv, OnlyWhatWasAskedFor
<1> QED BY <1>2, <1>5, <1>6, <1>7, <1>8, <1>9, <1>10, <1>11 DEF IInv, KnownInv, SendsInv

LEMMA ReadLeaveStep == IInv /\ (\E p \in Peers : (Read(p) \/ Leave(p)) /\ UNCHANGED torn) => IInv'
<1> SUFFICES ASSUME IInv, NEW p \in Peers, Read(p) \/ Leave(p), UNCHANGED torn PROVE IInv'
  OBVIOUS
<1> USE DEF tableVars, subVars, eventVars, socketVars, peerVars
<1>1. /\ UNCHANGED <<tableVars, subVars, eventVars, backlog, peerOf, key, inbox, rest, sent, got>>
      /\ UNCHANGED <<torn, mixed>>
  BY DEF Read, Leave
<1>2. unread' \in [Peers -> 0 .. RecvCap]
  <2>1. unread' = [unread EXCEPT ![p] = 0] \/ unread' = unread
    BY DEF Read, Leave
  <2>2. unread \in [Peers -> 0 .. RecvCap] /\ 0 \in 0 .. RecvCap
    BY SizesAssumption DEF IInv, Types, SocketTypes
  <2> QED BY <2>1, <2>2
<1>3. peer' \in [Peers -> {"new", "up", "gone"}]
  BY DEF Read, Leave, IInv, Types, PeerTypes
<1>4. Types'
  BY <1>1, <1>2, <1>3
  DEF IInv, Types, TableTypes, SubTypes, EventTypes, SocketTypes, PeerTypes, HistoryTypes
<1>5. BufInv'
  BY <1>1 DEF IInv, BufInv, Stray, Open
<1>6. SubscribersAsked' /\ OnlyWhatWasAskedFor'
  BY <1>1 DEF IInv, SubscribersAsked, OnlyWhatWasAskedFor, Garbled, Open
<1>7. CurInv'
  BY <1>1, SamePieces DEF IInv
<1> QED BY <1>1, <1>4, <1>5, <1>6, <1>7 DEF IInv, KnownInv, InboxInv, RestInv, SendsInv, Open

-----------------------------------------------------------------------------
(* The daemon *)

Tears == torn' = (torn \/ Stray')

\* torn stays a Boolean, and once true stays true.
LEMMA TornKept == Types /\ Tears => torn' \in BOOLEAN /\ (torn => torn')
BY DEF Types, HistoryTypes, Tears

LEMMA GarbledKept ==
  ASSUME Types, Tears, mixed \subseteq mixed', NEW p, Garbled(p)
  PROVE  torn' /\ p \in mixed'
BY TornKept DEF Garbled

LEMMA SubscribersKept ==
  ASSUME Types, Tears, mixed \subseteq mixed', SubscribersAsked, UNCHANGED <<subs, peerOf, sent>>
  PROVE  SubscribersAsked'
BY GarbledKept DEF SubscribersAsked, Garbled, Open

LEMMA GotKept ==
  ASSUME Types, Tears, mixed \subseteq mixed', OnlyWhatWasAskedFor, UNCHANGED <<got, sent>>
  PROVE  OnlyWhatWasAskedFor'
BY GarbledKept DEF OnlyWhatWasAskedFor, Garbled

LEMMA EpollWaitStep == IInv /\ Tears /\ EpollWait => IInv'
<1> SUFFICES ASSUME IInv, Tears, EpollWait PROVE IInv'
  OBVIOUS
<1> USE DEF tableVars, subVars, socketVars, peerVars
<1>1. Ready \subseteq Event
  <2>1. key \in [Fds -> Slots \cup {Nil}]
    BY DEF IInv, Types, SocketTypes
  <2> SUFFICES ASSUME NEW e \in Ready PROVE e \in Event
    OBVIOUS
  <2>2. CASE e = [key |-> Srv, src |-> Srv, hup |-> FALSE]
    BY <2>2 DEF Event
  <2>3. CASE \E fd \in Open : key[fd] # Nil /\ e = [key |-> key[fd], src |-> fd, hup |-> Gone(fd)]
    <3>1. PICK fd \in Open : key[fd] # Nil /\ e = [key |-> key[fd], src |-> fd, hup |-> Gone(fd)]
      BY <2>3
    <3>2. fd \in Fds /\ key[fd] \in Slots /\ Gone(fd) \in BOOLEAN
      BY <2>1, <3>1 DEF Open, Gone
    <3> QED BY <3>1, <3>2 DEF Event
  <2> QED BY <2>2, <2>3 DEF Ready
<1>2. /\ UNCHANGED <<tableVars, subVars, cur, todo, sends, socketVars, peerVars, mixed>>
      /\ batch' = Ready
  BY DEF EpollWait
<1>3. Types'
  BY <1>1, <1>2, TornKept
  DEF IInv, Types, TableTypes, SubTypes, EventTypes, SocketTypes, PeerTypes, HistoryTypes
<1>4. BufInv'
  BY <1>2, BufKept DEF IInv, Tears
<1>5. SubscribersAsked' /\ OnlyWhatWasAskedFor'
  BY <1>2, SubscribersKept, GotKept DEF IInv, socketVars
<1> QED BY <1>2, <1>3, <1>4, <1>5 DEF IInv, KnownInv, InboxInv, RestInv, CurInv, SendsInv, Open,
             Pieces, Ends, Data

LEMMA AcceptStep == IInv /\ Tears /\ Accept => IInv'
<1> SUFFICES ASSUME IInv, Tears, Accept PROVE IInv'
  OBVIOUS
<1> USE DEF tableVars, subVars, peerVars
<1> DEFINE fd == Min(Fds \ Open)
<1>1. /\ fd \in Fds \ Open
      /\ backlog \in Seq(Peers) /\ backlog # <<>>
      /\ peerOf \in [Fds -> Peers \cup {Nil}]
      /\ key \in [Fds -> Slots \cup {Nil}]
  BY LowestFd DEF Accept, IInv, Types, SocketTypes
<1>2. /\ peerOf' = [peerOf EXCEPT ![fd] = Head(backlog)]
      /\ backlog' = Tail(backlog)
      /\ batch' \subseteq batch
      /\ cur = Nil /\ cur' = Nil
      /\ UNCHANGED <<subVars, todo, sends, inbox, rest, unread, peerVars, mixed>>
  BY DEF Accept, BetweenEvents
<1>3. TableTypes' /\ key' \in [Fds -> Slots \cup {Nil}]
  <2>1. TableTypes
    BY DEF IInv, Types
  <2>2. CASE /\ HasRoom
             /\ key' = [key EXCEPT ![fd] = num]
             /\ slotFd' = [slotFd EXCEPT ![num] = fd]
             /\ slotBuf' = [slotBuf EXCEPT ![num] = Nil]
             /\ num' = num + 1
             /\ UNCHANGED wild
    <3>1. num + 1 \in -1 .. MaxClients
      BY <2>2, SizesAssumption DEF HasRoom, Slots
    <3> QED BY <1>1, <2>1, <2>2, <3>1 DEF TableTypes, HasRoom, Buffers
  <2>3. CASE key' = [key EXCEPT ![fd] = Nil] /\ UNCHANGED tableVars
    BY <1>1, <2>1, <2>3 DEF TableTypes
  <2>4. CASE wild' = TRUE /\ UNCHANGED <<key, slotFd, slotBuf, num>>
    BY <1>1, <2>1, <2>4 DEF TableTypes
  <2> QED BY <2>2, <2>3, <2>4 DEF Accept
<1> HIDE DEF fd
<1>4. Head(backlog) \in Peers /\ Tail(backlog) \in Seq(Peers)
  BY <1>1
<1>5. Types'
  <2>1. SubTypes' /\ EventTypes' /\ PeerTypes'
    BY <1>2 DEF IInv, Types, SubTypes, EventTypes, PeerTypes
  <2>2. SocketTypes'
    BY <1>1, <1>2, <1>3, <1>4 DEF IInv, Types, SocketTypes
  <2>3. HistoryTypes'
    BY <1>2, TornKept DEF IInv, Types, HistoryTypes
  <2> QED BY <1>3, <2>1, <2>2, <2>3 DEF Types
<1>6. SubscribersAsked' /\ OnlyWhatWasAskedFor'
  <2>1. ASSUME NEW t \in Patterns, NEW c \in subs[t]
        PROVE  /\ (c \in Open)'
               /\ Sub(t) \in sent[peerOf'[c]] \/ (torn' /\ peerOf'[c] \in mixed')
    <3>1. c \in Open /\ (Sub(t) \in sent[peerOf[c]] \/ Garbled(peerOf[c]))
      BY DEF IInv, SubscribersAsked
    <3>2. c # fd
      BY <1>1, <3>1
    <3>3. Garbled(peerOf[c]) => torn' /\ peerOf[c] \in mixed'
      BY <1>2, GarbledKept DEF IInv
    <3>4. peerOf'[c] = peerOf[c] /\ (c \in Open)'
      BY <1>1, <1>2, <3>1, <3>2 DEF Open
    <3> QED BY <3>1, <3>3, <3>4
  <2>2. SubscribersAsked'
    BY <1>2, <2>1 DEF SubscribersAsked, Garbled
  <2>3. OnlyWhatWasAskedFor'
    BY <1>2, GotKept DEF IInv
  <2> QED BY <2>2, <2>3
<1>7. \A c \in Open : c # fd /\ peerOf'[c] = peerOf[c] /\ (c \in Open)'
  BY <1>1, <1>2 DEF Open
<1>8. RestInv'
  BY <1>2, <1>7 DEF IInv, RestInv
<1>9. rest[fd] = Nil
  BY <1>1 DEF IInv, RestInv
<1>10. BufInv'
  <2> SUFFICES ASSUME ~torn'
               PROVE  /\ ~Stray' /\ mixed' = {}
                      /\ \A i \in Slots : slotFd'[i] \in Open' /\ rest'[slotFd'[i]] # Nil =>
                           slotBuf'[i] = PartOf(peerOf'[slotFd'[i]], rest'[slotFd'[i]])
    BY DEF BufInv
  <2>1. ~torn /\ ~Stray' /\ mixed = {}
    BY DEF Tears, IInv, BufInv
  <2>2. ASSUME NEW i \in Slots, slotFd'[i] \in Open', rest'[slotFd'[i]] # Nil
        PROVE  slotBuf'[i] = PartOf(peerOf'[slotFd'[i]], rest'[slotFd'[i]])
    <3>1. slotFd'[i] # fd
      BY <1>2, <1>9, <2>2
    <3>2. slotFd'[i] = slotFd[i] /\ slotBuf'[i] = slotBuf[i]
      <4>1. TableTypes
        BY DEF IInv, Types
      <4>2. \/ UNCHANGED <<slotFd, slotBuf>>
            \/ /\ num \in Slots
               /\ slotFd' = [slotFd EXCEPT ![num] = fd]
               /\ slotBuf' = [slotBuf EXCEPT ![num] = Nil]
        BY DEF Accept, HasRoom, fd
      <4> QED BY <3>1, <4>1, <4>2 DEF TableTypes
    <3>3. slotFd[i] \in Open
      BY <1>1, <1>2, <2>2, <3>1, <3>2 DEF Open
    <3> QED BY <1>2, <1>7, <2>1, <2>2, <3>2, <3>3 DEF IInv, BufInv
  <2> QED BY <1>2, <2>1, <2>2
<1> QED BY <1>2, <1>5, <1>6, <1>8, <1>10 DEF IInv, KnownInv, InboxInv, CurInv, SendsInv

\* Removing the client in any slot.
LEMMA RemoveStep ==
  ASSUME IInv, Tears, NEW i \in Slots, RemoveClient(i), batch' \subseteq batch,
         todo = 0, sends = {}, cur' = Nil, UNCHANGED <<todo, sends, peerVars, mixed>>
  PROVE  IInv'
<1> USE DEF peerVars
<1> DEFINE fd == slotFd[i]
<1>1. /\ fd \in Fds \cup {Nil} /\ Nil \notin Fds
      /\ num \in -1 .. MaxClients /\ i \in Int
      /\ slotFd \in [Slots -> Fds \cup {Nil}] /\ slotBuf \in [Slots -> Buffers]
  BY NilIsNew DEF IInv, Types, TableTypes, Slots
<1>2. /\ peerOf \in [Fds -> Peers \cup {Nil}] /\ key \in [Fds -> Slots \cup {Nil}]
      /\ inbox \in [Peers -> Seq(Lines)] /\ rest \in [Fds -> Lines \cup {Nil}]
  BY DEF IInv, Types, SocketTypes
<1>3. /\ subs' = [t \in Patterns |-> IF t \in known THEN subs[t] \ {fd} ELSE subs[t]]
      /\ peerOf' = [peerOf EXCEPT ![fd] = Nil]
      /\ key' = [key EXCEPT ![fd] = Nil]
      /\ inbox' = IF fd \in Open THEN [inbox EXCEPT ![peerOf[fd]] = <<>>] ELSE inbox
      /\ rest' = [rest EXCEPT ![fd] = Nil]
      /\ num' = IF num = -1 THEN -1 ELSE num - 1
      /\ UNCHANGED <<known, wild, backlog, unread>>
  BY DEF RemoveClient, SubsWithout
<1>4. TableTypes'
  <2>1. num' \in -1 .. MaxClients
    BY <1>1, <1>3, SizesAssumption
  <2>2. \A j \in Slots : i <= j /\ j < num - 1 => j + 1 \in Slots
    BY <1>1, SizesAssumption DEF Slots
  <2>3. slotFd' \in [Slots -> Fds \cup {Nil}] /\ slotBuf' \in [Slots -> Buffers]
    BY <1>1, <2>2 DEF RemoveClient
  <2> QED BY <1>3, <2>1, <2>3 DEF IInv, Types, TableTypes
<1>5. inbox' \in [Peers -> Seq(Lines)] /\ InboxInv'
  <2>1. CASE fd \in Open
    <3>1. peerOf[fd] \in Peers /\ inbox' = [inbox EXCEPT ![peerOf[fd]] = <<>>]
      BY <1>2, <1>3, <2>1 DEF Open
    <3> QED BY <1>2, <3>1 DEF IInv, InboxInv
  <2>2. CASE fd \notin Open
    BY <1>2, <1>3, <2>2 DEF IInv, InboxInv
  <2> QED BY <2>1, <2>2
<1> HIDE DEF fd
<1>6. Types'
  <2>1. SubTypes'
    BY <1>3 DEF IInv, Types, SubTypes
  <2>2. EventTypes' /\ PeerTypes'
    BY DEF IInv, Types, EventTypes, PeerTypes
  <2>3. SocketTypes'
    BY <1>1, <1>2, <1>3, <1>5 DEF IInv, Types, SocketTypes
  <2>4. HistoryTypes'
    BY TornKept DEF IInv, Types, HistoryTypes
  <2> QED BY <1>4, <2>1, <2>2, <2>3, <2>4 DEF Types
<1>7. KnownInv'
  BY <1>3 DEF IInv, KnownInv
<1>8. \A c \in Open : c # fd => peerOf'[c] = peerOf[c] /\ rest'[c] = rest[c] /\ (c \in Open)'
  BY <1>2, <1>3 DEF Open
<1>9. \A c \in Open' : c \in Open /\ c # fd
  BY <1>2, <1>3 DEF Open
<1>10. SubscribersAsked'
  <2> SUFFICES ASSUME NEW t \in Patterns, NEW c \in subs'[t]
               PROVE  /\ (c \in Open)'
                      /\ Sub(t) \in sent[peerOf'[c]] \/ (torn' /\ peerOf'[c] \in mixed')
    BY DEF SubscribersAsked, Garbled
  <2>1. c \in subs[t] /\ c # fd
    BY <1>3 DEF IInv, KnownInv
  <2>2. c \in Open /\ (Sub(t) \in sent[peerOf[c]] \/ Garbled(peerOf[c]))
    BY <2>1 DEF IInv, SubscribersAsked
  <2>3. Garbled(peerOf[c]) => torn' /\ peerOf[c] \in mixed'
    BY GarbledKept DEF IInv
  <2>4. peerOf'[c] = peerOf[c] /\ (c \in Open)'
    BY <1>8, <2>1, <2>2
  <2> QED BY <2>2, <2>3, <2>4
<1>11. OnlyWhatWasAskedFor'
  BY GotKept DEF IInv
<1>12. RestInv'
  <2> SUFFICES ASSUME NEW c \in Fds, rest'[c] # Nil
               PROVE  (c \in Open)' /\ rest'[c] \in sent[peerOf'[c]]
    BY DEF RestInv
  <2>1. c # fd /\ rest'[c] = rest[c]
    BY <1>2, <1>3
  <2>2. c \in Open /\ rest[c] \in sent[peerOf[c]]
    BY <2>1 DEF IInv, RestInv
  <2> QED BY <1>8, <2>1, <2>2
<1>13. BufInv'
  <2> SUFFICES ASSUME ~torn'
               PROVE  /\ ~Stray' /\ mixed' = {}
                      /\ \A j \in Slots : slotFd'[j] \in Open' /\ rest'[slotFd'[j]] # Nil =>
                           slotBuf'[j] = PartOf(peerOf'[slotFd'[j]], rest'[slotFd'[j]])
    BY DEF BufInv
  <2>1. ~torn /\ ~Stray' /\ mixed = {}
    BY DEF Tears, IInv, BufInv
  <2>2. ASSUME NEW j \in Slots, slotFd'[j] \in Open', rest'[slotFd'[j]] # Nil
        PROVE  slotBuf'[j] = PartOf(peerOf'[slotFd'[j]], rest'[slotFd'[j]])
    <3>1. PICK k \in Slots : slotFd'[j] = slotFd[k] /\ slotBuf'[j] = slotBuf[k]
      <4>1. i <= j /\ j < num - 1 => j + 1 \in Slots
        BY <1>1, SizesAssumption DEF Slots
      <4>2. /\ slotFd'[j] = IF i <= j /\ j < num - 1 THEN slotFd[j + 1] ELSE slotFd[j]
            /\ slotBuf'[j] = IF i <= j /\ j < num - 1 THEN slotBuf[j + 1] ELSE slotBuf[j]
        BY DEF RemoveClient
      <4> QED BY <4>1, <4>2
    <3>2. slotFd[k] \in Open /\ slotFd[k] # fd
      BY <1>9, <2>2, <3>1
    <3> QED BY <1>8, <2>1, <2>2, <3>1, <3>2 DEF IInv, BufInv
  <2> QED BY <2>1, <2>2
<1> QED BY <1>5, <1>6, <1>7, <1>10, <1>11, <1>12, <1>13 DEF IInv, CurInv, SendsInv

LEMMA RecvStep == IInv /\ Tears /\ Recv => IInv'
<1> SUFFICES ASSUME IInv, Tears, Recv PROVE IInv'
  OBVIOUS
<1> USE DEF tableVars, subVars, peerVars
<1>1. cur = Nil /\ todo = 0 /\ sends = {} /\ UNCHANGED <<sends, peerVars, mixed>>
  BY DEF Recv, BetweenEvents, IInv, CurInv
<1> DEFINE Drops(e) == RemoveClient(e.key) /\ UNCHANGED <<cur, todo>>
           Takes(e) == /\ slotFd[e.key] \in Open /\ todo' \in Received(slotFd[e.key])
                       /\ cur' = e /\ UNCHANGED <<tableVars, subVars, socketVars>>
<1>2. PICK e \in batch : e.key # Srv /\ batch' = batch \ {e} /\ (Drops(e) \/ Takes(e))
  BY DEF Recv
<1>3. e \in Event /\ e.key \in Slots /\ e # Nil
  BY <1>2, NilIsNew DEF IInv, Types, EventTypes, Event
<1>4. CASE Drops(e)
  <2>1. RemoveClient(e.key) /\ UNCHANGED <<todo, sends, peerVars, mixed>> /\ cur' = Nil
    BY <1>1, <1>4
  <2> QED BY <1>1, <1>2, <1>3, <2>1, RemoveStep
<1>5. CASE Takes(e)
  <2> USE DEF socketVars
  <2> DEFINE fd == slotFd[e.key]
  <2>1. fd \in Open /\ Pieces(fd) \in Nat
    BY <1>5, PiecesType DEF IInv
  <2>2. todo' \in Nat /\ todo' <= Pieces(fd)
    BY <1>5, <2>1 DEF Received
  <2>3. Types'
    <3>1. TableTypes' /\ SubTypes' /\ PeerTypes' /\ SocketTypes'
      BY <1>1, <1>5 DEF IInv, Types, TableTypes, SubTypes, PeerTypes, SocketTypes
    <3>2. EventTypes'
      BY <1>1, <1>2, <1>3, <1>5, <2>2 DEF IInv, Types, EventTypes
    <3>3. HistoryTypes'
      BY <1>1, TornKept DEF IInv, Types, HistoryTypes
    <3> QED BY <3>1, <3>2, <3>3 DEF Types
  <2>4. CurInv'
    <3>1. slotFd'[e.key] = fd /\ fd \in Open'
      BY <1>5, <2>1 DEF Open
    <3>2. rest' = rest /\ inbox' = inbox /\ peerOf' = peerOf /\ cur' = e
      BY <1>5
    <3>3. (todo <= Pieces(slotFd[cur.key]))'
      BY <2>2, <3>1, <3>2 DEF Pieces, Ends, Data
    <3> QED BY <1>3, <3>1, <3>2, <3>3 DEF CurInv
  <2>5. BufInv'
    BY <1>1, <1>5, BufKept DEF IInv, Tears
  <2>6. SubscribersAsked' /\ OnlyWhatWasAskedFor'
    BY <1>1, <1>5, SubscribersKept, GotKept DEF IInv
  <2> QED BY <1>1, <1>5, <2>3, <2>4, <2>5, <2>6
          DEF IInv, KnownInv, InboxInv, RestInv, SendsInv, Open
<1> QED BY <1>2, <1>4, <1>5

LEMMA KeepPartStep == IInv /\ Tears /\ KeepPart => IInv'
<1> SUFFICES ASSUME IInv, Tears, KeepPart PROVE IInv'
  OBVIOUS
<1> USE DEF subVars, peerVars
<1> DEFINE k  == cur.key
           fd == slotFd[k]
           p  == peerOf[fd]
           l  == Head(inbox[p])
<1>1. /\ cur # Nil /\ todo > 0 /\ sends = {} /\ todo' = todo - 1
      /\ rest[fd] = Nil
      /\ rest' = [rest EXCEPT ![fd] = l]
      /\ inbox' = [inbox EXCEPT ![p] = Tail(@)]
      /\ UNCHANGED <<slotFd, num, wild, subVars, batch, cur, sends, backlog, peerOf, key, unread,
                     peerVars, mixed>>
  BY DEF KeepPart, Data
<1>2. PICK buf \in Joined(slotBuf[k], p, l) : slotBuf' = [slotBuf EXCEPT ![k] = buf]
  BY DEF KeepPart, Data
<1>3. /\ slotFd \in [Slots -> Fds \cup {Nil}] /\ slotBuf \in [Slots -> Buffers]
      /\ peerOf \in [Fds -> Peers \cup {Nil}]
      /\ inbox \in [Peers -> Seq(Lines)] /\ rest \in [Fds -> Lines \cup {Nil}]
      /\ todo \in Nat
  BY DEF IInv, Types, TableTypes, SocketTypes, EventTypes
<1>4. k \in Slots /\ fd \in Open /\ todo <= Pieces(fd)
  BY <1>1 DEF IInv, CurInv
<1> HIDE DEF k, fd
<1>5. /\ fd \in Fds /\ p \in Peers /\ inbox[p] \in Seq(Lines) /\ Pieces(fd) \in Nat
      /\ inbox[p] # <<>> /\ l \in Lines
      /\ Tail(inbox[p]) \in Seq(Lines) /\ Len(Tail(inbox[p])) = Len(inbox[p]) - 1
  <2>1. Pieces(fd) > 0
    <3>1. Pieces(fd) \in Nat
      BY <1>4, PiecesType DEF IInv
    <3> QED BY <1>1, <1>3, <1>4, <3>1
  <2> QED BY <1>1, <1>4, <2>1, PiecesType DEF IInv, Data
<1> HIDE DEF p
<1>6. buf \in Buffers
  <2>1. PartOf(p, l) \in Buffers /\ Junk \in Buffers /\ Full \in Buffers
    BY <1>5, PartIsText DEF Buffers
  <2> QED BY <1>2, <2>1 DEF Joined
<1>7. l \in sent[p]
  <2>1. 1 \in DOMAIN inbox[p] /\ l = inbox[p][1]
    BY <1>5
  <2> QED BY <1>5, <2>1 DEF IInv, InboxInv
<1>8. \A i \in DOMAIN Tail(inbox[p]) : Tail(inbox[p])[i] \in sent[p]
  <2> SUFFICES ASSUME NEW i \in DOMAIN Tail(inbox[p]) PROVE Tail(inbox[p])[i] \in sent[p]
    OBVIOUS
  <2>1. i + 1 \in DOMAIN inbox[p] /\ Tail(inbox[p])[i] = inbox[p][i + 1]
    BY <1>5
  <2> QED BY <1>5, <2>1 DEF IInv, InboxInv
<1> HIDE DEF l
<1>9. Types'
  <2>1. TableTypes'
    BY <1>1, <1>2, <1>3, <1>4, <1>6 DEF IInv, Types, TableTypes
  <2>2. SubTypes' /\ PeerTypes'
    BY <1>1 DEF IInv, Types, SubTypes, PeerTypes
  <2>3. EventTypes'
    BY <1>1, <1>3 DEF IInv, Types, EventTypes
  <2>4. SocketTypes'
    BY <1>1, <1>3, <1>5 DEF IInv, Types, SocketTypes
  <2>5. HistoryTypes'
    BY <1>1, TornKept DEF IInv, Types, HistoryTypes
  <2> QED BY <2>1, <2>2, <2>3, <2>4, <2>5 DEF Types
<1>10. InboxInv'
  <2> SUFFICES ASSUME NEW q \in Peers, NEW i \in DOMAIN inbox'[q]
               PROVE  inbox'[q][i] \in sent[q]
    BY <1>1 DEF InboxInv
  <2>1. CASE q = p
    BY <1>1, <1>3, <1>8, <2>1
  <2>2. CASE q # p
    BY <1>1, <1>3, <2>2 DEF IInv, InboxInv
  <2> QED BY <2>1, <2>2
<1>11. RestInv'
  <2> SUFFICES ASSUME NEW c \in Fds, rest'[c] # Nil
               PROVE  c \in Open /\ rest'[c] \in sent[peerOf[c]]
    BY <1>1 DEF RestInv, Open
  <2>1. CASE c = fd
    BY <1>1, <1>3, <1>4, <1>5, <1>7, <2>1 DEF p
  <2>2. CASE c # fd
    BY <1>1, <1>3, <2>2 DEF IInv, RestInv
  <2> QED BY <2>1, <2>2
<1>12. l # Nil
  BY <1>5, NilAssumption
<1>13. CurInv'
  <2>1. Pieces(fd) = 2 * Len(inbox[p])
    BY <1>1, <1>5 DEF Pieces, Ends, Data, p
  <2>2. (Ends(fd))' = 1
    BY <1>1, <1>3, <1>5, <1>12 DEF Ends, fd, k
  <2>3. (Pieces(fd))' = 1 + 2 * Len(Tail(inbox[p]))
    <3>1. (Data(fd))' = Tail(inbox[p])
      BY <1>1, <1>3, <1>5 DEF Data, p, fd, k
    <3> QED BY <2>2, <3>1 DEF Pieces
  <2>4. todo' <= (Pieces(fd))'
    BY <1>1, <1>3, <1>4, <1>5, <2>1, <2>3
  <2>5. cur' = cur /\ cur'.key = k /\ slotFd'[k] = fd /\ (fd \in Open)' /\ (fd)' = fd
    BY <1>1, <1>4 DEF Open, k, fd
  <2> QED BY <1>1, <1>4, <2>4, <2>5 DEF CurInv
<1>14. BufInv'
  <2> SUFFICES ASSUME ~torn'
               PROVE  /\ ~Stray' /\ mixed' = {}
                      /\ \A i \in Slots : slotFd[i] \in Open /\ rest'[slotFd[i]] # Nil =>
                           slotBuf'[i] = PartOf(peerOf[slotFd[i]], rest'[slotFd[i]])
    BY <1>1 DEF BufInv, Open
  <2>1. ~torn /\ ~Stray /\ ~Stray' /\ mixed = {}
    BY DEF Tears, IInv, BufInv
  <2>2. slotBuf[k] = Nil
    BY <1>1, <1>4, <2>1 DEF Stray, fd
  <2>3. slotBuf'[k] = PartOf(p, l) /\ slotBuf'[k] # Nil
    BY <1>2, <1>3, <1>4, <1>5, <2>2, PartIsText DEF Joined
  <2>4. rest'[fd] = l
    BY <1>1, <1>3, <1>5
  <2>5. ASSUME NEW i \in Slots, slotFd[i] \in Open, rest'[slotFd[i]] # Nil
        PROVE  slotBuf'[i] = PartOf(peerOf[slotFd[i]], rest'[slotFd[i]])
    <3>1. CASE i = k
      BY <2>3, <2>4, <3>1 DEF fd, p
    <3>2. CASE i # k /\ slotFd[i] = fd
      <4>1. slotFd'[k] \in Open' /\ slotFd'[i] = slotFd'[k]
        BY <1>1, <1>4, <3>2 DEF fd, Open
      <4>2. Stray'
        BY <1>4, <2>3, <3>2, <4>1 DEF Stray
      <4> QED BY <2>1, <4>2
    <3>3. CASE i # k /\ slotFd[i] # fd
      <4>1. rest'[slotFd[i]] = rest[slotFd[i]] /\ slotBuf'[i] = slotBuf[i]
        BY <1>1, <1>2, <1>3, <2>5, <3>3
      <4> QED BY <2>1, <2>5, <4>1 DEF IInv, BufInv
    <3> QED BY <3>1, <3>2, <3>3
  <2> QED BY <1>1, <2>1, <2>5
<1>15. SubscribersAsked' /\ OnlyWhatWasAskedFor'
  BY <1>1, SubscribersKept, GotKept DEF IInv
<1> QED BY <1>1, <1>9, <1>10, <1>11, <1>13, <1>14, <1>15 DEF IInv, KnownInv, SendsInv

\* The sends of publish for a topic from the client of a descriptor.
Publication(topic, fd) ==
  UNION {{[to |-> c, via |-> t, msg |-> topic] : c \in subs[t] \ {fd}} :
         t \in {s \in known : <<s, topic>> \in Matching}}

LEMMA PublicationGoes ==
  ASSUME NEW l, NEW fd, NEW s \in Publication(l, fd)
  PROVE  /\ s.via \in known /\ s.msg = l
         /\ <<s.via, l>> \in Matching /\ s.to \in subs[s.via]
         /\ s = [to |-> s.to, via |-> s.via, msg |-> l]
<1>1. PICK t \in known :
        <<t, l>> \in Matching /\ s \in {[to |-> c, via |-> t, msg |-> l] : c \in subs[t] \ {fd}}
  BY DEF Publication
<1>2. PICK c \in subs[t] : s = [to |-> c, via |-> t, msg |-> l]
  BY <1>1
<1> QED BY <1>1, <1>2

LEMMA LineKinds ==
  ASSUME NEW l \in Lines
  PROVE  /\ l.cmd \in {"SUB", "UNSUB"} => l.topic \in Patterns
         /\ l.cmd = "PUB" => l.topic \in Topics
         /\ l.cmd = "SUB" => l = Sub(l.topic)
BY LinesAssumption DEF Ping, Long, Sub, Unsub, Pub

LEMMA HandleLineStep == IInv /\ Tears /\ HandleLine => IInv'
<1> SUFFICES ASSUME IInv, Tears, HandleLine PROVE IInv'
  OBVIOUS
<1> USE DEF subVars, peerVars
<1> DEFINE k  == cur.key
           fd == slotFd[k]
           p  == peerOf[fd]
<1>1. /\ cur # Nil /\ todo > 0 /\ sends = {} /\ todo' = todo - 1
      /\ rest[fd] # Nil
      /\ rest' = [rest EXCEPT ![fd] = Nil]
      /\ slotBuf' = [slotBuf EXCEPT ![k] = Nil]
      /\ mixed' = IF slotBuf[k] = PartOf(p, rest[fd]) THEN mixed ELSE mixed \cup {p}
      /\ UNCHANGED <<slotFd, num, wild, batch, cur, backlog, peerOf, key, inbox, unread, peerVars>>
  BY DEF HandleLine
<1> DEFINE Answers(l) ==
      \/ UNCHANGED <<subVars, sends>>
      \/ l = Ping /\ sends' = {[to |-> fd, via |-> Nil, msg |-> Pong]} /\ UNCHANGED subVars
      \/ /\ l.cmd = "SUB"
         /\ known' = IF Cardinality(known) < MaxSubs THEN known \cup {l.topic} ELSE known
         /\ subs' = IF l.topic \in known' /\ Cardinality(subs[l.topic]) < MaxClients
                      THEN [subs EXCEPT ![l.topic] = @ \cup {fd}] ELSE subs
         /\ UNCHANGED sends
      \/ /\ l.cmd = "UNSUB" /\ subs' = [subs EXCEPT ![l.topic] = @ \ {fd}]
         /\ UNCHANGED <<known, sends>>
      \/ l.cmd = "PUB" /\ sends' = Publication(l.topic, fd) /\ UNCHANGED subVars
<1>0. PICK l \in Lined(slotBuf[k], p, rest[fd]) : Answers(l)
  BY DEF HandleLine, Publication
<1>2. /\ slotFd \in [Slots -> Fds \cup {Nil}] /\ slotBuf \in [Slots -> Buffers]
      /\ peerOf \in [Fds -> Peers \cup {Nil}] /\ rest \in [Fds -> Lines \cup {Nil}]
      /\ known \subseteq Patterns /\ subs \in [Patterns -> SUBSET Fds]
      /\ todo \in Nat /\ mixed \subseteq Peers
  BY DEF IInv, Types, TableTypes, SubTypes, EventTypes, SocketTypes, HistoryTypes
<1>3. k \in Slots /\ fd \in Open /\ fd \in Fds /\ p \in Peers /\ todo <= Pieces(fd)
  BY <1>1, PiecesType DEF IInv, CurInv
<1>4. l \in Lines \cup {Junk}
  <2>1. rest[fd] \in Lines
    BY <1>1, <1>2, <1>3
  <2> QED BY <2>1 DEF Lined
<1> HIDE DEF k, fd, Answers
\* A line that is not the client's own has had a partial line in the wrong place.
<1>16. (torn' /\ p \in mixed') \/ (l = rest[fd] /\ l \in sent[p])
  <2>1. CASE slotBuf[k] = PartOf(p, rest[fd])
    BY <1>0, <1>1, <1>3, <2>1 DEF Lined, IInv, RestInv
  <2>2. CASE slotBuf[k] # PartOf(p, rest[fd])
    <3>1. torn
      BY <1>1, <1>3, <2>2 DEF IInv, BufInv, fd
    <3>2. p \in mixed'
      BY <1>1, <2>2
    <3>3. torn'
      BY <3>1 DEF Tears
    <3> QED BY <3>2, <3>3
  <2> QED BY <2>1, <2>2
<1> HIDE DEF p
<1>17. mixed \subseteq mixed' /\ mixed' \subseteq Peers
  BY <1>1, <1>2, <1>3
<1>5. CurInv' /\ InboxInv' /\ RestInv'
  <2>1. InboxInv'
    BY <1>1 DEF IInv, InboxInv
  <2>2. RestInv'
    <3> SUFFICES ASSUME NEW c \in Fds, rest'[c] # Nil
                 PROVE  c \in Open /\ rest'[c] \in sent[peerOf[c]]
      BY <1>1 DEF RestInv, Open
    <3>1. rest'[c] = rest[c]
      BY <1>1, <1>2, <1>3
    <3> QED BY <3>1 DEF IInv, RestInv
  <2>3. Pieces(fd) \in Nat /\ Pieces(fd) = 1 + 2 * Len(Data(fd)) /\ Len(Data(fd)) \in Nat
    <3>1. Pieces(fd) \in Nat /\ Data(fd) \in Seq(Lines)
      BY <1>3, PiecesType DEF IInv
    <3> QED BY <1>1, <3>1 DEF Pieces, Ends
  <2>4. (Pieces(fd))' = 0 + 2 * Len(Data(fd))
    <3>1. fd' = fd
      BY <1>1 DEF fd, k
    <3> HIDE DEF fd
    <3>2. (Data(fd))' = Data(fd) /\ (Ends(fd))' = 0
      BY <1>1, <1>2, <1>3, <3>1 DEF Data, Ends
    <3> QED BY <3>2 DEF Pieces
  <2>5. todo' <= (Pieces(fd))'
    BY <1>1, <1>2, <1>3, <2>3, <2>4
  <2>6. cur' = cur /\ k' = k /\ fd' = fd /\ (fd \in Open)'
    BY <1>1, <1>3 DEF Open, k, fd
  <2> QED BY <1>1, <1>3, <2>1, <2>2, <2>5, <2>6 DEF CurInv, k, fd
<1>6. OnlyWhatWasAskedFor'
  BY <1>1, <1>17, GotKept DEF IInv
<1>18. BufInv'
  <2> SUFFICES ASSUME ~torn'
               PROVE  /\ ~Stray' /\ mixed' = {}
                      /\ \A i \in Slots : slotFd[i] \in Open /\ rest'[slotFd[i]] # Nil =>
                           slotBuf'[i] = PartOf(peerOf[slotFd[i]], rest'[slotFd[i]])
    BY <1>1 DEF BufInv, Open
  <2>1. ~torn /\ ~Stray' /\ mixed = {}
    BY DEF Tears, IInv, BufInv
  <2>2. mixed' = mixed
    BY <1>1, <1>3, <2>1 DEF IInv, BufInv, p, fd
  <2>3. ASSUME NEW i \in Slots, slotFd[i] \in Open, rest'[slotFd[i]] # Nil
        PROVE  slotBuf'[i] = PartOf(peerOf[slotFd[i]], rest'[slotFd[i]])
    <3>1. slotFd[i] # fd /\ i # k
      BY <1>1, <1>2, <1>3, <2>3 DEF fd
    <3>2. slotBuf'[i] = slotBuf[i] /\ rest'[slotFd[i]] = rest[slotFd[i]]
      BY <1>1, <1>2, <2>3, <3>1
    <3> QED BY <2>1, <2>3, <3>2 DEF IInv, BufInv
  <2> QED BY <2>1, <2>2, <2>3
<1>19. TableTypes' /\ HistoryTypes'
  <2>1. slotBuf' \in [Slots -> Buffers]
    BY <1>1, <1>2 DEF Buffers
  <2> QED BY <1>1, <1>17, <2>1, TornKept DEF IInv, Types, TableTypes, HistoryTypes
\* What is left depends on the line.
<1> DEFINE Rest == /\ SubTypes' /\ sends' \subseteq Send
                   /\ KnownInv' /\ SendsInv' /\ SubscribersAsked'
<1>7. ASSUME UNCHANGED subVars, sends' \subseteq Send, SendsInv' PROVE Rest
  <2>1. SubscribersAsked'
    BY <1>1, <1>7, <1>17, SubscribersKept DEF IInv
  <2> QED BY <1>7, <2>1 DEF IInv, Types, SubTypes, KnownInv
<1>8. ASSUME UNCHANGED sends, SubTypes', KnownInv', SubscribersAsked' PROVE Rest
  BY <1>1, <1>8 DEF IInv, Types, EventTypes, SendsInv
<1> HIDE DEF Rest
<1>9. ASSUME l = Ping, sends' = {[to |-> fd, via |-> Nil, msg |-> Pong]}, UNCHANGED subVars
      PROVE  Rest
  <2>1. sends' \subseteq Send /\ SendsInv'
    BY <1>3, <1>9 DEF Send, SendsInv
  <2> QED BY <1>7, <1>9, <2>1
<1>10. ASSUME UNCHANGED <<subVars, sends>> PROVE Rest
  BY <1>1, <1>7, <1>10 DEF IInv, Types, EventTypes, SendsInv
<1>11. ASSUME l.cmd = "SUB",
              known' = IF Cardinality(known) < MaxSubs THEN known \cup {l.topic} ELSE known,
              subs' = IF l.topic \in known' /\ Cardinality(subs[l.topic]) < MaxClients
                        THEN [subs EXCEPT ![l.topic] = @ \cup {fd}] ELSE subs,
              UNCHANGED sends
       PROVE  Rest
  <2>1. l.topic \in Patterns /\ l = Sub(l.topic)
    BY <1>4, <1>11, LineKinds DEF Junk
  <2> HIDE DEF fd
  <2>2. SubTypes'
    BY <1>2, <1>3, <1>11, <2>1 DEF SubTypes
  <2>3. KnownInv'
    <3>1. IsFiniteSet(known) /\ Cardinality(known) <= MaxSubs
      BY DEF IInv, KnownInv
    <3>2. /\ IsFiniteSet(known \cup {l.topic})
          /\ Cardinality(known \cup {l.topic}) \in {Cardinality(known), Cardinality(known) + 1}
          /\ Cardinality(known) \in Nat
      BY <3>1, FS_AddElement, FS_CardinalityType
    <3>3. IsFiniteSet(known') /\ Cardinality(known') <= MaxSubs
      BY <1>11, <3>1, <3>2, SizesAssumption
    <3>4. \A t \in Patterns \ known' : subs'[t] = {}
      BY <1>2, <1>11 DEF IInv, KnownInv
    <3> QED BY <3>3, <3>4 DEF KnownInv
  <2>4. SubscribersAsked'
    <3> SUFFICES ASSUME NEW t \in Patterns, NEW c \in subs'[t]
                 PROVE  /\ c \in Open
                        /\ Sub(t) \in sent[peerOf[c]] \/ (torn' /\ peerOf[c] \in mixed')
      BY <1>1 DEF SubscribersAsked, Open, Garbled
    <3>1. CASE c \in subs[t]
      BY <1>1, <1>17, <3>1, GarbledKept DEF IInv, SubscribersAsked
    <3>2. CASE c \notin subs[t]
      <4>1. t = l.topic /\ c = fd
        BY <1>2, <1>11, <3>2
      <4>2. p = peerOf[c]
        BY <4>1 DEF p
      <4> QED BY <1>3, <1>16, <2>1, <4>1, <4>2
    <3> QED BY <3>1, <3>2
  <2> QED BY <1>8, <1>11, <2>2, <2>3, <2>4
<1>12. ASSUME l.cmd = "UNSUB", subs' = [subs EXCEPT ![l.topic] = @ \ {fd}],
              UNCHANGED <<known, sends>>
       PROVE  Rest
  <2>1. l.topic \in Patterns
    BY <1>4, <1>12, LineKinds DEF Junk
  <2> HIDE DEF fd
  <2>2. SubTypes' /\ \A t \in Patterns : subs'[t] \subseteq subs[t]
    BY <1>2, <1>12, <2>1 DEF SubTypes
  <2>3. KnownInv'
    BY <1>12, <2>2 DEF IInv, KnownInv
  <2>4. SubscribersAsked'
    <3> SUFFICES ASSUME NEW t \in Patterns, NEW c \in subs'[t]
                 PROVE  /\ c \in Open
                        /\ Sub(t) \in sent[peerOf[c]] \/ (torn' /\ peerOf[c] \in mixed')
      BY <1>1 DEF SubscribersAsked, Open, Garbled
    <3>1. c \in Open /\ (Sub(t) \in sent[peerOf[c]] \/ Garbled(peerOf[c]))
      BY <2>2 DEF IInv, SubscribersAsked
    <3> QED BY <1>17, <3>1, GarbledKept DEF IInv
  <2> QED BY <1>8, <1>12, <2>2, <2>3, <2>4
<1>13. ASSUME l.cmd = "PUB", sends' = Publication(l.topic, fd),
              UNCHANGED subVars
       PROVE  Rest
  <2>1. l.topic \in Topics
    BY <1>4, <1>13, LineKinds DEF Junk
  <2> HIDE DEF fd
  <2>2. ASSUME NEW s \in sends'
        PROVE  /\ s \in Send /\ s.via \in Patterns
               /\ <<s.via, s.msg>> \in Matching /\ s.to \in subs[s.via]
    <3>1. /\ s.via \in known /\ s.msg = l.topic
          /\ <<s.via, l.topic>> \in Matching /\ s.to \in subs[s.via]
          /\ s = [to |-> s.to, via |-> s.via, msg |-> l.topic]
      BY <1>13, PublicationGoes
    <3>2. s.to \in Fds /\ s.via \in Patterns
      BY <1>2, <3>1
    <3> QED BY <2>1, <3>1, <3>2 DEF Send
  <2>3. SendsInv' /\ sends' \subseteq Send
    BY <1>13, <2>2 DEF SendsInv
  <2> QED BY <1>7, <1>13, <2>3
<1>14. Rest
  BY <1>0, <1>9, <1>10, <1>11, <1>12, <1>13 DEF Answers
<1>15. Types'
  <2>1. todo' \in Nat /\ EventTypes'
    BY <1>1, <1>2, <1>14 DEF Rest, IInv, Types, EventTypes
  <2>2. SocketTypes' /\ PeerTypes'
    BY <1>1, <1>2 DEF IInv, Types, SocketTypes, PeerTypes
  <2> QED BY <1>14, <1>19, <2>1, <2>2 DEF Rest, Types
<1> QED BY <1>5, <1>6, <1>14, <1>15, <1>18 DEF Rest, IInv

LEMMA SendOneStep == IInv /\ Tears /\ SendOne => IInv'
<1> SUFFICES ASSUME IInv, Tears, SendOne PROVE IInv'
  OBVIOUS
<1> USE DEF tableVars, subVars
<1>1. PICK s \in sends :
        /\ sends' = sends \ {s}
        /\ \/ UNCHANGED <<unread, got>>
           \/ /\ ~Lost(peerOf[s.to]) /\ unread[peerOf[s.to]] < RecvCap
              /\ unread' = [unread EXCEPT ![peerOf[s.to]] = @ + 1]
              /\ got' = [got EXCEPT ![peerOf[s.to]] = @ \cup {s.msg}]
        /\ UNCHANGED <<tableVars, subVars, batch, cur, todo, backlog, peerOf, key, inbox, rest,
                       peer, sent, mixed>>
  BY DEF SendOne
<1> DEFINE p == peerOf[s.to]
<1>2. /\ s \in Send
      /\ got \in [Peers -> SUBSET (Topics \cup {Pong})]
      /\ unread \in [Peers -> 0 .. RecvCap]
      /\ peerOf \in [Fds -> Peers \cup {Nil}]
  BY DEF IInv, Types, EventTypes, SocketTypes, PeerTypes
<1>3. s.msg \in Topics \cup {Pong}
  BY <1>2 DEF Send
<1> HIDE DEF p
<1>4. unread' \in [Peers -> 0 .. RecvCap] /\ got' \in [Peers -> SUBSET (Topics \cup {Pong})]
  BY <1>1, <1>2, <1>3, SizesAssumption DEF p
<1>5. Types'
  <2>1. TableTypes' /\ SubTypes'
    BY <1>1 DEF IInv, Types, TableTypes, SubTypes
  <2>2. EventTypes'
    BY <1>1 DEF IInv, Types, EventTypes
  <2>3. SocketTypes' /\ PeerTypes'
    BY <1>1, <1>4 DEF IInv, Types, SocketTypes, PeerTypes
  <2>4. HistoryTypes'
    BY <1>1, TornKept DEF IInv, Types, HistoryTypes
  <2> QED BY <2>1, <2>2, <2>3, <2>4 DEF Types
<1>6. CurInv'
  BY <1>1 DEF IInv, CurInv, Open, Pieces, Ends, Data
<1>8. BufInv' /\ RestInv'
  BY <1>1, BufKept DEF IInv, Tears, RestInv, Open
<1>9. SubscribersAsked'
  BY <1>1, SubscribersKept DEF IInv
<1>7. OnlyWhatWasAskedFor'
  <2> SUFFICES ASSUME NEW q \in Peers, NEW t \in got'[q] \ {Pong}
               PROVE  \/ \E x \in Patterns : <<x, t>> \in Matching /\ Sub(x) \in sent[q]
                      \/ Garbled(q)
    BY <1>1, GarbledKept DEF IInv, OnlyWhatWasAskedFor, Garbled
  <2>1. CASE t \in got[q]
    BY <2>1 DEF IInv, OnlyWhatWasAskedFor
  <2>2. CASE t \notin got[q]
    <3>1. q = p /\ t = s.msg
      BY <1>1, <1>2, <2>2 DEF p
    <3>2. s.via \in Patterns /\ <<s.via, t>> \in Matching /\ s.to \in subs[s.via]
      BY <3>1 DEF IInv, SendsInv
    <3>3. Sub(s.via) \in sent[p] \/ Garbled(p)
      BY <3>2 DEF IInv, SubscribersAsked, p
    <3> QED BY <3>1, <3>2, <3>3
  <2> QED BY <2>1, <2>2
<1> QED BY <1>1, <1>5, <1>6, <1>7, <1>8, <1>9 DEF IInv, KnownInv, InboxInv, SendsInv

LEMMA EndOfEventStep == IInv /\ Tears /\ EndOfEvent => IInv'
<1> SUFFICES ASSUME IInv, Tears, EndOfEvent PROVE IInv'
  OBVIOUS
<1>1. /\ cur # Nil /\ todo = 0 /\ sends = {} /\ cur' = Nil
      /\ UNCHANGED <<batch, todo, sends, peerVars, mixed>>
  BY DEF EndOfEvent
<1>2. CASE RemoveClient(cur.key)
  <2>1. cur.key \in Slots
    BY <1>1 DEF IInv, CurInv
  <2> QED BY <1>1, <1>2, <2>1, RemoveStep
<1>3. CASE UNCHANGED <<tableVars, subVars, socketVars>>
  <2> USE DEF tableVars, subVars, socketVars, peerVars
  <2>1. Types'
    BY <1>1, <1>3, TornKept
    DEF IInv, Types, TableTypes, SubTypes, EventTypes, SocketTypes, PeerTypes, HistoryTypes
  <2>2. BufInv'
    BY <1>1, <1>3, BufKept DEF IInv, Tears
  <2>3. SubscribersAsked' /\ OnlyWhatWasAskedFor'
    BY <1>1, <1>3, SubscribersKept, GotKept DEF IInv
  <2> QED BY <1>1, <1>3, <2>1, <2>2, <2>3 DEF IInv, KnownInv, InboxInv, RestInv, CurInv, SendsInv,
               Open
<1> QED BY <1>2, <1>3 DEF EndOfEvent

LEMMA StutterStep == IInv /\ UNCHANGED vars => IInv'
<1> SUFFICES ASSUME IInv, UNCHANGED vars PROVE IInv'
  OBVIOUS
<1> USE DEF vars, tableVars, subVars, eventVars, socketVars, peerVars
<1>1. Types'
  BY DEF IInv, Types, TableTypes, SubTypes, EventTypes, SocketTypes, PeerTypes, HistoryTypes
<1>2. BufInv'
  BY DEF IInv, BufInv, Stray, Open
<1> QED BY <1>1, <1>2 DEF IInv, KnownInv, InboxInv, RestInv, CurInv, SendsInv, Open,
             Pieces, Ends, Data, SubscribersAsked, OnlyWhatWasAskedFor, Garbled

-----------------------------------------------------------------------------
\* The inductive invariant holds of every behaviour.
THEOREM Invariance == Spec => []IInv
<1>1. IInv /\ [Next]_vars => IInv'
  BY ConnectStep, SendLineStep, ReadLeaveStep, EpollWaitStep, AcceptStep, RecvStep,
     KeepPartStep, HandleLineStep, SendOneStep, EndOfEventStep, StutterStep
  DEF Next, Daemon, Client, Tears
<1> QED BY InitInv, <1>1, PTL DEF Spec

\* Every variable keeps its type; the client count and the topic table stay
\* within their limits, the buffers within their capacity (BusDaemon!TypeOK).
THEOREM TypeCorrect == Spec => []TypeOK
<1>1. IInv => TypeOK
  BY DEF IInv, Types, TableTypes, SubTypes, SocketTypes, PeerTypes, KnownInv, TypeOK
<1> QED BY <1>1, Invariance, PTL

\* Every subscriber of a topic is an open connection whose own client sent SUB
\* for it (remove_client clears the descriptor's subscriptions before it closes
\* it), however often descriptors and slots are reused and wherever recv cuts the
\* lines; or a partial line lay in a slot it does not belong to, and lines of that
\* client were run together with one (bb-busd.c:136, 184-207).
THEOREM SubscribersAskedAlways == Spec => []SubscribersAsked
<1>1. IInv => SubscribersAsked
  BY DEF IInv
<1> QED BY <1>1, Invariance, PTL

\* A client gets a publication only of a topic it sent a matching SUB for, unless
\* its lines were garbled in that way (publish sends to subs[] alone).
THEOREM OnlyWhatWasAskedForAlways == Spec => []OnlyWhatWasAskedFor
<1>1. IInv => OnlyWhatWasAskedFor
  BY DEF IInv
<1> QED BY <1>1, Invariance, PTL
-----------------------------------------------------------------------------
(* Identity.  While nobody leaves and every line fits its buffer, nobody is    *)
(* removed: the table only grows, the index a connection is registered under   *)
(* stays its index, and the pieces of a line meet in its own slot.             *)

Calm == Long \notin Lines /\ \A p \in Peers : peer[p] # "gone"

\* The slots in use and the registered connections name each other.
TableInv ==
  /\ num >= 0 /\ ~wild /\ ~torn
  /\ \A i \in Slots : IF i < num THEN slotFd[i] \in Open /\ key[slotFd[i]] = i
                      ELSE slotFd[i] = Nil
  /\ \A fd \in Open : key[fd] # Nil => key[fd] < num /\ slotFd[key[fd]] = fd

\* An event is of the connection in its slot, and no hangup.
Named(e) == /\ ~e.hup
            /\ e.key # Srv => e.src \in Open /\ e.key < num /\ slotFd[e.key] = e.src
NamesInv ==
  /\ \A e \in batch : Named(e)
  /\ cur # Nil => Named(cur) /\ cur.key # Srv

IdentityInv == Calm => TableInv /\ NamesInv

LEMMA CalmBefore == IInv /\ [Next]_vars /\ Calm' => Calm
<1> SUFFICES ASSUME IInv, [Next]_vars, Calm' PROVE Calm
  OBVIOUS
<1>1. peer \in [Peers -> {"new", "up", "gone"}]
  BY DEF IInv, Types, PeerTypes
<1>2. ASSUME NEW p \in Peers, peer[p] = "gone" PROVE peer'[p] = "gone"
  <2>1. CASE Daemon \/ UNCHANGED vars
    BY <1>2, <2>1 DEF Daemon, EpollWait, Accept, Recv, KeepPart, HandleLine, SendOne, EndOfEvent,
       vars, peerVars
  <2>2. CASE \E q \in Peers : Connect(q) \/ SendLine(q) \/ Read(q) \/ Leave(q)
    BY <1>1, <1>2, <2>2 DEF Connect, SendLine, Read, Leave, peerVars
  <2> QED BY <2>1, <2>2 DEF Next, Client
<1> QED BY <1>2 DEF Calm

\* No two slots name one open connection.
LEMMA OneSlot ==
  ASSUME TableInv, NEW i \in Slots, NEW j \in Slots, slotFd[i] \in Open, slotFd[j] = slotFd[i]
  PROVE  i = j
<1>1. slotFd[i] # Nil
  BY NilIsNew DEF Open
<1> QED BY <1>1 DEF TableInv

\* So a partial line is in its place when no slot of a connection without one
\* holds text.
LEMMA NotStray ==
  ASSUME TableInv, \A i \in Slots : slotFd[i] \in Open /\ slotBuf[i] # Nil => rest[slotFd[i]] # Nil
  PROVE  ~Stray
BY OneSlot DEF Stray

\* Steps that change neither who is in the table nor the events.
LEMMA IdentityKept ==
  ASSUME TableInv, NamesInv, UNCHANGED <<slotFd, num, wild, key, peerOf>>, ~torn',
         batch' \subseteq batch, cur' \in {cur, Nil}
  PROVE  TableInv' /\ NamesInv'
BY DEF TableInv, NamesInv, Named, Open

\* ... among them those that leave what the slots hold alone.
LEMMA NothingTorn ==
  ASSUME IInv, TableInv, Tears, UNCHANGED <<tableVars, peerOf, rest>>
  PROVE  ~torn'
<1>1. ~torn /\ ~Stray
  BY DEF TableInv, IInv, BufInv
<1>2. ~Stray'
  BY <1>1 DEF Stray, Open, tableVars
<1> QED BY <1>1, <1>2 DEF Tears

LEMMA IdentityAccept ==
  ASSUME IInv, Calm, TableInv, NamesInv, Tears, Accept
  PROVE  TableInv' /\ NamesInv'
<1> DEFINE fd == Min(Fds \ Open)
<1>1. /\ fd \in Fds \ Open
      /\ backlog \in Seq(Peers) /\ backlog # <<>>
      /\ peerOf \in [Fds -> Peers \cup {Nil}]
      /\ key \in [Fds -> Slots \cup {Nil}]
  BY LowestFd DEF Accept, IInv, Types, SocketTypes
<1>2. /\ peerOf' = [peerOf EXCEPT ![fd] = Head(backlog)]
      /\ batch' \subseteq batch /\ cur = Nil /\ cur' = Nil /\ rest' = rest
      /\ \/ /\ num \in Slots
            /\ key' = [key EXCEPT ![fd] = num]
            /\ slotFd' = [slotFd EXCEPT ![num] = fd]
            /\ slotBuf' = [slotBuf EXCEPT ![num] = Nil]
            /\ num' = num + 1 /\ wild' = wild
         \/ num >= 0 /\ num \notin Slots /\ key' = [key EXCEPT ![fd] = Nil] /\ UNCHANGED tableVars
         \/ num < 0
  BY DEF Accept, BetweenEvents, HasRoom
<1>3. TableTypes /\ slotFd \in [Slots -> Fds \cup {Nil}] /\ slotBuf \in [Slots -> Buffers]
  BY DEF IInv, Types, TableTypes
<1> HIDE DEF fd
<1>4. Open' = Open \cup {fd} /\ fd \notin Open /\ fd # Nil
  <2>1. Head(backlog) \in Peers /\ Head(backlog) # Nil
    BY <1>1, NilIsNew
  <2> QED BY <1>1, <1>2, <2>1, NilIsNew DEF Open
<1>5. \A c \in Open : c \in Fds /\ c # fd /\ c # Nil
  BY <1>4, NilIsNew DEF Open
<1>6. num \in Int /\ num >= 0
  BY <1>3 DEF TableTypes, TableInv
<1>7. \A c \in Open : key'[c] = key[c]
  <2>1. key' = [key EXCEPT ![fd] = num] \/ key' = [key EXCEPT ![fd] = Nil]
    BY <1>2, <1>6
  <2> QED BY <1>1, <1>5, <2>1
<1>8. ~torn /\ ~Stray
  BY DEF TableInv, IInv, BufInv
\* Who names whom.
<1> DEFINE Names == /\ num' >= 0 /\ ~wild'
                    /\ \A i \in Slots : IF i < num' THEN slotFd'[i] \in Open' /\ key'[slotFd'[i]] = i
                                        ELSE slotFd'[i] = Nil
                    /\ \A c \in Open' : key'[c] # Nil => key'[c] < num' /\ slotFd'[key'[c]] = c
                    /\ \A i \in Slots : slotFd'[i] \in Open' /\ slotBuf'[i] # Nil =>
                         slotFd'[i] = slotFd[i] /\ slotBuf'[i] = slotBuf[i] /\ slotFd[i] \in Open
                    /\ NamesInv'
<1> HIDE DEF Names
<1>9. ASSUME num \in Slots,
             key' = [key EXCEPT ![fd] = num],
             slotFd' = [slotFd EXCEPT ![num] = fd],
             slotBuf' = [slotBuf EXCEPT ![num] = Nil],
             num' = num + 1, wild' = wild
      PROVE  Names
  <2>1. /\ \A i \in Slots : i # num => slotFd'[i] = slotFd[i] /\ slotBuf'[i] = slotBuf[i]
        /\ slotFd'[num] = fd /\ slotBuf'[num] = Nil /\ key'[fd] = num
    BY <1>1, <1>3, <1>9
  <2>2. \A i \in Slots : i \in Int
    BY DEF Slots
  <2>3. ASSUME NEW i \in Slots
        PROVE  IF i < num' THEN slotFd'[i] \in Open' /\ key'[slotFd'[i]] = i ELSE slotFd'[i] = Nil
    <3>1. CASE i = num
      BY <1>4, <1>6, <1>9, <2>1, <3>1
    <3>2. CASE i < num
      <4>1. slotFd'[i] = slotFd[i] /\ slotFd[i] \in Open /\ key[slotFd[i]] = i
        BY <1>6, <2>1, <2>2, <3>2 DEF TableInv
      <4> QED BY <1>4, <1>6, <1>7, <1>9, <2>2, <3>2, <4>1
    <3>3. CASE i > num
      <4>1. slotFd'[i] = slotFd[i] /\ slotFd[i] = Nil /\ ~ (i < num')
        BY <1>6, <1>9, <2>1, <2>2, <3>3 DEF TableInv
      <4> QED BY <4>1
    <3> QED BY <1>6, <2>2, <3>1, <3>2, <3>3
  <2>4. ASSUME NEW c \in Open', key'[c] # Nil PROVE key'[c] < num' /\ slotFd'[key'[c]] = c
    <3>1. CASE c = fd
      BY <1>6, <1>9, <2>1, <3>1
    <3>2. CASE c # fd
      <4>1. c \in Open /\ key[c] \in Slots /\ key'[c] = key[c]
        BY <1>1, <1>4, <1>5, <1>7, <2>4, <3>2
      <4>2. key[c] < num /\ slotFd[key[c]] = c
        BY <2>4, <4>1 DEF TableInv
      <4>3. slotFd'[key[c]] = slotFd[key[c]]
        BY <1>6, <2>1, <2>2, <4>1, <4>2
      <4>4. key[c] \in Int /\ key[c] < num + 1
        BY <1>6, <2>2, <4>1, <4>2
      <4> QED BY <1>9, <4>1, <4>2, <4>3, <4>4
    <3> QED BY <3>1, <3>2
  <2>5. ASSUME NEW i \in Slots, slotFd'[i] \in Open', slotBuf'[i] # Nil
        PROVE  slotFd'[i] = slotFd[i] /\ slotBuf'[i] = slotBuf[i] /\ slotFd[i] \in Open
    <3>1. i # num /\ slotFd'[i] = slotFd[i] /\ slotBuf'[i] = slotBuf[i]
      BY <2>1, <2>5
    <3>2. slotFd[i] # Nil
      BY <1>4, <1>5, <2>5, <3>1
    <3>3. slotFd[i] \in Open
      BY <3>2 DEF TableInv
    <3> QED BY <3>1, <3>3
  <2>6. NamesInv'
    <3> SUFFICES ASSUME NEW e \in batch' PROVE Named(e)'
      BY <1>2 DEF NamesInv
    <3>1. Named(e) /\ e \in Event
      BY <1>2 DEF NamesInv, IInv, Types, EventTypes
    <3>2. e.key # Srv => e.key \in Slots
      BY <3>1 DEF Event
    <3>3. ASSUME e.key # Srv
          PROVE  (e.src \in Open)' /\ e.key < num' /\ slotFd'[e.key] = e.src
      <4>1. e.src \in Open /\ e.key < num /\ slotFd[e.key] = e.src /\ e.key \in Slots
        BY <3>1, <3>2, <3>3 DEF Named
      <4>2. e.key \in Int /\ e.key # num /\ e.key < num + 1
        BY <1>6, <2>2, <4>1
      <4>3. slotFd'[e.key] = slotFd[e.key]
        BY <2>1, <4>1, <4>2
      <4> QED BY <1>4, <1>9, <4>1, <4>2, <4>3
    <3> QED BY <3>1, <3>3 DEF Named
  <2>7. num' >= 0 /\ ~wild'
    BY <1>6, <1>9 DEF TableInv
  <2> QED BY <2>3, <2>4, <2>5, <2>6, <2>7 DEF Names
<1>10. ASSUME num >= 0, num \notin Slots, key' = [key EXCEPT ![fd] = Nil], UNCHANGED tableVars
       PROVE  Names
  <2>1. key'[fd] = Nil /\ UNCHANGED <<slotFd, slotBuf, num, wild>>
    BY <1>1, <1>10 DEF tableVars
  <2>2. \A i \in Slots : i < num
    BY <1>6, <1>10, SizesAssumption DEF Slots
  <2>3. NamesInv'
    BY <1>2, <1>4, <2>1 DEF NamesInv, Named
  <2>4. \A i \in Slots : slotFd[i] \in Open /\ key[slotFd[i]] = i
    BY <2>2 DEF TableInv
  <2>5. \A c \in Open' : key'[c] # Nil => c \in Open /\ key'[c] = key[c]
    BY <1>4, <1>7, <2>1
  <2> QED BY <1>4, <1>7, <2>1, <2>2, <2>3, <2>4, <2>5 DEF TableInv, Names
<1>11. Names
  BY <1>2, <1>6, <1>9, <1>10
<1>12. ~Stray'
  <2> SUFFICES ASSUME NEW i \in Slots, slotFd'[i] \in Open', slotBuf'[i] # Nil
               PROVE  /\ rest'[slotFd'[i]] # Nil
                      /\ \A j \in Slots \ {i} : slotFd'[j] # slotFd'[i]
    BY DEF Stray
  <2>1. slotFd'[i] = slotFd[i] /\ slotBuf'[i] = slotBuf[i] /\ slotFd[i] \in Open
    BY <1>11 DEF Names
  <2>2. rest[slotFd[i]] # Nil
    BY <1>8, <2>1 DEF Stray
  <2>3. ASSUME NEW j \in Slots, slotFd'[j] = slotFd'[i] PROVE j = i
    <3>1. slotFd'[i] # Nil
      BY <1>5, <2>1
    <3>2. key'[slotFd'[i]] = i /\ key'[slotFd'[j]] = j
      BY <1>11, <2>3, <3>1 DEF Names
    <3> QED BY <2>3, <3>2
  <2> QED BY <1>2, <2>1, <2>2, <2>3
<1>13. ~torn'
  BY <1>8, <1>12 DEF Tears
<1> QED BY <1>11, <1>13 DEF Names, TableInv

LEMMA IdentityRecv ==
  ASSUME IInv, Calm, TableInv, NamesInv, Tears, Recv
  PROVE  TableInv' /\ NamesInv'
<1>1. PICK e \in batch :
        /\ e.key # Srv /\ batch' = batch \ {e}
        /\ \/ /\ \/ slotFd[e.key] \notin Open
                 \/ slotBuf[e.key] = Full
                 \/ Gone(slotFd[e.key])
           \/ cur' = e /\ UNCHANGED <<tableVars, subVars, socketVars>>
  BY DEF Recv
<1>2. Named(e) /\ e.key \in Slots
  BY <1>1 DEF NamesInv, IInv, Types, EventTypes, Event
<1>3. slotFd[e.key] \in Open
  BY <1>1, <1>2 DEF Named
<1>4. slotBuf[e.key] # Full
  <2>1. ~torn /\ ~Stray
    BY DEF TableInv, IInv, BufInv
  <2>2. CASE slotBuf[e.key] = Nil
    BY <2>2, NilAssumption
  <2>3. CASE slotBuf[e.key] # Nil
    <3>1. rest[slotFd[e.key]] # Nil
      BY <1>2, <1>3, <2>1, <2>3 DEF Stray
    <3>2. slotBuf[e.key] = PartOf(peerOf[slotFd[e.key]], rest[slotFd[e.key]])
      BY <1>2, <1>3, <2>1, <3>1 DEF IInv, BufInv
    <3>3. rest[slotFd[e.key]] \in Lines /\ peerOf[slotFd[e.key]] \in Peers
      BY <1>3, <3>1 DEF IInv, Types, SocketTypes, Open
    <3>4. slotBuf[e.key] \in Part
      BY <3>2, <3>3 DEF PartOf, Part, Calm
    <3> QED BY <3>4, NilAssumption
  <2> QED BY <2>2, <2>3
<1>5. ~Gone(slotFd[e.key])
  BY <1>3, NilIsNew DEF Gone, Calm, Open, IInv, Types, SocketTypes
<1>6. cur' = e /\ UNCHANGED <<tableVars, peerOf, key, rest>>
  BY <1>1, <1>3, <1>4, <1>5 DEF socketVars
<1>7. ~torn'
  BY <1>6, NothingTorn
<1> QED BY <1>1, <1>2, <1>6, <1>7 DEF tableVars, TableInv, NamesInv, Named, Open

LEMMA IdentityKeepPart ==
  ASSUME IInv, Calm, TableInv, NamesInv, Tears, KeepPart
  PROVE  TableInv' /\ NamesInv'
<1> DEFINE k  == cur.key
           fd == slotFd[k]
<1>1. /\ cur # Nil /\ todo > 0
      /\ rest' = [rest EXCEPT ![fd] = Head(Data(fd))]
      /\ \E buf : slotBuf' = [slotBuf EXCEPT ![k] = buf]
      /\ rest[fd] = Nil
      /\ UNCHANGED <<slotFd, num, wild, key, peerOf, batch, cur>>
  BY DEF KeepPart
<1>2. k \in Slots /\ fd \in Open /\ todo <= Pieces(fd) /\ todo \in Nat
  BY <1>1 DEF IInv, CurInv, Types, EventTypes
<1>3. Head(Data(fd)) # Nil /\ fd \in Fds
  <2>1. Pieces(fd) \in Nat
    BY <1>2, PiecesType DEF IInv
  <2>2. Pieces(fd) > 0
    BY <1>1, <1>2, <2>1
  <2>3. Head(Data(fd)) \in Lines /\ fd \in Fds
    BY <1>1, <1>2, <2>2, PiecesType DEF IInv
  <2> QED BY <2>3, NilAssumption
<1>4. /\ slotBuf \in [Slots -> Buffers] /\ rest \in [Fds -> Lines \cup {Nil}]
      /\ ~torn /\ ~Stray
  BY DEF IInv, Types, TableTypes, SocketTypes, TableInv, BufInv
<1> HIDE DEF k, fd
<1>5. \A i \in Slots : slotFd[i] \in Open /\ slotBuf'[i] # Nil => rest'[slotFd[i]] # Nil
  <2> SUFFICES ASSUME NEW i \in Slots, slotFd[i] \in Open, slotBuf'[i] # Nil
               PROVE  rest'[slotFd[i]] # Nil
    OBVIOUS
  <2>1. CASE slotFd[i] = fd
    BY <1>1, <1>3, <1>4, <2>1
  <2>2. CASE slotFd[i] # fd
    <3>1. i # k /\ slotBuf'[i] = slotBuf[i]
      BY <1>1, <1>4, <2>2 DEF fd
    <3>2. rest[slotFd[i]] # Nil
      BY <1>4, <3>1 DEF Stray
    <3> QED BY <1>1, <1>3, <1>4, <2>2, <3>2 DEF Open
  <2> QED BY <2>1, <2>2
<1>6. ~Stray'
  BY <1>1, <1>5, OneSlot DEF Stray, Open
<1> QED BY <1>1, <1>4, <1>6, IdentityKept DEF Tears

LEMMA IdentityHandleLine ==
  ASSUME IInv, Calm, TableInv, NamesInv, Tears, HandleLine
  PROVE  TableInv' /\ NamesInv'
<1> DEFINE k  == cur.key
           fd == slotFd[k]
<1>1. /\ cur # Nil
      /\ rest' = [rest EXCEPT ![fd] = Nil] /\ slotBuf' = [slotBuf EXCEPT ![k] = Nil]
      /\ UNCHANGED <<slotFd, num, wild, key, peerOf, batch, cur>>
  BY DEF HandleLine
<1>2. k \in Slots /\ fd \in Open
  BY <1>1 DEF IInv, CurInv
<1>4. /\ slotBuf \in [Slots -> Buffers] /\ rest \in [Fds -> Lines \cup {Nil}]
      /\ ~torn /\ ~Stray
  BY DEF IInv, Types, TableTypes, SocketTypes, TableInv, BufInv
<1> HIDE DEF k
<1>5. \A i \in Slots : slotFd[i] \in Open /\ slotBuf'[i] # Nil => rest'[slotFd[i]] # Nil
  <2> SUFFICES ASSUME NEW i \in Slots, slotFd[i] \in Open, slotBuf'[i] # Nil
               PROVE  rest'[slotFd[i]] # Nil
    OBVIOUS
  <2>1. i # k /\ slotBuf'[i] = slotBuf[i]
    BY <1>1, <1>4
  <2>2. slotFd[i] # fd
    BY <1>2, <2>1, OneSlot
  <2>3. rest[slotFd[i]] # Nil
    BY <1>4, <2>1 DEF Stray
  <2> QED BY <1>1, <1>4, <2>2, <2>3 DEF Open
<1>6. ~Stray'
  BY <1>1, <1>5, OneSlot DEF Stray, Open
<1> QED BY <1>1, <1>4, <1>6, IdentityKept DEF Tears

LEMMA IdentityStep == IInv /\ IdentityInv /\ [Next]_vars => IdentityInv'
<1> SUFFICES ASSUME IInv, IdentityInv, [Next]_vars, Calm' PROVE TableInv' /\ NamesInv'
  BY DEF IdentityInv
<1>0. Calm /\ TableInv /\ NamesInv
  BY CalmBefore DEF IdentityInv
<1>1. CASE EpollWait /\ Tears
  <2>1. UNCHANGED <<tableVars, cur, peerOf, key, rest>> /\ batch' = Ready /\ cur = Nil
    BY <1>1 DEF EpollWait, BetweenEvents, socketVars
  <2>2. TableInv'
    <3>1. ~torn'
      BY <1>0, <1>1, <2>1, NothingTorn
    <3> QED BY <1>0, <2>1, <3>1 DEF tableVars, TableInv, Open
  <2>3. ASSUME NEW e \in Ready PROVE Named(e)
    <3>1. CASE e = [key |-> Srv, src |-> Srv, hup |-> FALSE]
      BY <3>1 DEF Named
    <3>2. CASE \E fd \in Open : key[fd] # Nil /\ e = [key |-> key[fd], src |-> fd, hup |-> Gone(fd)]
      <4>1. PICK fd \in Open : key[fd] # Nil /\ e = [key |-> key[fd], src |-> fd, hup |-> Gone(fd)]
        BY <3>2
      <4>2. ~Gone(fd)
        BY <1>0, NilIsNew DEF Gone, Calm, Open, IInv, Types, SocketTypes
      <4> QED BY <1>0, <4>1, <4>2 DEF Named, TableInv
    <3> QED BY <3>1, <3>2 DEF Ready
  <2>4. NamesInv'
    BY <2>1, <2>3 DEF tableVars, NamesInv, Named, Open
  <2> QED BY <2>2, <2>4
<1>2. CASE Accept /\ Tears
  BY <1>0, <1>2, IdentityAccept
<1>3. CASE Recv /\ Tears
  BY <1>0, <1>3, IdentityRecv
<1>4. CASE (KeepPart \/ HandleLine) /\ Tears
  BY <1>0, <1>4, IdentityKeepPart, IdentityHandleLine
<1>5. CASE SendOne /\ Tears
  <2>1. UNCHANGED <<tableVars, key, peerOf, rest, batch, cur>>
    BY <1>5 DEF SendOne
  <2>2. ~torn'
    BY <1>0, <1>5, <2>1, NothingTorn
  <2> QED BY <1>0, <2>1, <2>2, IdentityKept DEF tableVars
<1>6. CASE EndOfEvent /\ Tears
  <2>1. ~cur.hup
    BY <1>0, <1>6 DEF EndOfEvent, NamesInv, Named
  <2>2. UNCHANGED <<tableVars, key, peerOf, rest, batch>> /\ cur' = Nil
    BY <1>6, <2>1 DEF EndOfEvent, socketVars
  <2>3. ~torn'
    BY <1>0, <1>6, <2>2, NothingTorn
  <2> QED BY <1>0, <2>2, <2>3, IdentityKept DEF tableVars
<1>7. CASE UNCHANGED vars \/ \E p \in Peers : Client(p)
  <2>1. UNCHANGED <<tableVars, key, peerOf, batch, cur, torn>>
    BY <1>7 DEF vars, Client, Connect, SendLine, Read, Leave, eventVars, socketVars
  <2>2. ~torn'
    BY <1>0, <2>1 DEF TableInv
  <2> QED BY <1>0, <2>1, <2>2, IdentityKept DEF tableVars
<1> QED BY <1>1, <1>2, <1>3, <1>4, <1>5, <1>6, <1>7 DEF Next, Daemon, Tears

\* While nobody leaves and every line fits, no client is mistaken for another:
\* the index epoll reports leads to the connection it was registered for, so the
\* lines handled, and the PONGs sent, are those of the client whose event it is,
\* each put together as it was sent (bb-busd.c:168-207).  PingAnswered and
\* PublicationArrives rest on this.
NobodyMistaken ==
  Calm => /\ ~wild /\ mixed = {}
          /\ cur # Nil => slotFd[cur.key] = cur.src
          /\ \A fd \in Open : key[fd] # Nil => slotFd[key[fd]] = fd

\* It holds for every number of clients.  One whose index equals the descriptor
\* of the listener is not heard, but not mistaken for another client either.
THEOREM NobodyMistakenAlways == Spec => []NobodyMistaken
<1>1. Init => IdentityInv
  BY DEF Init, IdentityInv, TableInv, NamesInv, Open, Slots
<1>2. IInv /\ IdentityInv => NobodyMistaken
  BY DEF IInv, BufInv, IdentityInv, TableInv, NamesInv, Named, NobodyMistaken
<1> QED BY <1>1, <1>2, IdentityStep, Invariance, PTL DEF Spec
=============================================================================
