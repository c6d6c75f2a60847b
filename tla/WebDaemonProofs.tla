-------------------------- MODULE WebDaemonProofs ---------------------------
(***************************************************************************)
(* Proofs about WebDaemon for every number of connections, every request   *)
(* and all sizes of the table and of the buffers.                          *)
(*                                                                         *)
(* Whatever events name the wrong slot, the table stays a table: its live  *)
(* slots belong to distinct open connections and hold just what has been   *)
(* received from them, and what is there is not a whole request yet.       *)
(***************************************************************************)
EXTENDS WebDaemon, FiniteSetTheorems, SequenceTheorems, TLAPS

Units    == Conns \X Nat
Clients  == [conn : Conns \cup {Nil}, buf : Seq(Units)]
Request  == [act : Acts, head : Nat \ {0}, body : Nat, cl : Nat \cup {Nil}]
Outcomes == [act : Acts, body : Seq(Units), did : BOOLEAN]
Event    == [key : Slots \cup {Srv}, src : Conns \cup {Srv}, hup : BOOLEAN]

Types ==
  /\ wild \in BOOLEAN /\ moved \in BOOLEAN
  /\ handled \in [Conns -> Seq(Outcomes)]
  /\ backlog \in Seq(Conns)
  /\ key \in [Conns -> Slots \cup {Nil}]
  /\ arrived \in [Conns -> Nat] /\ taken \in [Conns -> Nat]
  /\ peer \in [Conns -> {"new", "up", "closed", "reset"}]
  /\ req \in [Conns -> Request \cup {Nil}]

\* Each of the first n slots belongs to an open connection of its own.
Dense(s, n, o) ==
  /\ s \in [Slots -> Clients] /\ n \in -1 .. MaxClients /\ o \subseteq Conns
  /\ \A i \in 0 .. n - 1 : s[i].conn \in o
  /\ \A i, j \in 0 .. n - 1 : s[i].conn = s[j].conn => i = j

\* The first n units of a connection.
Bytes(c, n) == [k \in 1 .. n |-> <<c, k>>]

\* They are not a whole request, and not too many headers.
Waiting(c, n) ==
  IF req[c].head <= n THEN req[c].cl # Nil /\ n - req[c].head < req[c].cl
  ELSE n <= HeadMax

BufferInv ==
  \A i \in 0 .. num - 1 :
    LET c == slot[i].conn IN slot[i].buf = Bytes(c, taken[c]) /\ Waiting(c, taken[c])

ConnInv ==
  \A c \in Conns :
    /\ taken[c] <= arrived[c]
    /\ IF peer[c] = "new" THEN key[c] = Nil /\ handled[c] = <<>> /\ arrived[c] = 0
       ELSE req[c] \in Requests[c] /\ arrived[c] <= Total(req[c])
    /\ c \in open => key[c] \in Slots /\ handled[c] = <<>>

BacklogInv ==
  /\ \A i \in DOMAIN backlog :
       LET c == backlog[i]
       IN peer[c] # "new" /\ key[c] = Nil /\ handled[c] = <<>> /\ taken[c] = 0
  /\ \A i, j \in DOMAIN backlog : backlog[i] = backlog[j] => i = j

BatchInv ==
  \A e \in batch : e \in Event /\ (e.hup => e.src \in Conns /\ peer[e.src] = "reset")

SafeInv == /\ Types /\ Dense(slot, num, open) /\ BufferInv
           /\ ConnInv /\ BacklogInv /\ BatchInv /\ HandledAsSent

NoReset == \A c \in Conns : peer[c] # "reset"

\* Without resets no connection is open outside the table.
CountInv ==
  NoReset =>
    /\ \A c \in open : \E i \in 0 .. num - 1 : slot[i].conn = c
    /\ IsFiniteSet(open) /\ Cardinality(open) = num

\* While the daemon stays calm the keys are right, each event is about the
\* connection in its slot, and a connection was removed for a reason.
CalmInv ==
  Calm =>
    /\ \A i \in 0 .. num - 1 : key[slot[i].conn] = i
    /\ \A e \in batch : e.key # Srv => e.src \in open /\ e.key = key[e.src] /\ ~e.hup
    /\ \A c \in Conns \ open :
         key[c] # Nil => handled[c] # <<>> \/ Over(c) \/ ~Acceptable(req[c])

IInv == SafeInv /\ CountInv /\ CalmInv

-----------------------------------------------------------------------------
(* Buffers *)

LEMMA NilIsNew == Nil \notin Conns /\ Nil \notin Nat
BY NilAssumption

LEMMA MinOfOne == ASSUME NEW m \in Int PROVE Min({m}) = m
<1>1. m \in {m} /\ \A y \in {m} : m <= y
  OBVIOUS
<1>2. Min({m}) \in {m}
  BY <1>1 DEF Min
<1> QED BY <1>2

LEMMA MinOfTwo ==
  ASSUME NEW a \in Int, NEW b \in Int
  PROVE  Min({a, b}) \in Int /\ Min({a, b}) <= a /\ Min({a, b}) <= b
<1>1. \E x \in {a, b} : \A y \in {a, b} : x <= y
  <2>1. CASE a <= b
    BY <2>1
  <2>2. CASE ~(a <= b)
    BY <2>2
  <2> QED BY <2>1, <2>2
<1>2. Min({a, b}) \in {a, b} /\ \A y \in {a, b} : Min({a, b}) <= y
  BY <1>1 DEF Min
<1> QED BY <1>2

LEMMA BytesType ==
  ASSUME NEW c \in Conns, NEW n \in Nat
  PROVE  /\ Bytes(c, n) \in Seq(Units) /\ Len(Bytes(c, n)) = n
         /\ DOMAIN Bytes(c, n) = 1 .. n
         /\ \A k \in 1 .. n : Bytes(c, n)[k] = <<c, k>>
<1> DEFINE f == [k \in 1 .. n |-> <<c, k>>]
<1>1. f \in [1 .. n -> Units] /\ \A k \in 1 .. n : f[k] = <<c, k>>
  BY DEF Units
<1>2. Bytes(c, n) = f
  BY DEF Bytes
<1> HIDE DEF f
<1>3. f \in Seq(Units)
  BY <1>1, SeqDef
<1>4. Len(f) = n /\ DOMAIN f = 1 .. n
  BY <1>1, <1>3
<1> QED BY <1>1, <1>2, <1>3, <1>4

\* Receiving m more units adds them to the buffer.
LEMMA BytesGrow ==
  ASSUME NEW c \in Conns, NEW n \in Nat, NEW m \in Nat, NEW d,
         arrived[c] \in Nat, taken[c] = n, n + m <= arrived[c], d = SubSeq(Data(c), 1, m)
  PROVE  Bytes(c, n) \o d = Bytes(c, n + m)
<1> DEFINE f == [k \in 1 .. arrived[c] - n |-> <<c, n + k>>]
<1>1. Data(c) = f
  BY DEF Data
<1>2. f \in [1 .. arrived[c] - n -> Units] /\ \A k \in 1 .. arrived[c] - n : f[k] = <<c, n + k>>
  BY DEF Units
<1>3. arrived[c] - n \in Nat
  OBVIOUS
<1> HIDE DEF f
<1>4. f \in Seq(Units) /\ Len(f) = arrived[c] - n
  <2>1. f \in Seq(Units)
    BY <1>2, <1>3, SeqDef
  <2> QED BY <1>2, <1>3, <2>1
<1>5. d \in Seq(Units) /\ Len(d) = m /\ \A k \in 1 .. m : d[k] = <<c, n + k>>
  BY <1>1, <1>2, <1>3, <1>4
<1>6. /\ Bytes(c, n) \in Seq(Units) /\ Len(Bytes(c, n)) = n
      /\ \A k \in 1 .. n : Bytes(c, n)[k] = <<c, k>>
  BY BytesType
<1>7. /\ Bytes(c, n + m) \in Seq(Units) /\ Len(Bytes(c, n + m)) = n + m
      /\ \A k \in 1 .. n + m : Bytes(c, n + m)[k] = <<c, k>>
  <2>1. n + m \in Nat
    OBVIOUS
  <2> QED BY <2>1, BytesType
<1> DEFINE g == Bytes(c, n) \o d
<1>8. /\ g \in Seq(Units) /\ Len(g) = n + m
      /\ \A k \in 1 .. n + m : g[k] = IF k <= n THEN Bytes(c, n)[k] ELSE d[k - n]
  <2>1. g \in Seq(Units) /\ Len(g) = Len(Bytes(c, n)) + Len(d)
    BY <1>5, <1>6, ConcatProperties, Zenon
  <2>2. \A k \in 1 .. Len(Bytes(c, n)) + Len(d) :
          g[k] = IF k <= Len(Bytes(c, n)) THEN Bytes(c, n)[k] ELSE d[k - Len(Bytes(c, n))]
    BY <1>5, <1>6, ConcatProperties
  <2> QED BY <1>5, <1>6, <2>1, <2>2
<1> HIDE DEF g
<1>9. ASSUME NEW k \in 1 .. n + m PROVE g[k] = Bytes(c, n + m)[k]
  <2>1. CASE k <= n
    <3>1. k \in 1 .. n
      BY <2>1
    <3>2. g[k] = Bytes(c, n)[k] /\ Bytes(c, n)[k] = <<c, k>>
      BY <1>6, <1>8, <2>1, <3>1
    <3> QED BY <1>7, <3>2
  <2>2. CASE ~(k <= n)
    <3>1. k - n \in 1 .. m /\ n + (k - n) = k
      BY <2>2
    <3>2. g[k] = d[k - n] /\ d[k - n] = <<c, n + (k - n)>>
      BY <1>5, <1>8, <2>2, <3>1
    <3> QED BY <1>7, <3>1, <3>2
  <2> QED BY <2>1, <2>2
<1>10. g = Bytes(c, n + m)
  BY <1>7, <1>8, <1>9, SeqEqual
<1> QED BY <1>10 DEF g

\* The headers in a connection's bytes end where those of its request do.
LEMMA HeadersOf ==
  ASSUME NEW c \in Conns, NEW n \in Nat, req[c] \in Request
  PROVE  /\ HeadersEnd(Bytes(c, n)) = IF req[c].head <= n THEN req[c].head ELSE 0
         /\ req[c].head <= n => RequestIn(Bytes(c, n)) = req[c]
<1> DEFINE b == Bytes(c, n)
           ends == {i \in DOMAIN b : b[i][2] = req[b[i][1]].head}
<1>1. /\ req[c].head \in Nat /\ req[c].head >= 1
      /\ DOMAIN b = 1 .. n /\ \A k \in 1 .. n : b[k] = <<c, k>>
  <2>1. DOMAIN b = 1 .. n /\ \A k \in 1 .. n : b[k] = <<c, k>>
    BY BytesType
  <2>2. req[c].head \in Nat \ {0}
    BY DEF Request
  <2> QED BY <2>1, <2>2
<1>2. HeadersEnd(b) = IF ends = {} THEN 0 ELSE Min(ends)
  BY DEF HeadersEnd
<1>3. \A k \in DOMAIN b : b[k][1] = c /\ b[k][2] = k
  BY <1>1
<1>4. ends = {i \in 1 .. n : i = req[c].head}
  BY <1>1, <1>3
<1> HIDE DEF b
<1>5. CASE req[c].head <= n
  <2>1. ends = {req[c].head}
    BY <1>1, <1>4, <1>5
  <2>2. HeadersEnd(b) = req[c].head
    BY <1>1, <1>2, <2>1, MinOfOne
  <2>3. RequestIn(b) = req[c]
    BY <1>1, <1>3, <1>5, <2>2 DEF RequestIn
  <2> QED BY <1>5, <2>2, <2>3 DEF b
<1>6. CASE ~(req[c].head <= n)
  <2>1. ends = {}
    BY <1>1, <1>4, <1>6
  <2> QED BY <1>2, <1>6, <2>1 DEF b
<1> QED BY <1>5, <1>6

\* What is handled of a connection's bytes.
AsSent(c, h) ==
  /\ h.act = req[c].act
  /\ \A j \in DOMAIN h.body : h.body[j] = <<c, req[c].head + j>>
  /\ req[c].cl # Nil => Len(h.body) = req[c].cl
  /\ req[c].cl # Nil /\ req[c].act \in Controls =>
       (h.did <=> req[c].cl >= Needs[req[c].act])

LEMMA BodyOf ==
  ASSUME NEW c \in Conns, NEW n \in Nat, req[c] \in Request, req[c].head <= n,
         BodyHere(Bytes(c, n))
  PROVE  /\ Body(Bytes(c, n)) \in Seq(Units)
         /\ \A j \in DOMAIN Body(Bytes(c, n)) :
              Body(Bytes(c, n))[j] = <<c, req[c].head + j>>
         /\ req[c].cl # Nil => Len(Body(Bytes(c, n))) = req[c].cl
<1> DEFINE b == Bytes(c, n)
           h == req[c].head
           body == SubSeq(b, h + 1, Len(b))
           cl == req[c].cl
<1>1. /\ b \in Seq(Units) /\ Len(b) = n /\ \A k \in 1 .. n : b[k] = <<c, k>>
      /\ HeadersEnd(b) = h /\ RequestIn(b) = req[c]
      /\ h \in Nat /\ h <= n /\ cl \in Nat \cup {Nil} /\ Nil \notin Nat
  BY BytesType, HeadersOf, NilIsNew DEF Request
<1>2. /\ Body(b) = IF cl # Nil /\ cl < Len(body) THEN SubSeq(body, 1, cl) ELSE body
      /\ cl # Nil => n - h >= cl
  BY <1>1 DEF Body, BodyHere
<1> HIDE DEF b, h, cl
<1>3. /\ body \in Seq(Units) /\ Len(body) = n - h
      /\ \A j \in 1 .. n - h : body[j] = <<c, h + j>>
  BY <1>1
<1> HIDE DEF body
<1>4. CASE cl # Nil /\ cl < Len(body)
  <2>1. cl \in Nat /\ cl < n - h
    BY <1>1, <1>3, <1>4
  <2>2. Body(b) = SubSeq(body, 1, cl)
    BY <1>2, <1>4
  <2>3. /\ SubSeq(body, 1, cl) \in Seq(Units) /\ Len(SubSeq(body, 1, cl)) = cl
        /\ \A j \in 1 .. cl : SubSeq(body, 1, cl)[j] = body[j]
    BY <1>1, <1>3, <2>1
  <2>4. \A j \in 1 .. cl : SubSeq(body, 1, cl)[j] = <<c, h + j>>
    BY <1>1, <1>3, <2>1, <2>3
  <2>5. DOMAIN Body(b) = 1 .. cl
    BY <2>2, <2>3
  <2> QED BY <2>2, <2>3, <2>4, <2>5 DEF b, h, cl
<1>5. CASE ~(cl # Nil /\ cl < Len(body))
  <2>1. Body(b) = body /\ DOMAIN body = 1 .. n - h
    BY <1>2, <1>3, <1>5
  <2>2. cl # Nil => n - h = cl
    BY <1>1, <1>2, <1>3, <1>5
  <2> QED BY <1>3, <2>1, <2>2 DEF b, h, cl
<1> QED BY <1>4, <1>5

LEMMA NeedsType == ASSUME NEW a \in Controls PROVE Needs[a] \in Nat
BY DEF Controls, Needs, LedNeeds, GpioNeeds, RebootNeeds

LEMMA OutcomeOf ==
  ASSUME NEW c \in Conns, NEW n \in Nat, req[c] \in Request, req[c].head <= n,
         BodyHere(Bytes(c, n))
  PROVE  Outcome(Bytes(c, n)) \in Outcomes /\ AsSent(c, Outcome(Bytes(c, n)))
<1> DEFINE b == Bytes(c, n)
           body == Body(b)
           did == req[c].act \in Controls /\ Len(body) >= Needs[req[c].act]
<1>1. /\ body \in Seq(Units)
      /\ \A j \in DOMAIN body : body[j] = <<c, req[c].head + j>>
      /\ req[c].cl # Nil => Len(body) = req[c].cl
  BY BodyOf
<1>2. Outcome(b) = [act |-> req[c].act, body |-> body, did |-> did]
  BY HeadersOf DEF Outcome
<1>3. did \in BOOLEAN
  OBVIOUS
<1> HIDE DEF b, body
<1>4. Outcome(b) \in Outcomes
  BY <1>1, <1>2, <1>3 DEF Outcomes, Request
<1>5. Outcome(b).act = req[c].act /\ Outcome(b).body = body /\ (Outcome(b).did <=> did)
  <2> HIDE DEF did
  <2>1. CASE did = TRUE
    BY <1>2, <2>1
  <2>2. CASE did = FALSE
    BY <1>2, <2>2
  <2> QED BY <1>3, <2>1, <2>2
<1>6. AsSent(c, Outcome(b))
  BY <1>1, <1>5 DEF AsSent
<1> QED BY <1>4, <1>6 DEF b

LEMMA WaitingOf ==
  ASSUME NEW c \in Conns, NEW n \in Nat, req[c] \in Request,
         IF HeadersEnd(Bytes(c, n)) > 0 THEN ~BodyHere(Bytes(c, n)) ELSE Len(Bytes(c, n)) <= HeadMax
  PROVE  Waiting(c, n)
<1>1. req[c].head \in Nat /\ req[c].head >= 1 /\ Len(Bytes(c, n)) = n
  BY BytesType DEF Request
<1>2. CASE req[c].head <= n
  <2>1. /\ HeadersEnd(Bytes(c, n)) = req[c].head
        /\ RequestIn(Bytes(c, n)) = req[c]
    BY <1>2, HeadersOf
  <2>2. ~BodyHere(Bytes(c, n))
    BY <1>1, <2>1
  <2>3. req[c].cl # Nil /\ ~(n - req[c].head >= req[c].cl)
    BY <1>1, <2>1, <2>2 DEF BodyHere
  <2>4. req[c].cl \in Nat
    BY <2>3 DEF Request
  <2> QED BY <1>1, <1>2, <2>3, <2>4 DEF Waiting
<1>3. CASE ~(req[c].head <= n)
  <2>1. HeadersEnd(Bytes(c, n)) = 0
    BY <1>3, HeadersOf
  <2> QED BY <1>1, <1>3, <2>1 DEF Waiting
<1> QED BY <1>2, <1>3

\* A request that will do is not waiting once it is there.
LEMMA WholeNotWaiting ==
  ASSUME NEW c \in Conns, req[c] \in Request, Acceptable(req[c]), Waiting(c, Total(req[c]))
  PROVE  FALSE
<1>1. /\ req[c].head \in Nat /\ req[c].body \in Nat /\ req[c].cl \in Nat \cup {Nil}
      /\ Total(req[c]) = req[c].head + req[c].body
  BY DEF Request, Total
<1>2. req[c].cl # Nil => req[c].cl <= req[c].body
  BY DEF Acceptable
<1>3. req[c].cl # Nil /\ Total(req[c]) - req[c].head < req[c].cl
  BY <1>1 DEF Waiting
<1> QED BY <1>1, <1>2, <1>3

-----------------------------------------------------------------------------
(* The table *)

Shifted(s, n, i) == [j \in Slots |-> IF i <= j /\ j < n - 1 THEN s[j + 1] ELSE s[j]]

\* The table as RemoveClient takes it.
Triple(s, n, o) == [slot |-> s, num |-> n, open |-> o]

LEMMA RemovedIs ==
  ASSUME NEW s, NEW n, NEW o, NEW i
  PROVE  Removed(Triple(s, n, o), i) = Triple(Shifted(s, n, i), n - 1, o \ {s[i].conn})
BY DEF Removed, Shifted, Triple

LEMMA ShiftedLive ==
  ASSUME NEW s, NEW n, NEW o, Dense(s, n, o), NEW i \in 0 .. n - 1
  PROVE  /\ Dense(Shifted(s, n, i), n - 1, o \ {s[i].conn})
         /\ \A j \in 0 .. n - 2 : \E k \in 0 .. n - 1 : k # i /\ Shifted(s, n, i)[j] = s[k]
         /\ \A k \in 0 .. n - 1 : k # i => \E j \in 0 .. n - 2 : Shifted(s, n, i)[j] = s[k]
         /\ i = n - 1 => Shifted(s, n, i) = s
<1> DEFINE r == Shifted(s, n, i)
<1>1. /\ s \in [Slots -> Clients] /\ n \in 0 .. MaxClients /\ n \in Int /\ o \subseteq Conns
      /\ \A k \in 0 .. n - 1 : s[k].conn \in o
      /\ \A k, m \in 0 .. n - 1 : s[k].conn = s[m].conn => k = m
      /\ i \in Int /\ 0 <= i /\ i <= n - 1
  BY CapsAssumption DEF Dense
<1>2. 0 .. n - 1 \subseteq Slots
  BY <1>1, CapsAssumption DEF Slots
<1>4. r = [j \in Slots |-> IF i <= j /\ j < n - 1 THEN s[j + 1] ELSE s[j]]
  BY DEF Shifted
<1> HIDE DEF r
<1>5. /\ DOMAIN r = Slots
      /\ \A j \in Slots : r[j] = IF i <= j /\ j < n - 1 THEN s[j + 1] ELSE s[j]
  BY <1>4
<1>6. r \in [Slots -> Clients]
  <2>1. \A j \in Slots : i <= j /\ j < n - 1 => j + 1 \in Slots
    BY <1>1, CapsAssumption DEF Slots
  <2> QED BY <1>1, <1>4, <2>1
\* Where the client in slot j was.
<1> DEFINE was(j) == IF i <= j THEN j + 1 ELSE j
<1>7. ASSUME NEW j \in 0 .. n - 2
      PROVE  was(j) \in 0 .. n - 1 /\ was(j) # i /\ r[j] = s[was(j)]
  <2>1. j \in Slots /\ j < n - 1
    BY <1>1, <1>2
  <2> QED BY <1>1, <1>5, <2>1
<1>8. \A j, m \in 0 .. n - 2 : was(j) = was(m) => j = m
  BY <1>1
<1>9. Dense(r, n - 1, o \ {s[i].conn})
  <2>1. \A j \in 0 .. n - 2 : r[j].conn \in o \ {s[i].conn}
    BY <1>1, <1>7
  <2>2. ASSUME NEW j \in 0 .. n - 2, NEW m \in 0 .. n - 2, r[j].conn = r[m].conn
        PROVE  j = m
    <3>1. was(j) = was(m)
      <4> HIDE DEF was
      <4> QED BY <1>1, <1>7, <2>2
    <3> QED BY <1>8, <3>1
  <2>3. n - 1 \in -1 .. MaxClients /\ (n - 1) - 1 = n - 2
    BY <1>1, CapsAssumption
  <2> QED BY <1>1, <1>6, <2>1, <2>2, <2>3 DEF Dense
<1>10. \A j \in 0 .. n - 2 : \E k \in 0 .. n - 1 : k # i /\ r[j] = s[k]
  <2> HIDE DEF was
  <2> QED BY <1>7
<1>11. ASSUME NEW k \in 0 .. n - 1, k # i
       PROVE  \E j \in 0 .. n - 2 : r[j] = s[k]
  <2> DEFINE now == IF k > i THEN k - 1 ELSE k
  <2>1. now \in 0 .. n - 2 /\ was(now) = k
    BY <1>1, <1>11
  <2> HIDE DEF now, was
  <2> QED BY <1>7, <2>1
<1>12. ASSUME i = n - 1 PROVE r = s
  <2>1. \A j \in Slots : r[j] = s[j]
    BY <1>1, <1>5, <1>12 DEF Slots
  <2> QED BY <1>1, <1>6, <2>1
<1> QED BY <1>9, <1>10, <1>11, <1>12 DEF r

\* Removing once more behind the end drops the last client from the table.
LEMMA ShiftedDead ==
  ASSUME NEW s, NEW n \in Nat, NEW o, Dense(s, n, o), n \in Slots
  PROVE  /\ Shifted(s, n, n) = s
         /\ Dense(s, n - 1, o \ {s[n].conn}) \/ \E k \in 0 .. n - 1 : s[k].conn = s[n].conn
<1>1. s \in [Slots -> Clients] /\ o \subseteq Conns
  BY DEF Dense
<1>2. \A j \in Slots : ~(n <= j /\ j < n - 1)
  BY DEF Slots
<1>3. Shifted(s, n, n) = s
  BY <1>1, <1>2 DEF Shifted
<1>4. ASSUME \A k \in 0 .. n - 1 : s[k].conn # s[n].conn
      PROVE  Dense(s, n - 1, o \ {s[n].conn})
  <2>1. n - 1 \in -1 .. MaxClients
    BY CapsAssumption DEF Slots
  <2>2. \A j \in 0 .. (n - 1) - 1 : j \in 0 .. n - 1
    OBVIOUS
  <2> QED BY <1>1, <1>4, <2>1, <2>2 DEF Dense
<1> QED BY <1>3, <1>4

LEMMA RemoveTable ==
  ASSUME NEW s, NEW n, NEW o, Dense(s, n, o), NEW i \in 0 .. n - 1, NEW hup \in BOOLEAN,
         RemoveClient(Triple(s, n, o), i, hup)
  PROVE  /\ Dense(slot', num', open') /\ open' \subseteq o \ {s[i].conn}
         /\ \A j \in 0 .. num' - 1 : \E k \in 0 .. n - 1 : k # i /\ slot'[j] = s[k]
         /\ ~hup => /\ num' = n - 1 /\ open' = o \ {s[i].conn}
                    /\ \A k \in 0 .. n - 1 : k # i => \E j \in 0 .. n - 2 : slot'[j] = s[k]
         /\ moved' \in BOOLEAN /\ (~moved' => ~moved /\ i = n - 1)
         /\ ~hup /\ i = n - 1 => slot' = s
<1>1. PICK s1, o1 : s1 = Shifted(s, n, i) /\ o1 = o \ {s[i].conn}
  OBVIOUS
<1> DEFINE once == Triple(s1, n - 1, o1)
<1>2. /\ Dense(s1, n - 1, o1)
      /\ \A j \in 0 .. n - 2 : \E k \in 0 .. n - 1 : k # i /\ s1[j] = s[k]
      /\ \A k \in 0 .. n - 1 : k # i => \E j \in 0 .. n - 2 : s1[j] = s[k]
      /\ i = n - 1 => s1 = s
  BY <1>1, ShiftedLive
<1>3. n \in Int /\ i \in Int /\ i <= n - 1 /\ 0 <= i /\ n <= MaxClients /\ MaxClients \in Nat
  BY CapsAssumption DEF Dense
<1>4. Removed(Triple(s, n, o), i) = once
  BY <1>1, RemovedIs
<1>5. \E left \in {IF hup THEN Removed(once, i) ELSE once} :
        /\ slot' = left.slot /\ num' = left.num /\ open' = left.open
        /\ moved' = (moved \/ i < n - 1 \/ (hup /\ i < (n - 1) - 1))
  BY <1>4 DEF RemoveClient, Triple
<1>6. moved' \in BOOLEAN /\ (~moved' => ~moved /\ i = n - 1)
  <2>0. moved' \in BOOLEAN
    BY <1>5
  <2>1. ~moved' => ~moved /\ ~(i < n - 1)
    BY <1>5
  <2> QED BY <1>3, <2>0, <2>1
<1>7. CASE ~hup
  <2>1. slot' = s1 /\ num' = n - 1 /\ open' = o1
    BY <1>5, <1>7 DEF Triple
  <2>2. (n - 1) - 1 = n - 2
    BY <1>3
  <2> QED BY <1>1, <1>2, <1>6, <1>7, <2>1, <2>2
<1>8. CASE hup
  <2>1. PICK m : m = n - 1
    OBVIOUS
  <2>2. Removed(once, i) = Triple(Shifted(s1, m, i), m - 1, o1 \ {s1[i].conn})
    BY <2>1, RemovedIs
  <2>3. slot' = Shifted(s1, m, i) /\ num' = m - 1 /\ open' = o1 \ {s1[i].conn}
    BY <1>5, <1>8, <2>2 DEF Triple
  <2>4. Dense(s1, m, o1)
    BY <1>2, <2>1
  <2>5. CASE i < n - 1
    <3>1. i \in 0 .. m - 1
      BY <1>3, <2>1, <2>5
    <3>2. /\ Dense(slot', m - 1, o1 \ {s1[i].conn})
          /\ \A j \in 0 .. m - 2 : \E k \in 0 .. m - 1 : k # i /\ slot'[j] = s1[k]
      BY <2>3, <2>4, <3>1, ShiftedLive
    <3>3. \A j \in 0 .. num' - 1 : \E k \in 0 .. n - 1 : k # i /\ slot'[j] = s[k]
      <4> SUFFICES ASSUME NEW j \in 0 .. num' - 1
                   PROVE  \E k \in 0 .. n - 1 : k # i /\ slot'[j] = s[k]
        OBVIOUS
      <4>1. j \in 0 .. m - 2 /\ 0 .. m - 1 = 0 .. n - 2
        BY <1>3, <2>1, <2>3
      <4>2. PICK k \in 0 .. n - 2 : slot'[j] = s1[k]
        BY <3>2, <4>1
      <4> QED BY <1>2, <4>2
    <3> QED BY <1>1, <1>6, <1>8, <2>3, <3>2, <3>3
  <2>6. CASE i = n - 1
    <3>1. s1 = s /\ m = i
      BY <1>2, <2>1, <2>6
    <3>2. m \in Nat /\ m \in Slots
      BY <1>3, <3>1 DEF Slots
    <3>3. ~\E k \in 0 .. m - 1 : s[k].conn = s[m].conn
      BY <1>3, <3>1 DEF Dense
    <3>4. slot' = s /\ Dense(slot', m - 1, o1 \ {s1[i].conn})
      BY <2>3, <2>4, <3>1, <3>2, <3>3, ShiftedDead
    <3>5. \A j \in 0 .. num' - 1 : j \in 0 .. n - 1 /\ j # i
      BY <1>3, <2>3, <3>1
    <3> QED BY <1>1, <1>6, <1>8, <2>3, <3>1, <3>4, <3>5
  <2> QED BY <1>3, <2>5, <2>6
<1> QED BY <1>7, <1>8

-----------------------------------------------------------------------------
(* The steps *)

LEMMA SlotsNat == /\ Slots \subseteq Nat /\ Nil \notin Slots
                  /\ \A i \in Slots : i \in Int /\ 0 <= i /\ i < MaxClients
BY NilIsNew, CapsAssumption DEF Slots

LEMMA RequestOf ==
  ASSUME ConnInv, NEW c \in Conns, peer[c] # "new"
  PROVE  req[c] \in Request /\ Total(req[c]) \in Nat /\ arrived[c] <= Total(req[c])
<1>1. req[c] \in Requests[c] /\ arrived[c] <= Total(req[c])
  BY DEF ConnInv
<1>2. req[c] \in Request
  BY <1>1, RequestsAssumption DEF Request
<1>3. req[c].head \in Nat /\ req[c].body \in Nat
  BY <1>2 DEF Request
<1> QED BY <1>1, <1>2, <1>3 DEF Total

\* An open connection is not in the backlog, and neither of them is new.
LEMMA OpenKnown ==
  ASSUME SafeInv, NEW c \in open
  PROVE  c \in Conns /\ peer[c] # "new" /\ \A i \in DOMAIN backlog : backlog[i] # c
<1>1. c \in Conns /\ key[c] \in Slots
  BY DEF SafeInv, Dense, ConnInv
<1>2. key[c] # Nil
  BY <1>1, SlotsNat
<1> QED BY <1>1, <1>2 DEF SafeInv, ConnInv, BacklogInv

LEMMA InitHolds == Init => IInv
<1> SUFFICES ASSUME Init PROVE IInv
  OBVIOUS
<1> USE DEF Init
<1>1. Types
  <2>1. wild \in BOOLEAN /\ moved \in BOOLEAN
    OBVIOUS
  <2>2. handled \in [Conns -> Seq(Outcomes)] /\ backlog \in Seq(Conns)
    OBVIOUS
  <2>3. /\ key \in [Conns -> Slots \cup {Nil}]
        /\ arrived \in [Conns -> Nat] /\ taken \in [Conns -> Nat]
        /\ peer \in [Conns -> {"new", "up", "closed", "reset"}]
        /\ req \in [Conns -> Request \cup {Nil}]
    OBVIOUS
  <2> QED BY <2>1, <2>2, <2>3 DEF Types
<1>2. Dense(slot, num, open)
  <2>1. \A i \in 0 .. num - 1 : FALSE
    OBVIOUS
  <2>2. slot \in [Slots -> Clients]
    BY DEF Clients
  <2>3. num \in -1 .. MaxClients
    BY CapsAssumption
  <2> QED BY <2>1, <2>2, <2>3 DEF Dense
<1>3. BufferInv
  BY DEF BufferInv
<1>4. ConnInv
  BY DEF ConnInv
<1>5. BacklogInv /\ BatchInv
  BY DEF BacklogInv, BatchInv
<1>6. HandledAsSent
  <2>1. \A c \in Conns : Len(handled[c]) = 0 /\ Range(handled[c]) = {}
    BY DEF Range
  <2> QED BY <2>1 DEF HandledAsSent
<1>7. CountInv
  BY FS_EmptySet DEF CountInv
<1>8. CalmInv
  BY DEF CalmInv
<1> QED BY <1>1, <1>2, <1>3, <1>4, <1>5, <1>6, <1>7, <1>8 DEF IInv, SafeInv

LEMMA ConnectStep ==
  ASSUME IInv, NEW c \in Conns, Connect(c)
  PROVE  IInv'
<1> USE DEF IInv, SafeInv
<1>1. /\ peer[c] = "new" /\ peer' = [peer EXCEPT ![c] = "up"]
      /\ backlog' = Append(backlog, c)
      /\ UNCHANGED <<slot, num, wild, moved, batch, handled, open, key, taken, arrived>>
  BY DEF Connect, tableVars
<1>2. PICK r \in Requests[c] : req' = [req EXCEPT ![c] = r]
  BY DEF Connect
<1>3. r \in Request /\ Total(r) \in Nat
  <2>1. r \in Request
    BY RequestsAssumption DEF Request
  <2>2. r.head \in Nat /\ r.body \in Nat
    BY <2>1 DEF Request
  <2> QED BY <2>1, <2>2 DEF Total
<1>4. key[c] = Nil /\ handled[c] = <<>> /\ arrived[c] = 0 /\ taken[c] = 0
  BY <1>1 DEF ConnInv, Types
<1>5. c \notin open /\ \A i \in DOMAIN backlog : backlog[i] # c
  BY <1>1, OpenKnown DEF BacklogInv
<1>6. /\ \A d \in Conns : d # c => peer'[d] = peer[d] /\ req'[d] = req[d]
      /\ peer'[c] = "up" /\ req'[c] = r
  BY <1>1, <1>2 DEF Types
<1>7. Types'
  BY <1>1, <1>2, <1>3 DEF Types
<1>8. Dense(slot, num, open)'
  BY <1>1 DEF Dense
<1>9. BufferInv'
  <2> SUFFICES ASSUME NEW i \in 0 .. num - 1
               PROVE  /\ slot[i].buf = Bytes(slot[i].conn, taken[slot[i].conn])
                      /\ Waiting(slot[i].conn, taken[slot[i].conn])'
    BY <1>1 DEF BufferInv
  <2>1. slot[i].conn \in Conns /\ slot[i].conn # c
    BY <1>5 DEF Dense
  <2>2. req'[slot[i].conn] = req[slot[i].conn]
    BY <1>6, <2>1
  <2> QED BY <1>1, <2>2 DEF BufferInv, Waiting
<1>10. ConnInv'
  <2> SUFFICES ASSUME NEW d \in Conns
               PROVE  /\ taken[d] <= arrived[d]
                      /\ IF peer'[d] = "new"
                         THEN key[d] = Nil /\ handled[d] = <<>> /\ arrived[d] = 0
                         ELSE req'[d] \in Requests[d] /\ arrived[d] <= Total(req'[d])
                      /\ d \in open => key[d] \in Slots /\ handled[d] = <<>>
    BY <1>1 DEF ConnInv
  <2>1. CASE d = c
    BY <1>3, <1>4, <1>5, <1>6, <2>1
  <2>2. CASE d # c
    BY <1>6, <2>2 DEF ConnInv
  <2> QED BY <2>1, <2>2
<1>11. BacklogInv'
  <2> DEFINE q == Append(backlog, c)
  <2>1. backlog \in Seq(Conns)
    BY DEF Types
  <2>2. /\ Len(q) = Len(backlog) + 1 /\ q[Len(q)] = c /\ DOMAIN q = 1 .. Len(backlog) + 1
        /\ \A i \in 1 .. Len(backlog) : q[i] = backlog[i]
    BY <2>1
  <2>3. Len(backlog) \in Nat /\ DOMAIN backlog = 1 .. Len(backlog)
    BY <2>1
  <2> HIDE DEF q
  <2>4. \A i \in DOMAIN q :
          q[i] = c \/ (i \in DOMAIN backlog /\ q[i] = backlog[i] /\ q[i] \in Conns)
    BY <2>1, <2>2, <2>3
  <2>5. \A i \in DOMAIN q : q[i] = c => i = Len(q)
    BY <1>5, <2>2, <2>3
  <2>6. \A i \in DOMAIN q :
          /\ peer'[q[i]] # "new" /\ key[q[i]] = Nil /\ handled[q[i]] = <<>> /\ taken[q[i]] = 0
    BY <1>4, <1>5, <1>6, <2>4 DEF BacklogInv
  <2>7. \A i, j \in DOMAIN q : q[i] = q[j] => i = j
    BY <1>5, <2>4, <2>5 DEF BacklogInv
  <2>8. backlog' = q
    BY <1>1 DEF q
  <2> QED BY <1>1, <2>6, <2>7, <2>8 DEF BacklogInv
<1>12. BatchInv'
  BY <1>1, <1>6 DEF BatchInv
<1>13. HandledAsSent'
  <2> SUFFICES ASSUME NEW d \in Conns
               PROVE  Len(handled[d]) <= 1 /\ \A h \in Range(handled[d]) : AsSent(d, h)'
    BY <1>1 DEF HandledAsSent, AsSent
  <2>1. CASE d = c
    BY <1>4, <2>1 DEF Range
  <2>2. CASE d # c
    BY <1>6, <2>2 DEF HandledAsSent, AsSent
  <2> QED BY <2>1, <2>2
<1>14. CountInv'
  BY <1>1, <1>6 DEF CountInv, NoReset
<1>15. CalmInv'
  <2>1. Calm' => Calm
    BY <1>1, <1>6 DEF Calm
  <2>2. \A d \in Conns : d # c => (Over(d)' <=> Over(d))
    BY <1>6 DEF Over
  <2> QED BY <1>1, <1>4, <1>6, <2>1, <2>2 DEF CalmInv
<1> QED BY <1>7, <1>8, <1>9, <1>10, <1>11, <1>12, <1>13, <1>14, <1>15

\* What the other side does to an established connection: it sends, closes or
\* resets.
LEMMA PeerStep ==
  ASSUME IInv, NEW c \in Conns, Send(c) \/ Close(c) \/ Reset(c)
  PROVE  IInv'
<1> USE DEF IInv, SafeInv
<1>1. /\ peer[c] = "up"
      /\ UNCHANGED <<slot, num, wild, moved, batch, handled, backlog, open, key, taken, req>>
  BY DEF Send, Close, Reset, Connected, tableVars, netVars
<1>2. /\ arrived' \in [Conns -> Nat] /\ \A d \in Conns : arrived[d] <= arrived'[d]
      /\ \A d \in Conns : d # c => arrived'[d] = arrived[d]
      /\ arrived'[c] <= Total(req[c])
  <2>1. req[c] \in Request /\ Total(req[c]) \in Nat /\ arrived[c] <= Total(req[c])
    BY <1>1, RequestOf
  <2>2. CASE Send(c)
    BY <2>1, <2>2 DEF Send, Types
  <2>3. CASE Close(c) \/ Reset(c)
    BY <2>1, <2>3 DEF Close, Reset, Types
  <2> QED BY <2>2, <2>3
<1>3. /\ peer' \in [Conns -> {"new", "up", "closed", "reset"}]
      /\ \A d \in Conns : d # c => peer'[d] = peer[d]
      /\ peer'[c] # "new"
  BY <1>1 DEF Send, Close, Reset, Types
<1>4. Types'
  BY <1>1, <1>2, <1>3 DEF Types
<1>5. Dense(slot, num, open)' /\ BufferInv'
  BY <1>1 DEF Dense, BufferInv, Waiting
<1>6. ConnInv'
  <2> SUFFICES ASSUME NEW d \in Conns
               PROVE  /\ taken[d] <= arrived'[d]
                      /\ IF peer'[d] = "new"
                         THEN key[d] = Nil /\ handled[d] = <<>> /\ arrived'[d] = 0
                         ELSE req[d] \in Requests[d] /\ arrived'[d] <= Total(req[d])
                      /\ d \in open => key[d] \in Slots /\ handled[d] = <<>>
    BY <1>1 DEF ConnInv
  <2>1. taken[d] \in Nat /\ arrived[d] \in Nat /\ arrived'[d] \in Nat
    BY <1>2 DEF Types
  <2>2. taken[d] <= arrived'[d]
    BY <1>2, <2>1 DEF ConnInv
  <2>3. CASE d = c
    BY <1>1, <1>2, <1>3, <2>2, <2>3 DEF ConnInv
  <2>4. CASE d # c
    BY <1>2, <1>3, <2>2, <2>4 DEF ConnInv
  <2> QED BY <2>3, <2>4
<1>7. BacklogInv'
  <2>1. \A i \in DOMAIN backlog : backlog[i] \in Conns
    BY DEF Types
  <2> QED BY <1>1, <1>3, <2>1 DEF BacklogInv
<1>8. BatchInv'
  BY <1>1, <1>3 DEF BatchInv
<1>9. HandledAsSent'
  BY <1>1 DEF HandledAsSent
<1>10. NoReset' => NoReset
  BY <1>1, <1>3 DEF NoReset
<1>11. CountInv'
  BY <1>1, <1>10 DEF CountInv
<1>12. CalmInv'
  <2>1. Calm' => Calm
    BY <1>1, <1>10 DEF Calm, NoReset
  <2>2. \A d \in Conns : Over(d) => Over(d)'
    BY <1>1, <1>3 DEF Over
  <2> QED BY <1>1, <2>1, <2>2 DEF CalmInv
<1> QED BY <1>4, <1>5, <1>6, <1>7, <1>8, <1>9, <1>11, <1>12

LEMMA EpollWaitStep == ASSUME IInv, EpollWait PROVE IInv'
<1> USE DEF IInv, SafeInv
<1>1. /\ batch' = Ready
      /\ UNCHANGED <<slot, num, wild, moved, handled, backlog, open, key, taken,
                     arrived, peer, req>>
  BY DEF EpollWait, tableVars, netVars, peerVars
<1>2. ASSUME NEW e \in Ready
      PROVE  /\ e \in Event /\ (e.hup => e.src \in Conns /\ peer[e.src] = "reset")
             /\ e.key # Srv => e.src \in open /\ e.key = key[e.src]
  <2>1. CASE e = [key |-> Srv, src |-> Srv, hup |-> FALSE]
    BY <2>1 DEF Event
  <2>2. ASSUME NEW c \in open, e = [key |-> key[c], src |-> c, hup |-> peer[c] = "reset"]
        PROVE  /\ e \in Event /\ (e.hup => e.src \in Conns /\ peer[e.src] = "reset")
               /\ e.src \in open /\ e.key = key[e.src]
    <3>1. c \in Conns /\ key[c] \in Slots
      BY DEF Dense, ConnInv
    <3>2. CASE peer[c] = "reset"
      <4>1. e = [key |-> key[c], src |-> c, hup |-> TRUE]
        BY <2>2, <3>2
      <4> QED BY <3>1, <3>2, <4>1 DEF Event
    <3>3. CASE peer[c] # "reset"
      <4>1. e = [key |-> key[c], src |-> c, hup |-> FALSE]
        BY <2>2, <3>3
      <4> QED BY <3>1, <3>3, <4>1 DEF Event
    <3> QED BY <3>2, <3>3
  <2> QED BY <2>1, <2>2 DEF Ready
<1>3. BatchInv'
  BY <1>1, <1>2 DEF BatchInv
<1>4. CalmInv'
  <2> SUFFICES ASSUME Calm'
               PROVE  /\ \A i \in 0 .. num - 1 : key[slot[i].conn] = i
                      /\ \A e \in Ready :
                           e.key # Srv => e.src \in open /\ e.key = key[e.src] /\ ~e.hup
                      /\ \A c \in Conns \ open :
                           key[c] # Nil => handled[c] # <<>> \/ Over(c) \/ ~Acceptable(req[c])
    BY <1>1 DEF CalmInv, Over
  <2>1. Calm
    BY <1>1 DEF Calm
  <2>2. \A e \in Ready : ~e.hup
    BY <1>2, <2>1 DEF Calm
  <2> QED BY <1>2, <2>1, <2>2 DEF CalmInv
<1>5. Types' /\ Dense(slot, num, open)' /\ BufferInv' /\ ConnInv' /\ BacklogInv'
  BY <1>1 DEF Types, Dense, BufferInv, Waiting, ConnInv, BacklogInv
<1>6. HandledAsSent' /\ CountInv'
  BY <1>1 DEF HandledAsSent, CountInv, NoReset
<1> QED BY <1>3, <1>4, <1>5, <1>6

LEMMA PassOverStep == ASSUME IInv, PassOver PROVE IInv'
<1> USE DEF IInv, SafeInv
<1>1. /\ batch' \subseteq batch
      /\ UNCHANGED <<slot, num, wild, moved, handled, backlog, open, key, taken,
                     arrived, peer, req>>
  BY DEF PassOver, tableVars, netVars, peerVars
<1>2. Types' /\ Dense(slot, num, open)' /\ BufferInv' /\ ConnInv' /\ BacklogInv' /\ BatchInv'
  BY <1>1 DEF Types, Dense, BufferInv, Waiting, ConnInv, BacklogInv, BatchInv
<1>3. HandledAsSent' /\ CountInv'
  BY <1>1 DEF HandledAsSent, CountInv, NoReset
<1>4. CalmInv'
  BY <1>1 DEF CalmInv, Calm, Over
<1> QED BY <1>2, <1>3, <1>4

LEMMA AcceptStep == ASSUME IInv, Accept PROVE IInv'
<1> USE DEF IInv, SafeInv
<1> DEFINE c == Head(backlog)
<1>1. /\ backlog # <<>> /\ backlog' = Tail(backlog) /\ batch' \subseteq batch
      /\ UNCHANGED <<handled, moved, taken, arrived, peer, req>>
  BY DEF Accept, peerVars
<1>2. /\ c \in Conns /\ Tail(backlog) \in Seq(Conns) /\ c = backlog[1]
      /\ DOMAIN backlog = 1 .. Len(backlog) /\ Len(backlog) \in Nat /\ Len(backlog) >= 1
      /\ DOMAIN Tail(backlog) = 1 .. Len(backlog) - 1
      /\ \A i \in 1 .. Len(backlog) - 1 : Tail(backlog)[i] = backlog[i + 1]
  <2>1. backlog \in Seq(Conns) /\ backlog # <<>>
    BY <1>1 DEF Types
  <2>2. Tail(backlog) \in Seq(Conns) /\ Len(Tail(backlog)) = Len(backlog) - 1
    BY <2>1
  <2> QED BY <2>1, <2>2
<1>3. /\ peer[c] # "new" /\ key[c] = Nil /\ handled[c] = <<>> /\ taken[c] = 0
      /\ \A i \in 1 .. Len(backlog) - 1 : backlog[i + 1] # c
  <2>1. /\ 1 \in DOMAIN backlog
        /\ \A i \in 1 .. Len(backlog) - 1 : i + 1 \in DOMAIN backlog /\ i + 1 # 1
    BY <1>2
  <2> QED BY <1>2, <2>1 DEF BacklogInv
<1>4. c \notin open
  BY <1>2, <1>3, SlotsNat DEF ConnInv
<1>5. req[c] \in Request /\ req[c].head >= 1
  <2>1. req[c] \in Request
    BY <1>2, <1>3, RequestOf
  <2>2. req[c].head \in Nat \ {0}
    BY <2>1 DEF Request
  <2> QED BY <2>1, <2>2
<1> HIDE DEF c
<1>6. /\ \A i \in DOMAIN backlog' :
           LET d == backlog'[i]
           IN /\ d \in Conns /\ d # c
              /\ peer[d] # "new" /\ key[d] = Nil /\ handled[d] = <<>> /\ taken[d] = 0
      /\ \A i, j \in DOMAIN backlog' : backlog'[i] = backlog'[j] => i = j
  <2>1. \A i \in DOMAIN backlog' :
          i + 1 \in DOMAIN backlog /\ i \in Int /\ backlog'[i] = backlog[i + 1]
    BY <1>1, <1>2
  <2>2. \A i \in DOMAIN backlog' : backlog'[i] # c
    BY <1>1, <1>2, <1>3
  <2>3. \A i \in DOMAIN backlog : backlog[i] \in Conns
    BY DEF Types
  <2>4. \A i, j \in DOMAIN backlog' : backlog'[i] = backlog'[j] => i + 1 = j + 1
    BY <2>1 DEF BacklogInv
  <2>5. \A i, j \in DOMAIN backlog' : i + 1 = j + 1 => i = j
    BY <2>1
  <2> QED BY <2>1, <2>2, <2>3, <2>4, <2>5 DEF BacklogInv
<1>7. ASSUME UNCHANGED <<slot, num, open, key>>, wild' \in BOOLEAN PROVE IInv'
  <2>1. Types' /\ Dense(slot, num, open)' /\ BufferInv' /\ ConnInv' /\ BatchInv'
    BY <1>1, <1>2, <1>7 DEF Types, Dense, BufferInv, Waiting, ConnInv, BatchInv
  <2>2. BacklogInv'
    BY <1>1, <1>6, <1>7 DEF BacklogInv
  <2>3. HandledAsSent' /\ CountInv'
    BY <1>1, <1>7 DEF HandledAsSent, CountInv, NoReset
  <2>4. CalmInv'
    BY <1>1, <1>7 DEF CalmInv, Calm, Over
  <2> QED BY <2>1, <2>2, <2>3, <2>4
<1>8. ASSUME num \in Slots, key' = [key EXCEPT ![c] = num], slot' = [slot EXCEPT ![num] = Fresh(c)],
             num' = num + 1, open' = open \cup {c}, wild' = wild
      PROVE  IInv'
  <2>1. /\ num \in Nat /\ num' - 1 = num /\ num' \in 1 .. MaxClients
        /\ 0 .. num' - 1 = (0 .. num - 1) \cup {num} /\ 0 .. num - 1 \subseteq Slots \ {num}
    BY <1>8, CapsAssumption DEF Slots
  <2>2. /\ slot' \in [Slots -> Clients] /\ slot'[num].conn = c /\ slot'[num].buf = <<>>
        /\ \A i \in 0 .. num - 1 : slot'[i] = slot[i]
    <3>1. Fresh(c) \in Clients /\ Fresh(c).conn = c /\ Fresh(c).buf = <<>>
      BY <1>2 DEF Fresh, Clients
    <3> QED BY <1>8, <2>1, <3>1 DEF Dense
  <2>3. \A i \in 0 .. num - 1 : slot[i].conn \in open /\ slot[i].conn # c /\ slot[i].conn \in Conns
    BY <1>4 DEF Dense
  <2>4. key'[c] = num /\ \A d \in Conns : d # c => key'[d] = key[d]
    BY <1>2, <1>8 DEF Types
  <2>5. Types'
    BY <1>1, <1>2, <1>8 DEF Types
  <2>6. Dense(slot, num, open)'
    <3>1. \A i \in 0 .. num' - 1 : slot'[i].conn \in open'
      BY <1>8, <2>1, <2>2, <2>3
    <3>2. ASSUME NEW i \in 0 .. num' - 1, NEW j \in 0 .. num' - 1, slot'[i].conn = slot'[j].conn
          PROVE  i = j
      <4>1. CASE i = num \/ j = num
        BY <2>1, <2>2, <2>3, <3>2, <4>1
      <4>2. CASE i # num /\ j # num
        BY <2>1, <2>2, <3>2, <4>2 DEF Dense
      <4> QED BY <4>1, <4>2
    <3>3. num' \in -1 .. MaxClients /\ open' \subseteq Conns
      BY <1>2, <1>8, <2>1, CapsAssumption DEF Dense
    <3> QED BY <2>2, <3>1, <3>2, <3>3 DEF Dense
  <2>7. BufferInv'
    <3> SUFFICES ASSUME NEW i \in 0 .. num' - 1
                 PROVE  /\ slot'[i].buf = Bytes(slot'[i].conn, taken[slot'[i].conn])
                        /\ Waiting(slot'[i].conn, taken[slot'[i].conn])
      BY <1>1 DEF BufferInv, Waiting
    <3>1. CASE i = num
      <4>1. Bytes(c, 0) = <<>>
        <5>1. Bytes(c, 0) \in Seq(Units) /\ Len(Bytes(c, 0)) = 0
          BY <1>2, BytesType
        <5> QED BY <5>1
      <4>2. Waiting(c, 0)
        <5>1. ~(req[c].head <= 0)
          <6>1. req[c].head \in Nat
            BY <1>5 DEF Request
          <6> QED BY <1>5, <6>1
        <5> QED BY <5>1, CapsAssumption DEF Waiting
      <4> QED BY <1>3, <2>2, <3>1, <4>1, <4>2
    <3>2. CASE i # num
      <4>1. i \in 0 .. num - 1
        BY <2>1, <3>2
      <4> QED BY <2>2, <4>1 DEF BufferInv
    <3> QED BY <3>1, <3>2
  <2>8. ConnInv'
    <3> SUFFICES ASSUME NEW d \in Conns
                 PROVE  /\ taken[d] <= arrived[d]
                        /\ IF peer[d] = "new"
                           THEN key'[d] = Nil /\ handled[d] = <<>> /\ arrived[d] = 0
                           ELSE req[d] \in Requests[d] /\ arrived[d] <= Total(req[d])
                        /\ d \in open' => key'[d] \in Slots /\ handled[d] = <<>>
      BY <1>1 DEF ConnInv
    <3>1. CASE d = c
      BY <1>3, <1>8, <2>4, <3>1 DEF ConnInv
    <3>2. CASE d # c
      BY <1>8, <2>4, <3>2 DEF ConnInv
    <3> QED BY <3>1, <3>2
  <2>9. BacklogInv'
    BY <1>1, <1>6, <2>4 DEF BacklogInv
  <2>10. BatchInv' /\ HandledAsSent'
    BY <1>1 DEF BatchInv, HandledAsSent
  <2>11. CountInv'
    <3> SUFFICES ASSUME NoReset
                 PROVE  /\ \A d \in open' : \E i \in 0 .. num' - 1 : slot'[i].conn = d
                        /\ IsFiniteSet(open') /\ Cardinality(open') = num'
      BY <1>1 DEF CountInv, NoReset
    <3>1. /\ \A d \in open : \E i \in 0 .. num - 1 : slot[i].conn = d
          /\ IsFiniteSet(open) /\ Cardinality(open) = num
      BY DEF CountInv
    <3>2. \A d \in open : \E i \in 0 .. num' - 1 : slot'[i].conn = d
      BY <2>1, <2>2, <3>1
    <3>3. \E i \in 0 .. num' - 1 : slot'[i].conn = c
      BY <2>1, <2>2
    <3>4. IsFiniteSet(open \cup {c}) /\ Cardinality(open \cup {c}) = num + 1
      BY <1>4, <3>1, FS_AddElement
    <3> QED BY <1>8, <3>2, <3>3, <3>4
  <2>12. CalmInv'
    <3> SUFFICES ASSUME Calm'
                 PROVE  /\ \A i \in 0 .. num' - 1 : key'[slot'[i].conn] = i
                        /\ \A e \in batch' :
                             e.key # Srv => e.src \in open' /\ e.key = key'[e.src] /\ ~e.hup
                        /\ \A d \in Conns \ open' :
                             key'[d] # Nil => handled[d] # <<>> \/ Over(d) \/ ~Acceptable(req[d])
      BY <1>1 DEF CalmInv, Over
    <3>1. Calm
      <4>1. Nil # Srv
        BY NilIsNew, CapsAssumption
      <4> QED BY <1>1, <1>3, <2>4, <4>1 DEF Calm
    <3>2. ASSUME NEW i \in 0 .. num' - 1 PROVE key'[slot'[i].conn] = i
      <4>1. CASE i = num
        BY <2>2, <2>4, <4>1
      <4>2. CASE i # num
        <5>1. i \in 0 .. num - 1
          BY <2>1, <4>2
        <5>2. key[slot[i].conn] = i
          BY <3>1, <5>1 DEF CalmInv
        <5> QED BY <2>2, <2>3, <2>4, <5>1, <5>2
      <4> QED BY <4>1, <4>2
    <3>3. \A d \in open : d \in open' /\ d \in Conns /\ d # c
      BY <1>4, <1>8 DEF Dense
    <3>4. \A e \in batch' : e.key # Srv => e.src \in open' /\ e.key = key'[e.src] /\ ~e.hup
      BY <1>1, <2>4, <3>1, <3>3 DEF CalmInv
    <3> QED BY <1>8, <2>4, <3>1, <3>2, <3>4 DEF CalmInv
  <2> QED BY <2>5, <2>6, <2>7, <2>8, <2>9, <2>10, <2>11, <2>12
<1>9. \/ /\ num \in Slots /\ key' = [key EXCEPT ![c] = num]
         /\ slot' = [slot EXCEPT ![num] = Fresh(c)]
         /\ num' = num + 1 /\ open' = open \cup {c} /\ wild' = wild
      \/ UNCHANGED <<slot, num, open, key>> /\ wild' \in BOOLEAN
  BY DEF Accept, TurnAway, Types, c
<1> QED BY <1>7, <1>8, <1>9

\* A step that uses up the event e0 of slot k, whose client is c, and removes it from
\* the table s: the present one but for what may have been received into the slot.
RemovesFrom(k, c, s, hup, e0) ==
  /\ k \in 0 .. num - 1 /\ c = slot[k].conn /\ s \in [Slots -> Clients]
  /\ \A i \in 0 .. num - 1 : s[i].conn = slot[i].conn /\ (i # k => s[i] = slot[i])
  /\ hup \in BOOLEAN /\ (hup => ~NoReset)
  /\ RemoveClient(Triple(s, num, open), k, hup)
  /\ e0 \in batch /\ e0.key = k /\ k # Srv /\ batch' = batch \ {e0}
  /\ taken' \in [Conns -> Nat] /\ taken'[c] <= arrived[c]
  /\ handled' \in [Conns -> Seq(Outcomes)] /\ HandledAsSent'
  /\ \A d \in Conns : d # c => taken'[d] = taken[d] /\ handled'[d] = handled[d]
  /\ Calm => handled'[c] # <<>> \/ Over(c) \/ ~Acceptable(req[c])
  /\ UNCHANGED <<wild, backlog, key, arrived, peer, req>>

LEMMA RemovalStep ==
  ASSUME IInv, NEW k, NEW c, NEW s, NEW hup, NEW e0, RemovesFrom(k, c, s, hup, e0)
  PROVE  IInv'
<1> USE DEF IInv, SafeInv, RemovesFrom
<1>1. c \in open /\ c \in Conns /\ peer[c] # "new" /\ \A i \in DOMAIN backlog : backlog[i] # c
  <2>1. c \in open
    BY DEF Dense
  <2> QED BY <2>1, OpenKnown
<1>2. Dense(s, num, open)
  BY DEF Dense
<1>3. s[k].conn = c
  OBVIOUS
<1>4. /\ Dense(slot', num', open') /\ open' \subseteq open \ {c}
      /\ \A j \in 0 .. num' - 1 : \E i \in 0 .. num - 1 : i # k /\ slot'[j] = s[i]
      /\ ~hup => /\ num' = num - 1 /\ open' = open \ {c}
                 /\ \A i \in 0 .. num - 1 : i # k => \E j \in 0 .. num - 2 : slot'[j] = s[i]
      /\ moved' \in BOOLEAN /\ (~moved' => ~moved /\ k = num - 1)
      /\ ~hup /\ k = num - 1 => slot' = s
  <2>1. /\ Dense(slot', num', open') /\ open' \subseteq open \ {s[k].conn}
        /\ \A j \in 0 .. num' - 1 : \E i \in 0 .. num - 1 : i # k /\ slot'[j] = s[i]
        /\ ~hup => /\ num' = num - 1 /\ open' = open \ {s[k].conn}
                   /\ \A i \in 0 .. num - 1 : i # k => \E j \in 0 .. num - 2 : slot'[j] = s[i]
        /\ moved' \in BOOLEAN /\ (~moved' => ~moved /\ k = num - 1)
        /\ ~hup /\ k = num - 1 => slot' = s
    <3>1. Dense(slot', num', open') /\ open' \subseteq open \ {s[k].conn}
      BY <1>2, RemoveTable
    <3>2. ASSUME NEW j \in 0 .. num' - 1
          PROVE  \E i \in 0 .. num - 1 : i # k /\ slot'[j] = s[i]
      BY <1>2, RemoveTable
    <3>3. ~hup => /\ num' = num - 1 /\ open' = open \ {s[k].conn}
                  /\ \A i \in 0 .. num - 1 : i # k => \E j \in 0 .. num - 2 : slot'[j] = s[i]
      BY <1>2, RemoveTable, SMTT(30)
    <3>4. /\ moved' \in BOOLEAN /\ (~moved' => ~moved /\ k = num - 1)
          /\ ~hup /\ k = num - 1 => slot' = s
      BY <1>2, RemoveTable
    <3> QED BY <3>1, <3>2, <3>3, <3>4
  <2> QED BY <1>3, <2>1
<1>5. \A i \in 0 .. num - 1 :
        slot[i].conn \in Conns /\ slot[i].conn \in open /\ (i # k => slot[i].conn # c)
  BY DEF Dense
<1>6. Types'
  BY <1>4 DEF Types
<1>7. BufferInv'
  <2> SUFFICES ASSUME NEW j \in 0 .. num' - 1
               PROVE  /\ slot'[j].buf = Bytes(slot'[j].conn, taken'[slot'[j].conn])
                      /\ Waiting(slot'[j].conn, taken'[slot'[j].conn])
    BY DEF BufferInv, Waiting
  <2>1. PICK i \in 0 .. num - 1 : i # k /\ slot'[j] = s[i]
    BY <1>4
  <2>2. slot'[j] = slot[i] /\ slot[i].conn \in Conns /\ slot[i].conn # c
    BY <1>5, <2>1
  <2>3. taken'[slot[i].conn] = taken[slot[i].conn]
    BY <2>2
  <2> QED BY <2>2, <2>3 DEF BufferInv
<1>8. ConnInv'
  <2> SUFFICES ASSUME NEW d \in Conns
               PROVE  /\ taken'[d] <= arrived[d]
                      /\ IF peer[d] = "new"
                         THEN key[d] = Nil /\ handled'[d] = <<>> /\ arrived[d] = 0
                         ELSE req[d] \in Requests[d] /\ arrived[d] <= Total(req[d])
                      /\ d \in open' => key[d] \in Slots /\ handled'[d] = <<>>
    BY DEF ConnInv
  <2>1. CASE d = c
    BY <1>1, <1>4, <2>1 DEF ConnInv
  <2>2. CASE d # c
    BY <1>4, <2>2 DEF ConnInv
  <2> QED BY <2>1, <2>2
<1>9. BacklogInv'
  <2>1. \A i \in DOMAIN backlog : backlog[i] \in Conns /\ backlog[i] # c
    BY <1>1 DEF Types
  <2> QED BY <2>1 DEF BacklogInv
<1>10. BatchInv'
  BY DEF BatchInv
<1>11. CountInv'
  <2> SUFFICES ASSUME NoReset
               PROVE  /\ \A d \in open' : \E j \in 0 .. num' - 1 : slot'[j].conn = d
                      /\ IsFiniteSet(open') /\ Cardinality(open') = num'
    BY DEF CountInv, NoReset
  <2>1. /\ \A d \in open : \E i \in 0 .. num - 1 : slot[i].conn = d
        /\ IsFiniteSet(open) /\ Cardinality(open) = num
    BY DEF CountInv
  <2>2. ~hup /\ num' = num - 1 /\ open' = open \ {c} /\ num \in Int
    BY <1>4 DEF Dense
  <2>3. ASSUME NEW d \in open' PROVE \E j \in 0 .. num' - 1 : slot'[j].conn = d
    <3>1. PICK i \in 0 .. num - 1 : slot[i].conn = d
      BY <2>1, <2>2
    <3>2. i # k /\ s[i].conn = d
      BY <2>2, <3>1
    <3>3. num' - 1 = num - 2
      BY <2>2
    <3> QED BY <1>4, <2>2, <3>2, <3>3
  <2>4. IsFiniteSet(open \ {c}) /\ Cardinality(open \ {c}) = num - 1
    BY <1>1, <2>1, FS_RemoveElement
  <2> QED BY <2>2, <2>3, <2>4
<1>12. CalmInv'
  <2> SUFFICES ASSUME Calm'
               PROVE  /\ \A j \in 0 .. num' - 1 : key[slot'[j].conn] = j
                      /\ \A e \in batch' :
                           e.key # Srv => e.src \in open' /\ e.key = key[e.src] /\ ~e.hup
                      /\ \A d \in Conns \ open' :
                           key[d] # Nil => handled'[d] # <<>> \/ Over(d) \/ ~Acceptable(req[d])
    BY DEF CalmInv, Over
  <2>1. Calm /\ NoReset /\ k = num - 1
    BY <1>4 DEF Calm, NoReset
  <2>2. ~hup /\ num' = num - 1 /\ open' = open \ {c} /\ num \in Int /\ slot' = s
    BY <1>4, <2>1 DEF Dense
  <2>3. \A j \in 0 .. num' - 1 : key[slot'[j].conn] = j
    <3>1. \A j \in 0 .. num' - 1 : j \in 0 .. num - 1
      BY <2>2
    <3> QED BY <2>1, <2>2, <3>1, SMTT(30) DEF CalmInv
  \* Only the event used up can have been about c.
  <2>4. ASSUME NEW e \in batch, e.key # Srv, e.key = k
        PROVE  e.src = c /\ e = [key |-> k, src |-> c, hup |-> FALSE]
    <3>1. e.src \in open /\ e.key = key[e.src] /\ ~e.hup /\ e \in Event
      BY <2>1, <2>4 DEF CalmInv, BatchInv
    <3>2. PICK i \in 0 .. num - 1 : slot[i].conn = e.src
      BY <2>1, <3>1 DEF CountInv
    <3>3. i = k
      BY <2>1, <2>4, <3>1, <3>2 DEF CalmInv
    <3>4. e.src = c
      BY <3>2, <3>3
    <3>5. e.hup = FALSE
      BY <3>1 DEF Event
    <3> QED BY <2>4, <3>1, <3>4, <3>5 DEF Event
  <2>5. ASSUME NEW e \in batch', e.key # Srv
        PROVE  e.src \in open' /\ e.key = key[e.src] /\ ~e.hup
    <3>1. e \in batch /\ e # e0
      OBVIOUS
    <3>2. e.src \in open /\ e.key = key[e.src] /\ ~e.hup
      BY <2>1, <2>5, <3>1 DEF CalmInv
    <3>3. ASSUME e.src = c PROVE FALSE
      <4>1. e.key = k
        BY <2>1, <3>2, <3>3 DEF CalmInv
      <4>2. e = [key |-> k, src |-> c, hup |-> FALSE]
        BY <2>4, <2>5, <3>1, <4>1
      <4>3. e0 = [key |-> k, src |-> c, hup |-> FALSE]
        BY <2>4
      <4> QED BY <3>1, <4>2, <4>3
    <3> QED BY <2>2, <3>2, <3>3
  <2>6. ASSUME NEW d \in Conns \ open', key[d] # Nil
        PROVE  handled'[d] # <<>> \/ Over(d) \/ ~Acceptable(req[d])
    <3>1. CASE d = c
      BY <2>1, <3>1
    <3>2. CASE d # c
      BY <2>1, <2>2, <2>6, <3>2 DEF CalmInv
    <3> QED BY <3>1, <3>2
  <2> QED BY <2>3, <2>5, <2>6
<1> QED BY <1>4, <1>6, <1>7, <1>8, <1>9, <1>10, <1>11, <1>12

\* An event that names a slot of the table, and what the slot holds.
LEMMA NamedSlot ==
  ASSUME IInv, NEW e \in batch, e.key # Srv, e.key < num, NEW c, c = slot[e.key].conn
  PROVE  /\ e.key \in 0 .. num - 1 /\ e.key \in Slots /\ e.hup \in BOOLEAN /\ (e.hup => ~NoReset)
         /\ c \in Conns /\ c \in open /\ peer[c] # "new" /\ handled[c] = <<>>
         /\ req[c] \in Request /\ taken[c] \in Nat /\ arrived[c] \in Nat
         /\ taken[c] <= arrived[c] /\ arrived[c] <= Total(req[c]) /\ Total(req[c]) \in Nat
         /\ slot[e.key].buf = Bytes(c, taken[c]) /\ Len(slot[e.key].buf) = taken[c]
         /\ Waiting(c, taken[c])
<1> USE DEF IInv, SafeInv
<1>1. e.key \in Slots /\ e.hup \in BOOLEAN /\ (e.hup => ~NoReset)
  <2>1. e \in Event /\ (e.hup => e.src \in Conns /\ peer[e.src] = "reset")
    BY DEF BatchInv
  <2> QED BY <2>1 DEF Event, NoReset
<1>2. e.key \in 0 .. num - 1
  <2>1. e.key \in Int /\ 0 <= e.key
    BY <1>1, SlotsNat
  <2>2. num \in Int
    BY CapsAssumption DEF Dense
  <2> QED BY <2>1, <2>2
<1>3. c \in open
  BY <1>2 DEF Dense
<1>4. c \in Conns /\ peer[c] # "new"
  BY <1>3, OpenKnown
<1>5. /\ handled[c] = <<>> /\ req[c] \in Request /\ taken[c] \in Nat /\ arrived[c] \in Nat
      /\ taken[c] <= arrived[c] /\ arrived[c] <= Total(req[c]) /\ Total(req[c]) \in Nat
  BY <1>3, <1>4, RequestOf DEF ConnInv, Types
<1>6. slot[e.key].buf = Bytes(c, taken[c]) /\ Waiting(c, taken[c])
  BY <1>2 DEF BufferInv
<1>7. Len(slot[e.key].buf) = taken[c]
  BY <1>4, <1>5, <1>6, BytesType
<1> QED BY <1>1, <1>2, <1>3, <1>4, <1>5, <1>6, <1>7

LEMMA DropStep == ASSUME IInv, Drop PROVE IInv'
<1> USE DEF IInv, SafeInv
<1>1. PICK e \in batch :
        /\ e.key # Srv /\ e.key < num /\ batch' = batch \ {e}
        /\ \/ Len(slot[e.key].buf) = Cap
           \/ slot[e.key].conn \notin open
           \/ arrived[slot[e.key].conn] = taken[slot[e.key].conn] /\ Over(slot[e.key].conn)
        /\ RemoveClient(Triple(slot, num, open), e.key, FALSE)
  BY DEF Drop, Triple
<1>2. PICK c : c = slot[e.key].conn
  OBVIOUS
<1>3. UNCHANGED <<wild, handled, backlog, key, taken, arrived, peer, req>>
  BY DEF Drop, peerVars
<1>4. /\ e.key \in 0 .. num - 1
      /\ c \in Conns /\ c \in open /\ handled[c] = <<>>
      /\ req[c] \in Request /\ taken[c] \in Nat /\ arrived[c] \in Nat
      /\ taken[c] <= arrived[c] /\ arrived[c] <= Total(req[c]) /\ Total(req[c]) \in Nat
      /\ Len(slot[e.key].buf) = taken[c] /\ Waiting(c, taken[c])
  BY <1>1, <1>2, NamedSlot
\* A buffer is full only when the request does not fit.
<1>5. Over(c) \/ ~Acceptable(req[c])
  <2>1. CASE Over(c)
    BY <2>1
  <2>2. CASE ~Over(c)
    <3>1. taken[c] = Cap
      BY <1>1, <1>2, <1>4, <2>2
    <3> SUFFICES ASSUME Acceptable(req[c]) PROVE FALSE
      OBVIOUS
    <3>2. Total(req[c]) <= Cap
      BY DEF Acceptable
    <3>3. taken[c] = Total(req[c])
      BY <1>4, <3>1, <3>2
    <3> QED BY <1>4, <3>3, WholeNotWaiting
  <2> QED BY <2>1, <2>2
<1>6. /\ slot \in [Slots -> Clients] /\ taken' \in [Conns -> Nat]
      /\ handled' \in [Conns -> Seq(Outcomes)]
  BY <1>3 DEF Dense, Types
<1>7. HandledAsSent'
  BY <1>3 DEF HandledAsSent
<1>8. RemovesFrom(e.key, c, slot, FALSE, e)
  BY <1>1, <1>2, <1>3, <1>4, <1>5, <1>6, <1>7 DEF RemovesFrom
<1> QED BY <1>8, RemovalStep

LEMMA RecvStep == ASSUME IInv, Recv PROVE IInv'
<1> USE DEF IInv, SafeInv
<1>1. PICK e \in batch :
        /\ e.key # Srv /\ e.key < num /\ batch' = batch \ {e}
        /\ LET c == slot[e.key].conn
               n == Min({Cap - Len(slot[e.key].buf), arrived[c] - taken[c]})
           IN /\ c \in open /\ n > 0
              /\ taken' = [taken EXCEPT ![c] = @ + n]
              /\ \E buf \in {slot[e.key].buf \o SubSeq(Data(c), 1, n)} : Received(e, c, buf)
  BY DEF Recv
<1>2. PICK c, k : c = slot[e.key].conn /\ k = e.key
  OBVIOUS
<1>3. PICK n : n = Min({Cap - Len(slot[k].buf), arrived[c] - taken[c]})
  OBVIOUS
<1>4. UNCHANGED <<wild, backlog, key, arrived, peer, req>>
  BY DEF Recv, peerVars
<1>5. /\ k \in 0 .. num - 1 /\ k \in Slots /\ k # Srv /\ e.hup \in BOOLEAN /\ (e.hup => ~NoReset)
      /\ c \in Conns /\ c \in open /\ peer[c] # "new" /\ handled[c] = <<>>
      /\ req[c] \in Request /\ taken[c] \in Nat /\ arrived[c] \in Nat
      /\ taken[c] <= arrived[c] /\ arrived[c] <= Total(req[c]) /\ Total(req[c]) \in Nat
      /\ slot[k].buf = Bytes(c, taken[c]) /\ Len(slot[k].buf) = taken[c]
  BY <1>1, <1>2, NamedSlot
<1>6. n \in Nat /\ n > 0 /\ taken[c] + n <= arrived[c] /\ taken[c] + n \in Nat
  <2>1. n > 0
    BY <1>1, <1>2, <1>3
  <2>2. Cap - Len(slot[k].buf) \in Int /\ arrived[c] - taken[c] \in Int
    BY <1>5, CapsAssumption
  <2>3. n \in Int /\ n <= arrived[c] - taken[c]
    BY <1>3, <2>2, MinOfTwo
  <2> QED BY <1>5, <2>1, <2>3
<1>7. PICK m \in Nat : m = taken[c] + n
  BY <1>6
<1>8. /\ taken' \in [Conns -> Nat] /\ taken'[c] = m
      /\ \A d \in Conns : d # c => taken'[d] = taken[d]
  <2>1. taken' = [taken EXCEPT ![c] = @ + n]
    BY <1>1, <1>2, <1>3
  <2> QED BY <1>5, <1>6, <1>7, <2>1 DEF Types
<1>9. PICK b : b = Bytes(c, m)
  OBVIOUS
<1>10. Received(e, c, b)
  <2>1. slot[k].buf \o SubSeq(Data(c), 1, n) = Bytes(c, m)
    <3>1. PICK d : d = SubSeq(Data(c), 1, n)
      OBVIOUS
    <3>2. Bytes(c, taken[c]) \o d = Bytes(c, taken[c] + n)
      BY <1>5, <1>6, <3>1, BytesGrow, ZenonT(40)
    <3> QED BY <1>5, <1>7, <3>1, <3>2
  <2> QED BY <1>1, <1>2, <1>3, <1>9, <2>1
<1>11. b \in Seq(Units) /\ Len(b) = m
  BY <1>5, <1>9, BytesType
<1>12. PICK s : s = [slot EXCEPT ![k].buf = b]
  OBVIOUS
<1>13. /\ s \in [Slots -> Clients] /\ s[k].conn = c /\ s[k].buf = b
       /\ \A i \in Slots : i # k => s[i] = slot[i]
  <2>1. slot \in [Slots -> Clients] /\ slot[k] \in Clients
    BY <1>5 DEF Dense
  <2>2. s = [slot EXCEPT ![k] = [slot[k] EXCEPT !.buf = b]]
    BY <1>12
  <2>3. /\ [slot[k] EXCEPT !.buf = b] \in Clients
        /\ [slot[k] EXCEPT !.buf = b].conn = c /\ [slot[k] EXCEPT !.buf = b].buf = b
    BY <1>2, <1>11, <2>1 DEF Clients
  <2> QED BY <1>5, <2>1, <2>2, <2>3
<1>14. /\ 0 .. num - 1 \subseteq Slots
       /\ \A i \in 0 .. num - 1 : s[i].conn = slot[i].conn /\ (i # k => s[i] = slot[i])
  <2>1. 0 .. num - 1 \subseteq Slots
    BY CapsAssumption DEF Dense, Slots
  <2> QED BY <1>2, <1>13, <2>1
<1> DEFINE headed == HeadersEnd(b) > 0
           t == Triple(s, num, open)
<1>15. \/ /\ headed /\ BodyHere(b)
          /\ handled' = [handled EXCEPT ![c] = Append(@, Outcome(b))]
          /\ RemoveClient(t, k, e.hup)
       \/ /\ ~headed /\ (Len(b) > HeadMax \/ e.hup)
          /\ RemoveClient(t, k, Len(b) > HeadMax /\ e.hup)
          /\ UNCHANGED handled
       \/ /\ IF headed THEN ~BodyHere(b) ELSE Len(b) <= HeadMax /\ ~e.hup
          /\ slot' = s
          /\ UNCHANGED <<num, open, moved, handled>>
  BY <1>2, <1>10, <1>12 DEF Received, Triple
<1>16. ASSUME UNCHANGED handled PROVE HandledAsSent' /\ handled' \in [Conns -> Seq(Outcomes)]
  BY <1>4, <1>16 DEF HandledAsSent, Types
<1>17. taken'[c] <= arrived[c] /\ m <= Total(req[c])
  BY <1>5, <1>6, <1>7, <1>8
<1>18. req[c].head \in Nat /\ req[c].head >= 1
  <2>1. req[c].head \in Nat \ {0}
    BY <1>5 DEF Request
  <2> QED BY <2>1
<1>19. HeadersEnd(b) = IF req[c].head <= m THEN req[c].head ELSE 0
  BY <1>5, <1>9, HeadersOf
<1>20. CASE /\ headed /\ BodyHere(b)
            /\ handled' = [handled EXCEPT ![c] = Append(@, Outcome(b))]
            /\ RemoveClient(t, k, e.hup)
  <2>1. req[c].head <= m
    BY <1>18, <1>19, <1>20
  <2>2. Outcome(b) \in Outcomes /\ AsSent(c, Outcome(b))
    BY <1>5, <1>9, <1>20, <2>1, OutcomeOf
  <2>3. PICK h : h = Outcome(b)
    OBVIOUS
  <2>4. /\ handled' \in [Conns -> Seq(Outcomes)] /\ handled'[c] = <<h>>
        /\ \A d \in Conns : d # c => handled'[d] = handled[d]
    <3>1. Append(handled[c], h) = <<h>> /\ <<h>> \in Seq(Outcomes)
      BY <1>5, <2>2, <2>3
    <3> QED BY <1>5, <1>20, <2>3, <3>1 DEF Types
  <2>5. HandledAsSent'
    <3> SUFFICES ASSUME NEW d \in Conns
                 PROVE  Len(handled'[d]) <= 1 /\ \A g \in Range(handled'[d]) : AsSent(d, g)
      BY <1>4 DEF HandledAsSent, AsSent
    <3>1. CASE d = c
      <4>1. Len(<<h>>) = 1 /\ DOMAIN <<h>> = {1} /\ <<h>>[1] = h
        OBVIOUS
      <4>2. Len(handled'[d]) = 1 /\ \A g \in Range(handled'[d]) : g = h
        BY <2>4, <3>1, <4>1 DEF Range
      <4> QED BY <2>2, <2>3, <3>1, <4>2
    <3>2. CASE d # c
      BY <2>4, <3>2 DEF HandledAsSent, AsSent
    <3> QED BY <3>1, <3>2
  <2>6. handled'[c] # <<>>
    BY <2>4
  <2>7. /\ RemoveClient(Triple(s, num, open), k, e.hup)
        /\ e.key = k /\ batch' = batch \ {e} /\ c = slot[k].conn
        /\ \A d \in Conns : d # c => taken'[d] = taken[d] /\ handled'[d] = handled[d]
    BY <1>1, <1>2, <1>8, <1>20, <2>4
  <2>8. RemovesFrom(k, c, s, e.hup, e)
    BY <1>4, <1>5, <1>8, <1>13, <1>14, <1>17, <2>4, <2>5, <2>6, <2>7 DEF RemovesFrom
  <2> QED BY <2>8, RemovalStep
<1>21. CASE /\ ~headed /\ (Len(b) > HeadMax \/ e.hup)
            /\ RemoveClient(t, k, Len(b) > HeadMax /\ e.hup)
            /\ UNCHANGED handled
  <2>1. PICK hup \in BOOLEAN : (hup <=> Len(b) > HeadMax /\ e.hup) /\ RemoveClient(t, k, hup)
    <3>1. (Len(b) > HeadMax /\ e.hup) \in BOOLEAN
      OBVIOUS
    <3> QED BY <1>21, <3>1
  \* Too many headers.
  <2>2. Calm => ~Acceptable(req[c])
    <3>1. Calm => NoReset
      BY DEF Calm, NoReset
    <3>2. Calm => m > HeadMax
      BY <1>5, <1>11, <1>21, <3>1
    <3>3. ~(req[c].head <= m)
      BY <1>18, <1>19, <1>21
    <3> QED BY <1>18, <3>2, <3>3, CapsAssumption DEF Acceptable
  <2>3. /\ RemoveClient(Triple(s, num, open), k, hup) /\ (hup => ~NoReset)
        /\ e.key = k /\ batch' = batch \ {e} /\ c = slot[k].conn
        /\ \A d \in Conns : d # c => taken'[d] = taken[d] /\ handled'[d] = handled[d]
        /\ handled' \in [Conns -> Seq(Outcomes)] /\ HandledAsSent'
    BY <1>1, <1>2, <1>5, <1>8, <1>16, <1>21, <2>1
  <2>4. RemovesFrom(k, c, s, hup, e)
    BY <1>4, <1>5, <1>8, <1>13, <1>14, <1>17, <2>2, <2>3 DEF RemovesFrom
  <2> QED BY <2>4, RemovalStep
<1>22. CASE /\ IF headed THEN ~BodyHere(b) ELSE Len(b) <= HeadMax /\ ~e.hup
            /\ slot' = s
            /\ UNCHANGED <<num, open, moved, handled>>
  <2>1. Waiting(c, m)
    BY <1>5, <1>9, <1>22, WaitingOf
  <2>2. Types'
    BY <1>4, <1>8, <1>22 DEF Types
  <2>3. Dense(slot, num, open)'
    <3>1. Dense(s, num, open)
      BY <1>13, <1>14 DEF Dense
    <3> QED BY <1>22, <3>1
  <2>4. BufferInv'
    <3> SUFFICES ASSUME NEW i \in 0 .. num - 1
                 PROVE  /\ s[i].buf = Bytes(s[i].conn, taken'[s[i].conn])
                        /\ Waiting(s[i].conn, taken'[s[i].conn])
      BY <1>4, <1>22 DEF BufferInv, Waiting
    <3>1. CASE i = k
      BY <1>8, <1>9, <1>13, <2>1, <3>1
    <3>2. CASE i # k
      <4>1. s[i] = slot[i] /\ slot[i].conn \in Conns /\ slot[i].conn # c
        BY <1>2, <1>5, <1>14, <3>2 DEF Dense
      <4>2. taken'[slot[i].conn] = taken[slot[i].conn]
        BY <1>8, <4>1
      <4> QED BY <4>1, <4>2 DEF BufferInv
    <3> QED BY <3>1, <3>2
  <2>5. ConnInv'
    <3> SUFFICES ASSUME NEW d \in Conns
                 PROVE  /\ taken'[d] <= arrived[d]
                        /\ IF peer[d] = "new"
                           THEN key[d] = Nil /\ handled[d] = <<>> /\ arrived[d] = 0
                           ELSE req[d] \in Requests[d] /\ arrived[d] <= Total(req[d])
                        /\ d \in open => key[d] \in Slots /\ handled[d] = <<>>
      BY <1>4, <1>22 DEF ConnInv
    <3>1. CASE d = c
      BY <1>17, <3>1 DEF ConnInv
    <3>2. CASE d # c
      BY <1>8, <3>2 DEF ConnInv
    <3> QED BY <3>1, <3>2
  <2>6. BacklogInv'
    <3>1. \A i \in DOMAIN backlog : backlog[i] # c
      BY <1>5, OpenKnown
    <3>2. \A i \in DOMAIN backlog : backlog[i] \in Conns
      BY DEF Types
    <3> QED BY <1>4, <1>8, <1>22, <3>1, <3>2 DEF BacklogInv
  <2>7. BatchInv'
    BY <1>1, <1>4 DEF BatchInv
  <2>8. HandledAsSent'
    BY <1>16, <1>22
  <2>9. CountInv'
    BY <1>4, <1>14, <1>22 DEF CountInv, NoReset
  <2>10. CalmInv'
    BY <1>1, <1>4, <1>14, <1>22 DEF CalmInv, Calm, Over
  <2> QED BY <2>2, <2>3, <2>4, <2>5, <2>6, <2>7, <2>8, <2>9, <2>10
<1> QED BY <1>15, <1>20, <1>21, <1>22

-----------------------------------------------------------------------------
(* The theorems *)

\* All of the above holds throughout, whatever the browsers do.
THEOREM WebInvariant == Spec => []IInv
<1>1. ASSUME IInv, [Next]_vars PROVE IInv'
  <2>1. ASSUME NEW c \in Conns, Connect(c) PROVE IInv'
    BY <1>1, <2>1, ConnectStep
  <2>2. ASSUME NEW c \in Conns, Send(c) \/ Close(c) \/ Reset(c) PROVE IInv'
    BY <1>1, <2>2, PeerStep
  <2>3. CASE EpollWait
    BY <1>1, <2>3, EpollWaitStep
  <2>4. CASE Accept
    BY <1>1, <2>4, AcceptStep
  <2>5. CASE PassOver
    BY <1>1, <2>5, PassOverStep
  <2>6. CASE Drop
    BY <1>1, <2>6, DropStep
  <2>7. CASE Recv
    BY <1>1, <2>7, RecvStep
  <2>8. CASE UNCHANGED vars
    <3>1. UNCHANGED <<slot, num, wild, moved, batch, handled, backlog, open, key, taken,
                      arrived, peer, req>>
      BY <2>8 DEF vars, tableVars, netVars, peerVars
    <3> QED
      BY <1>1, <3>1 DEF IInv, SafeInv, Types, Dense, BufferInv, Waiting, ConnInv, BacklogInv,
                        BatchInv, HandledAsSent, CountInv, NoReset, CalmInv, Calm, Over
  <2> QED BY <1>1, <2>1, <2>2, <2>3, <2>4, <2>5, <2>6, <2>7, <2>8 DEF Next, Daemon
<1> QED BY InitHolds, <1>1, PTL DEF Spec

\* A request is handled at most once, for the connection that sent it and with its
\* own bytes (handle_client_data), even when events name the wrong slots.
THEOREM HandledAsSentAlways == Spec => []HandledAsSent
<1>1. IInv => HandledAsSent
  BY DEF IInv, SafeInv
<1> QED BY WebInvariant, <1>1, PTL

\* Without resets the table lists the open descriptors, each once: accept_client
\* and remove_client leak none.
THEOREM AccountedAlways == Spec => []Accounted
<1>1. ASSUME IInv PROVE Accounted
  <2> SUFFICES ASSUME NoReset
               PROVE  open = {slot[i].conn : i \in 0 .. num - 1} /\ Cardinality(open) = num
    BY DEF Accounted, NoReset
  <2>1. (\A c \in open : \E i \in 0 .. num - 1 : slot[i].conn = c) /\ Cardinality(open) = num
    BY <1>1 DEF IInv, CountInv
  <2>2. \A i \in 0 .. num - 1 : slot[i].conn \in open
    BY <1>1 DEF IInv, SafeInv, Dense
  <2> QED BY <2>1, <2>2
<1> QED BY WebInvariant, <1>1, PTL

\* While removals move nobody, nobody resets and no key is the listener's
\* descriptor, every event finds its connection and no request is lost.
THEOREM NoneLostAlways == Spec => []NoneLost
<1>1. ASSUME IInv PROVE NoneLost
  <2> SUFFICES ASSUME Calm
               PROVE  /\ \A e \in batch : e.key # Srv => e.key < num /\ slot[e.key].conn = e.src
                      /\ \A c \in open : slot[key[c]].conn = c
                      /\ \A c \in Conns \ open :
                           key[c] # Nil => handled[c] # <<>> \/ Over(c) \/ ~Acceptable(req[c])
                      /\ batch \cup Ready = {} =>
                           \A c \in open : arrived[c] = Total(req[c]) => ~Acceptable(req[c])
    BY DEF NoneLost
  <2>1. \A c \in open : \E i \in 0 .. num - 1 : slot[i].conn = c
    BY <1>1 DEF IInv, CountInv, Calm, NoReset
  <2>2. num \in Int
    BY <1>1 DEF IInv, SafeInv, Dense
  <2>3. ASSUME NEW c \in open
        PROVE  key[c] < num /\ key[c] \in 0 .. num - 1 /\ slot[key[c]].conn = c
    <3>1. PICK i \in 0 .. num - 1 : slot[i].conn = c
      BY <2>1
    <3>2. key[c] = i
      BY <1>1, <3>1 DEF IInv, CalmInv
    <3> QED BY <2>2, <3>1, <3>2
  <2>4. \A e \in batch : e.key # Srv => e.key < num /\ slot[e.key].conn = e.src
    BY <1>1, <2>3 DEF IInv, CalmInv
  <2>5. \A c \in Conns \ open :
          key[c] # Nil => handled[c] # <<>> \/ Over(c) \/ ~Acceptable(req[c])
    BY <1>1 DEF IInv, CalmInv
  <2>6. ASSUME Ready = {}, NEW c \in open, arrived[c] = Total(req[c]), Acceptable(req[c])
        PROVE  FALSE
    <3>1. ~(arrived[c] > taken[c])
      BY <2>6 DEF Ready
    <3>2. c \in Conns /\ peer[c] # "new"
      BY <1>1, OpenKnown DEF IInv
    <3>3. taken[c] = Total(req[c])
      BY <1>1, <2>6, <3>1, <3>2 DEF IInv, SafeInv, Types, ConnInv
    <3>4. Waiting(c, taken[c])
      BY <1>1, <2>3 DEF IInv, SafeInv, BufferInv
    <3>5. req[c] \in Request
      BY <1>1, <3>2, RequestOf DEF IInv, SafeInv
    <3> QED BY <2>6, <3>2, <3>3, <3>4, <3>5, WholeNotWaiting
  <2> QED BY <2>3, <2>4, <2>5, <2>6
<1> QED BY WebInvariant, <1>1, PTL
=============================================================================
