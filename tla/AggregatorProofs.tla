--------------------------- MODULE AggregatorProofs ---------------------------
(***************************************************************************)
(* Proofs about Aggregator, for any connections, plugins, measurements,    *)
(* events, sizes and cap.                                                  *)
(***************************************************************************)
EXTENDS Aggregator, FoldLemmas, SequenceTheorems, TLAPS

LogText == {"elsewhere", "unknown plugin", "failed to deser", "still open"}

Reported == [measurements : SUBSET Measurement, events : Seq(Event)]
Report == [measurements : SUBSET Measurement, nics : SUBSET STRING,
           connections : SUBSET Connection, events : Seq(Event)]

\* Connections still to be read, and what is in their histograms.
ToRead == live \cup ToSet(zombies)
HeldBy(histograms, L) == UNION {histograms[c] : c \in L}
Unread == HeldBy(held, ToRead)

-----------------------------------------------------------------------------
(***************************************************************************)
(* The inductive invariant.                                                *)
(***************************************************************************)

\* TypeOK, component by component, with the histories, and the speed that a
\* NIC may be given.
ConnectionTypes ==
  /\ live \subseteq added /\ added \subseteq Connection
  /\ zombies \in Seq(added \ live)
  /\ held \in [Connection -> SUBSET Measurement]

NicTypes ==
  /\ DOMAIN nics \subseteq STRING
  /\ \A n \in DOMAIN nics : nics[n] \in {200, 400}
  /\ speed \in [known : BOOLEAN, nic : {0, 200, 400}]
  /\ speed.known => speed.nic # 0

QueueTypes == logs \in Queue(LogText) /\ events \in Queue(Event)

MessageTypes ==
  /\ reader \in [at : {"idle", "connections", "events", "parse"},
                 unread : SUBSET Connection, local : Seq(Event)]
  /\ cleaned \in BOOLEAN
  /\ accepted \in Reported /\ reported \in Reported /\ report \in Report

TypeInv == ConnectionTypes /\ NicTypes /\ QueueTypes /\ MessageTypes

\* The reader has connections to visit only while it holds connections_mtx_,
\* and a message only while it is building one.
ReaderInv ==
  /\ reader.at # "connections" => reader.unread = {}
  /\ reader.at = "idle" => report = NoReport

\* A measurement is in the histograms of its own connection only, and of none
\* that was not added.
HeldInv ==
  /\ \A c \in Connection : \A m \in held[c] : SourceOf[m] = c
  /\ \A c \in Connection \ added : held[c] = {}

\* From the time the events are swapped out until the connections are read
\* again, no event is left of a connection that has been freed.
SilenceInv ==
  ~cleaned /\ reader.at \in {"idle", "parse"} =>
    \A c \in added \ ToRead : \A e \in ToSet(events.queue) : SourceOf[e] # c

IInv ==
  /\ TypeInv
  /\ ReaderInv
  /\ HeldInv
  /\ SilenceInv
  /\ ReaderVisitsLive
  /\ DeletionLosesNothing

-----------------------------------------------------------------------------
(***************************************************************************)
(* Sequences and queues.                                                   *)
(***************************************************************************)

LEMMA AppendTyped ==
  ASSUME NEW S, NEW s \in Seq(S), NEW e \in S
  PROVE  Append(s, e) \in Seq(S)
OBVIOUS

LEMMA SetOfEmpty == ToSet(<<>>) = {}
BY DEF ToSet

LEMMA SetOfSeq ==
  ASSUME NEW S, NEW s \in Seq(S)
  PROVE  ToSet(s) \subseteq S
BY ElementOfSeq DEF ToSet

\* The elements of a sequence and one appended.
LEMMA SetOfAppend ==
  ASSUME NEW S, NEW s \in Seq(S), NEW e
  PROVE  ToSet(Append(s, e)) = ToSet(s) \cup {e}
<1>1. /\ DOMAIN Append(s, e) = 1 .. Len(s) + 1 /\ DOMAIN s = 1 .. Len(s)
      /\ Len(s) \in Nat
      /\ \A i \in 1 .. Len(s) : Append(s, e)[i] = s[i]
      /\ Append(s, e)[Len(s) + 1] = e
  OBVIOUS
<1>2. \A x : x \in ToSet(Append(s, e)) <=> \E i \in 1 .. Len(s) + 1 : x = Append(s, e)[i]
  BY <1>1 DEF ToSet
<1>3. \A x : x \in ToSet(s) <=> \E i \in 1 .. Len(s) : x = s[i]
  BY <1>1 DEF ToSet
<1>4. \A i \in 1 .. Len(s) + 1 : i \in 1 .. Len(s) \/ i = Len(s) + 1
  BY <1>1
<1>5. \A i \in 1 .. Len(s) : i \in 1 .. Len(s) + 1
  BY <1>1
<1>6. Len(s) + 1 \in 1 .. Len(s) + 1
  BY <1>1
<1> QED
  BY <1>1, <1>2, <1>3, <1>4, <1>5, <1>6

\* The elements of a sequence, its head apart.
LEMMA SetOfTail ==
  ASSUME NEW S, NEW s \in Seq(S), s # <<>>
  PROVE  /\ Head(s) \in S /\ Tail(s) \in Seq(S)
         /\ ToSet(s) = ToSet(Tail(s)) \cup {Head(s)}
<1>1. /\ Head(s) \in S /\ Tail(s) \in Seq(S) /\ Head(s) = s[1]
      /\ Len(s) \in Nat \ {0} /\ Len(Tail(s)) = Len(s) - 1
      /\ \A i \in 1 .. Len(s) - 1 : Tail(s)[i] = s[i + 1]
  BY HeadTailProperties, EmptySeq
<1>2. DOMAIN s = 1 .. Len(s) /\ DOMAIN Tail(s) = 1 .. Len(s) - 1
  BY <1>1, LenProperties
<1>3. \A x : x \in ToSet(Tail(s)) <=> \E i \in 1 .. Len(s) - 1 : x = s[i + 1]
  BY <1>1, <1>2 DEF ToSet
<1>4. \A x : x \in ToSet(s) <=> \E i \in 1 .. Len(s) : x = s[i]
  BY <1>2 DEF ToSet
<1>5. \A i \in 1 .. Len(s) : i = 1 \/ (i - 1 \in 1 .. Len(s) - 1 /\ (i - 1) + 1 = i)
  BY <1>1
<1>6. 1 \in 1 .. Len(s) /\ \A i \in 1 .. Len(s) - 1 : i + 1 \in 1 .. Len(s)
  BY <1>1
<1>7. ASSUME NEW x \in ToSet(s)
      PROVE  x \in ToSet(Tail(s)) \cup {Head(s)}
  <2>1. PICK i \in 1 .. Len(s) : x = s[i]
    BY <1>4, <1>7
  <2> QED
    BY <1>1, <1>3, <1>5, <2>1
<1>8. ASSUME NEW x \in ToSet(Tail(s)) \cup {Head(s)}
      PROVE  x \in ToSet(s)
  BY <1>1, <1>3, <1>4, <1>6, <1>8
<1> QED
  BY <1>1, <1>7, <1>8

\* A queue keeps its type when it is emptied or something that fits is added.
LEMMA QueuePush ==
  ASSUME NEW S, NEW q \in Queue(S), NEW x \in S, NEW n \in Nat, Fits(q, n)
  PROVE  Push(q, x, n) \in Queue(S)
BY AggregatorAssumption DEF Queue, Push, Fits

LEMMA QueueEmpty ==
  ASSUME NEW S
  PROVE  Empty \in Queue(S)
BY AggregatorAssumption, EmptySeq DEF Queue, Empty

LEMMA LogQueued ==
  ASSUME QueueTypes, NEW text \in LogText
  PROVE  AddLogMsg(text) \in Queue(LogText)
<1>1. logs \in Queue(LogText) /\ LogSize \in Nat
  BY AggregatorAssumption DEF QueueTypes
<1>2. CASE Fits(logs, LogSize)
  BY <1>1, <1>2, QueuePush DEF AddLogMsg
<1>3. CASE ~Fits(logs, LogSize)
  BY <1>1, <1>3 DEF AddLogMsg
<1> QED
  BY <1>2, <1>3

-----------------------------------------------------------------------------
(***************************************************************************)
(* What deletion must not lose.                                            *)
(***************************************************************************)

LEMMA InUnion ==
  ASSUME NEW f, NEW L, NEW m
  PROVE  m \in HeldBy(f, L) <=> \E x \in L : m \in f[x]
BY DEF HeldBy

\* Reading a connection takes its measurements, and no other's, out of what is
\* still to be read, whether or not the connection stays.
LEMMA UnreadAfterRead ==
  ASSUME NEW c \in Connection, NEW L \in SUBSET Connection, NEW M \in SUBSET Connection,
         c \in L, M \cup {c} = L,
         held \in [Connection -> SUBSET Measurement], HeldInv
  PROVE  HeldBy([held EXCEPT ![c] = {}], M) = HeldBy(held, L) \ held[c]
<1>1. \A x \in M : [held EXCEPT ![c] = {}][x] = IF x = c THEN {} ELSE held[x]
  OBVIOUS
<1>2. \A x \in L \ {c} : x \in M /\ held[x] \cap held[c] = {}
  BY DEF HeldInv
<1>3. ASSUME NEW x \in M, NEW m \in [held EXCEPT ![c] = {}][x]
      PROVE  m \in HeldBy(held, L) \ held[c]
  <2>1. x # c /\ x \in L /\ m \in held[x]
    BY <1>1, <1>3
  <2>2. m \notin held[c]
    BY <1>2, <2>1
  <2>3. m \in HeldBy(held, L)
    BY <2>1, InUnion
  <2> QED
    BY <2>2, <2>3
<1>4. ASSUME NEW x \in L, NEW m \in held[x], m \notin held[c]
      PROVE  m \in HeldBy([held EXCEPT ![c] = {}], M)
  <2>1. x \in M /\ m \in [held EXCEPT ![c] = {}][x]
    BY <1>1, <1>2, <1>4
  <2> QED
    BY <2>1, InUnion
<1>5. ASSUME NEW m \in HeldBy([held EXCEPT ![c] = {}], M)
      PROVE  m \in HeldBy(held, L) \ held[c]
  <2>1. PICK x \in M : m \in [held EXCEPT ![c] = {}][x]
    BY <1>5, InUnion
  <2> QED
    BY <1>3, <2>1
<1>6. \A m \in HeldBy(held, L) \ held[c] :
        m \in HeldBy([held EXCEPT ![c] = {}], M)
  BY <1>4, InUnion
<1> QED
  BY <1>5, <1>6

LEMMA Conserved ==
  DeletionLosesNothing <=>
    (~cleaned =>
       /\ accepted.measurements = Unread \cup report.measurements \cup reported.measurements
       /\ Unread \cap (report.measurements \cup reported.measurements) = {}
       /\ report.measurements \cap reported.measurements = {})
BY DEF DeletionLosesNothing, Unread, HeldBy, ToRead

LEMMA ToReadTyped ==
  ASSUME ConnectionTypes
  PROVE  ToRead \subseteq added /\ ToRead \subseteq Connection
BY SetOfSeq DEF ConnectionTypes, ToRead

-----------------------------------------------------------------------------
(***************************************************************************)
(* The actions.                                                            *)
(***************************************************************************)

LEMMA LogFromElsewhereStep ==
  ASSUME IInv, LogFromElsewhere
  PROVE  IInv'
<1> USE DEF IInv, LogFromElsewhere, connectionVars, readerVars
<1>1. TypeInv'
  <2>1. ConnectionTypes'
    BY DEF TypeInv, ConnectionTypes
  <2>2. NicTypes'
    BY DEF TypeInv, NicTypes
  <2>3. QueueTypes'
    BY LogQueued DEF TypeInv, QueueTypes, LogText
  <2>4. MessageTypes'
    BY DEF TypeInv, MessageTypes
  <2> QED
    BY <2>1, <2>2, <2>3, <2>4 DEF TypeInv
<1>2. ReaderInv'
  BY DEF ReaderInv
<1>3. HeldInv'
  BY DEF HeldInv
<1>4. SilenceInv'
  BY DEF SilenceInv, ToRead
<1>5. ReaderVisitsLive'
  BY DEF ReaderVisitsLive, ReaderInv
<1>6. DeletionLosesNothing'
  BY DEF DeletionLosesNothing
<1> QED
  BY <1>1, <1>2, <1>3, <1>4, <1>5, <1>6

LEMMA AddEventStep ==
  ASSUME IInv, NEW e \in Event, AddEvent(e)
  PROVE  IInv'
<1> USE DEF IInv, AddEvent, connectionVars, readerVars
<1>1. TypeInv'
  <2>1. ConnectionTypes'
    BY DEF TypeInv, ConnectionTypes
  <2>2. NicTypes'
    BY DEF TypeInv, NicTypes
  <2>3. QueueTypes'
    BY QueuePush, AggregatorAssumption DEF TypeInv, QueueTypes
  <2>4. MessageTypes'
    <3>1. accepted' \in Reported
      <4>1. Append(accepted.events, e) \in Seq(Event)
        BY DEF TypeInv, MessageTypes, Reported
      <4> QED
        BY <4>1 DEF TypeInv, MessageTypes, Reported
    <3> QED
      BY <3>1 DEF TypeInv, MessageTypes
  <2> QED
    BY <2>1, <2>2, <2>3, <2>4 DEF TypeInv
<1>2. ReaderInv'
  BY DEF ReaderInv
<1>3. HeldInv'
  BY DEF HeldInv
<1>4. SilenceInv'
  <2>1. ToSet(events'.queue) = ToSet(events.queue) \cup {e}
    <3>1. events.queue \in Seq(Event) /\ events'.queue = Append(events.queue, e)
      BY DEF TypeInv, QueueTypes, Queue, Push
    <3> QED
      BY <3>1, SetOfAppend
  <2> QED
    BY <2>1 DEF SilenceInv, ToRead
<1>5. ReaderVisitsLive'
  BY DEF ReaderVisitsLive, ReaderInv
<1>6. DeletionLosesNothing'
  BY DEF DeletionLosesNothing, TypeInv, MessageTypes, Reported
<1> QED
  BY <1>1, <1>2, <1>3, <1>4, <1>5, <1>6

LEMMA AddConnectionStep ==
  ASSUME IInv, NEW c \in Connection, AddConnection(c)
  PROVE  IInv'
<1> USE DEF IInv, AddConnection, ConnectionsMtxFree, readerVars
<1>1. TypeInv'
  <2>1. ConnectionTypes'
    <3>1. added' \ live' = added \ live
      BY DEF TypeInv, ConnectionTypes
    <3> QED
      BY <3>1 DEF TypeInv, ConnectionTypes
  <2>2. NicTypes'
    <3>1. speed' \in [known : BOOLEAN, nic : {0, 200, 400}] /\ speed'.nic \in {200, 400}
      BY DEF TypeInv, NicTypes, InitConstants, NicSpeed
    <3>2. DOMAIN nics' \subseteq STRING
      BY AggregatorAssumption DEF TypeInv, NicTypes, AllocateBWStats
    <3>3. ASSUME NEW n \in DOMAIN nics'
          PROVE  nics'[n] \in {200, 400}
      BY <3>1 DEF TypeInv, NicTypes, AllocateBWStats
    <3> QED
      BY <3>1, <3>2, <3>3 DEF NicTypes
  <2>3. QueueTypes'
    BY LogQueued DEF TypeInv, QueueTypes, LogText, InitConstants
  <2>4. MessageTypes'
    BY DEF TypeInv, MessageTypes
  <2> QED
    BY <2>1, <2>2, <2>3, <2>4 DEF TypeInv
<1>2. ReaderInv'
  BY DEF ReaderInv
<1>3. HeldInv'
  BY DEF HeldInv
<1>4. SilenceInv'
  BY DEF SilenceInv, ToRead
<1>5. ReaderVisitsLive'
  BY DEF ReaderVisitsLive, ReaderInv
<1>6. DeletionLosesNothing'
  <2>1. ToRead' = ToRead \cup {c} /\ held[c] = {}
    BY DEF ToRead, HeldInv
  <2>2. Unread' = Unread
    BY <2>1 DEF Unread, HeldBy
  <2> QED
    BY <2>2, Conserved DEF DeletionLosesNothing, Unread, HeldBy, ToRead
<1> QED
  BY <1>1, <1>2, <1>3, <1>4, <1>5, <1>6

LEMMA NotifyOperationMeasurementStep ==
  ASSUME IInv, NEW m \in Measurement, NotifyOperationMeasurement(m)
  PROVE  IInv'
<1> USE DEF IInv, NotifyOperationMeasurement, connectionVars, readerVars
<1>a. SourceOf[m] \in live /\ SourceOf[m] \in Connection
  BY DEF TypeInv, ConnectionTypes
<1>1. TypeInv'
  <2>1. ConnectionTypes'
    BY DEF TypeInv, ConnectionTypes
  <2>2. NicTypes'
    BY DEF TypeInv, NicTypes
  <2>3. QueueTypes'
    BY DEF TypeInv, QueueTypes
  <2>4. MessageTypes'
    <3>1. accepted' \in Reported
      BY DEF TypeInv, MessageTypes, Reported
    <3> QED
      BY <3>1 DEF TypeInv, MessageTypes
  <2> QED
    BY <2>1, <2>2, <2>3, <2>4 DEF TypeInv
<1>2. ReaderInv'
  BY DEF ReaderInv
<1>3. HeldInv'
  <2>1. \A c \in Connection : held'[c] = IF c = SourceOf[m] THEN held[c] \cup {m} ELSE held[c]
    BY DEF TypeInv, ConnectionTypes
  <2> QED
    BY <1>a, <2>1 DEF HeldInv, TypeInv, ConnectionTypes
<1>4. SilenceInv'
  BY DEF SilenceInv, ToRead
<1>5. ReaderVisitsLive'
  BY DEF ReaderVisitsLive, ReaderInv
<1>6. DeletionLosesNothing'
  <2>1. Unread' = Unread \cup {m}
    <3>1. ToRead' = ToRead /\ ToRead \subseteq Connection /\ SourceOf[m] \in ToRead
      BY <1>a, ToReadTyped DEF ToRead, TypeInv
    <3>2. \A c \in Connection : held'[c] = IF c = SourceOf[m] THEN held[c] \cup {m} ELSE held[c]
      BY DEF TypeInv, ConnectionTypes
    <3>3. \A x : x \in Unread' <=> \E c \in ToRead : x \in held'[c]
      BY <3>1 DEF Unread, HeldBy
    <3>4. \A x : x \in Unread <=> \E c \in ToRead : x \in held[c]
      BY DEF Unread, HeldBy
    <3>5. \A x \in Unread' : x \in Unread \cup {m}
      BY <3>1, <3>2, <3>3, <3>4
    <3>6. \A x \in Unread \cup {m} : x \in Unread'
      BY <3>1, <3>2, <3>3, <3>4
    <3> QED
      BY <3>5, <3>6
  <2>2. accepted'.measurements = accepted.measurements \cup {m}
    BY DEF TypeInv, MessageTypes, Reported
  <2> QED
    BY <2>1, <2>2 DEF DeletionLosesNothing, Unread, HeldBy, ToRead
<1> QED
  BY <1>1, <1>2, <1>3, <1>4, <1>5, <1>6

LEMMA DeleteConnectionStep ==
  ASSUME IInv, NEW c \in Connection, DeleteConnection(c)
  PROVE  IInv'
<1> USE DEF IInv, DeleteConnection, ConnectionsMtxFree, readerVars
<1>a. ToRead' = ToRead
  <2>1. ToSet(zombies') = ToSet(zombies) \cup {c}
    BY SetOfAppend DEF TypeInv, ConnectionTypes
  <2> QED
    BY <2>1 DEF ToRead
<1>1. TypeInv'
  <2>1. ConnectionTypes'
    <3>1. added \ live' = (added \ live) \cup {c} /\ live' \subseteq added
      BY DEF TypeInv, ConnectionTypes
    <3>2. zombies \in Seq(added \ live')
      BY <3>1, SeqMonotonic DEF TypeInv, ConnectionTypes
    <3>3. zombies' \in Seq(added \ live')
      BY <3>1, <3>2
    <3> QED
      BY <3>1, <3>3 DEF TypeInv, ConnectionTypes
  <2>2. NicTypes'
    BY DEF TypeInv, NicTypes
  <2>3. QueueTypes'
    BY DEF TypeInv, QueueTypes
  <2>4. MessageTypes'
    BY DEF TypeInv, MessageTypes
  <2> QED
    BY <2>1, <2>2, <2>3, <2>4 DEF TypeInv
<1>2. ReaderInv'
  BY DEF ReaderInv
<1>3. HeldInv'
  BY DEF HeldInv
<1>4. SilenceInv'
  BY <1>a DEF SilenceInv
<1>5. ReaderVisitsLive'
  BY DEF ReaderVisitsLive, ReaderInv
<1>6. DeletionLosesNothing'
  <2>1. Unread' = Unread
    BY <1>a DEF Unread
  <2> QED
    BY <2>1 DEF DeletionLosesNothing, Unread, HeldBy, ToRead
<1> QED
  BY <1>1, <1>2, <1>3, <1>4, <1>5, <1>6

LEMMA ReadNicStatsStep ==
  ASSUME IInv, ReadNicStats
  PROVE  IInv'
<1> USE DEF IInv, ReadNicStats, At, connectionVars
<1>1. TypeInv'
  <2>1. ConnectionTypes'
    BY DEF TypeInv, ConnectionTypes
  <2>2. NicTypes'
    BY DEF TypeInv, NicTypes
  <2>3. QueueTypes'
    BY DEF TypeInv, QueueTypes
  <2>4. MessageTypes'
    <3>1. report' \in Report
      BY EmptySeq DEF TypeInv, NicTypes, Report, NoReport
    <3>2. reader' \in [at : {"idle", "connections", "events", "parse"},
                      unread : SUBSET Connection, local : Seq(Event)]
      BY DEF TypeInv, MessageTypes, ConnectionTypes
    <3> QED
      BY <3>1, <3>2 DEF TypeInv, MessageTypes
  <2> QED
    BY <2>1, <2>2, <2>3, <2>4 DEF TypeInv
<1>2. ReaderInv'
  BY DEF ReaderInv
<1>3. HeldInv'
  BY DEF HeldInv
<1>4. SilenceInv'
  BY DEF SilenceInv, ToRead
<1>5. ReaderVisitsLive'
  BY DEF ReaderVisitsLive, ReaderInv
<1>6. DeletionLosesNothing'
  BY DEF DeletionLosesNothing, ReaderInv, NoReport
<1> QED
  BY <1>1, <1>2, <1>3, <1>4, <1>5, <1>6

LEMMA ReadConnectionStep ==
  ASSUME IInv, NEW c \in Connection, ReadConnection(c)
  PROVE  IInv'
<1> USE DEF IInv, ReadConnection, ReadStats, At, connectionVars
<1>a. c \in live /\ c \in ToRead /\ held[c] \subseteq Measurement
      /\ ToRead' = ToRead /\ ToRead \subseteq Connection
  BY ToReadTyped DEF ReaderVisitsLive, ToRead, TypeInv, ConnectionTypes
<1>1. TypeInv'
  <2>1. ConnectionTypes'
    BY DEF TypeInv, ConnectionTypes
  <2>2. NicTypes'
    BY DEF TypeInv, NicTypes
  <2>3. QueueTypes'
    BY DEF TypeInv, QueueTypes
  <2>4. MessageTypes'
    <3>1. report' \in Report
      BY <1>a DEF TypeInv, MessageTypes, Report
    <3>2. reader' \in [at : {"idle", "connections", "events", "parse"},
                      unread : SUBSET Connection, local : Seq(Event)]
      BY DEF TypeInv, MessageTypes
    <3> QED
      BY <3>1, <3>2 DEF TypeInv, MessageTypes
  <2> QED
    BY <2>1, <2>2, <2>3, <2>4 DEF TypeInv
<1>2. ReaderInv'
  BY DEF ReaderInv, TypeInv, MessageTypes
<1>3. HeldInv'
  <2>1. \A x \in Connection : held'[x] = IF x = c THEN {} ELSE held[x]
    BY DEF TypeInv, ConnectionTypes
  <2> QED
    BY <2>1 DEF HeldInv
<1>4. SilenceInv'
  BY DEF SilenceInv, TypeInv, MessageTypes
<1>5. ReaderVisitsLive'
  BY DEF ReaderVisitsLive, TypeInv, MessageTypes
<1>6. DeletionLosesNothing'
  <2>1. Unread' = Unread \ held[c] /\ held[c] \subseteq Unread
    <3>1. /\ held \in [Connection -> SUBSET Measurement]
          /\ ToRead \in SUBSET Connection /\ ToRead \cup {c} = ToRead
      BY <1>a DEF TypeInv, ConnectionTypes
    <3>a. HeldInv /\ c \in Connection /\ c \in ToRead
      BY <1>a
    <3>b. HeldBy([held EXCEPT ![c] = {}], ToRead') = HeldBy(held, ToRead) \ held[c]
      BY <1>a, <3>1, <3>a, UnreadAfterRead
    <3>c. held[c] \subseteq Unread
      BY <3>a DEF Unread, HeldBy
    <3>d. held' = [held EXCEPT ![c] = {}]
      BY <3>1
    <3> HIDE DEF IInv, ReadConnection, ReadStats
    <3>e. Unread' = HeldBy(held', ToRead') /\ Unread = HeldBy(held, ToRead)
      BY DEF Unread
    <3> QED
      BY <3>b, <3>c, <3>d, <3>e
  <2>2. report'.measurements = report.measurements \cup held[c]
    BY DEF TypeInv, MessageTypes, Report
  <2> QED
    BY <2>1, <2>2 DEF DeletionLosesNothing, Unread, HeldBy, ToRead
<1> QED
  BY <1>1, <1>2, <1>3, <1>4, <1>5, <1>6

LEMMA ReadZombieStep ==
  ASSUME IInv, ReadZombie
  PROVE  IInv'
<1> USE DEF IInv, ReadZombie, ReadStats, At
<1> DEFINE c == Head(zombies)
<1>a. /\ c \in added \ live /\ c \in Connection
      /\ zombies' \in Seq(added \ live)
      /\ ToSet(zombies) = ToSet(zombies') \cup {c}
  <2>1. zombies \in Seq(added \ live) /\ zombies # <<>> /\ zombies' = Tail(zombies)
        /\ added \ live \subseteq Connection
    BY DEF TypeInv, ConnectionTypes
  <2> QED
    BY <2>1, SetOfTail
<1>b. held[c] \subseteq Measurement
  BY <1>a DEF TypeInv, ConnectionTypes
<1> HIDE DEF c
<1>1. TypeInv'
  <2>1. ConnectionTypes'
    BY <1>a DEF TypeInv, ConnectionTypes
  <2>2. NicTypes'
    BY DEF TypeInv, NicTypes
  <2>3. QueueTypes'
    BY DEF TypeInv, QueueTypes
  <2>4. MessageTypes'
    <3>1. report' \in Report
      BY <1>a, <1>b DEF TypeInv, MessageTypes, Report, c
    <3> QED
      BY <3>1 DEF TypeInv, MessageTypes
  <2> QED
    BY <2>1, <2>2, <2>3, <2>4 DEF TypeInv
<1>2. ReaderInv'
  BY DEF ReaderInv
<1>3. HeldInv'
  <2>1. \A x \in Connection : held'[x] = IF x = c THEN {} ELSE held[x]
    BY DEF TypeInv, ConnectionTypes, c
  <2> QED
    BY <2>1 DEF HeldInv
<1>4. SilenceInv'
  BY DEF SilenceInv, ToRead
<1>5. ReaderVisitsLive'
  BY DEF ReaderVisitsLive, ReaderInv
<1>6. DeletionLosesNothing'
  <2>1. ToRead' \cup {c} = ToRead /\ ToRead \subseteq Connection /\ c \in ToRead
    BY <1>a, ToReadTyped DEF ToRead, TypeInv
  <2>2. Unread' = Unread \ held[c] /\ held[c] \subseteq Unread
    <3>1. /\ held \in [Connection -> SUBSET Measurement]
          /\ ToRead' \in SUBSET Connection /\ ToRead \in SUBSET Connection
      BY <2>1 DEF TypeInv, ConnectionTypes
    <3>2. held' = [held EXCEPT ![c] = {}]
      BY DEF c
    <3>a. HeldInv /\ c \in Connection /\ c \in ToRead
      BY <1>a, <2>1
    <3>b. HeldBy([held EXCEPT ![c] = {}], ToRead') = HeldBy(held, ToRead) \ held[c]
      BY <1>a, <2>1, <3>1, <3>2, <3>a, UnreadAfterRead
    <3>c. held[c] \subseteq Unread
      BY <3>a DEF Unread, HeldBy
    <3>d. held' = [held EXCEPT ![c] = {}]
      BY <3>2
    <3> HIDE DEF IInv, ReadZombie, ReadStats
    <3>e. Unread' = HeldBy(held', ToRead') /\ Unread = HeldBy(held, ToRead)
      BY DEF Unread
    <3> QED
      BY <3>b, <3>c, <3>d, <3>e
  <2>3. report'.measurements = report.measurements \cup held[c]
    BY DEF TypeInv, MessageTypes, Report, c
  <2> QED
    BY <2>2, <2>3 DEF DeletionLosesNothing, Unread, HeldBy, ToRead
<1> QED
  BY <1>1, <1>2, <1>3, <1>4, <1>5, <1>6

LEMMA ReadLogMessagesStep ==
  ASSUME IInv, ReadLogMessages
  PROVE  IInv'
<1> USE DEF IInv, ReadLogMessages, At, connectionVars
<1>1. TypeInv'
  <2>1. ConnectionTypes'
    BY DEF TypeInv, ConnectionTypes
  <2>2. NicTypes'
    BY DEF TypeInv, NicTypes
  <2>3. QueueTypes'
    BY QueueEmpty DEF TypeInv, QueueTypes
  <2>4. MessageTypes'
    BY DEF TypeInv, MessageTypes
  <2> QED
    BY <2>1, <2>2, <2>3, <2>4 DEF TypeInv
<1>2. ReaderInv'
  BY DEF ReaderInv
<1>3. HeldInv'
  BY DEF HeldInv
<1>4. SilenceInv'
  BY DEF SilenceInv, TypeInv, MessageTypes
<1>5. ReaderVisitsLive'
  BY DEF ReaderVisitsLive, ReaderInv
<1>6. DeletionLosesNothing'
  BY DEF DeletionLosesNothing
<1> QED
  BY <1>1, <1>2, <1>3, <1>4, <1>5, <1>6

LEMMA SwapEventsStep ==
  ASSUME IInv, SwapEvents
  PROVE  IInv'
<1> USE DEF IInv, SwapEvents, At, connectionVars
<1>1. TypeInv'
  <2>1. ConnectionTypes'
    BY DEF TypeInv, ConnectionTypes
  <2>2. NicTypes'
    BY DEF TypeInv, NicTypes
  <2>3. QueueTypes'
    BY QueueEmpty DEF TypeInv, QueueTypes
  <2>4. MessageTypes'
    BY DEF TypeInv, MessageTypes, QueueTypes, Queue
  <2> QED
    BY <2>1, <2>2, <2>3, <2>4 DEF TypeInv
<1>2. ReaderInv'
  BY DEF ReaderInv
<1>3. HeldInv'
  BY DEF HeldInv
<1>4. SilenceInv'
  BY SetOfEmpty DEF SilenceInv, Empty
<1>5. ReaderVisitsLive'
  BY DEF ReaderVisitsLive, ReaderInv
<1>6. DeletionLosesNothing'
  BY DEF DeletionLosesNothing
<1> QED
  BY <1>1, <1>2, <1>3, <1>4, <1>5, <1>6

LEMMA ParseEventStep ==
  ASSUME IInv, ParseEvent
  PROVE  IInv'
<1> USE DEF IInv, ParseEvent, At, connectionVars
<1>1. TypeInv'
  <2>1. ConnectionTypes'
    BY DEF TypeInv, ConnectionTypes
  <2>2. NicTypes'
    BY DEF TypeInv, NicTypes
  <2>3. QueueTypes'
    BY LogQueued DEF TypeInv, QueueTypes, LogText
  <2>4. MessageTypes'
    <3>1. Head(reader.local) \in Event /\ Tail(reader.local) \in Seq(Event)
      BY SetOfTail DEF TypeInv, MessageTypes
    <3>2. Append(report.events, Head(reader.local)) \in Seq(Event)
      <4>1. report.events \in Seq(Event)
        BY DEF TypeInv, MessageTypes, Report
      <4> QED
        BY <3>1, <4>1, AppendTyped
    <3>3. report' \in Report
      BY <3>2 DEF TypeInv, MessageTypes, Report
    <3> QED
      BY <3>1, <3>3 DEF TypeInv, MessageTypes
  <2> QED
    BY <2>1, <2>2, <2>3, <2>4 DEF TypeInv
<1>2. ReaderInv'
  BY DEF ReaderInv, TypeInv, MessageTypes
<1>3. HeldInv'
  BY DEF HeldInv
<1>4. SilenceInv'
  BY DEF SilenceInv, ToRead
<1>5. ReaderVisitsLive'
  BY DEF ReaderVisitsLive, TypeInv, MessageTypes
<1>6. DeletionLosesNothing'
  <2>1. report'.measurements = report.measurements
    BY DEF TypeInv, MessageTypes, Report
  <2>2. Unread' = Unread
    BY DEF Unread, ToRead
  <2>3. (~cleaned)' => ~cleaned
    OBVIOUS
  <2>4. accepted' = accepted /\ reported' = reported
    OBVIOUS
  <2> HIDE DEF IInv, ParseEvent
  <2>5. DeletionLosesNothing
    BY DEF IInv
  <2> QED
    BY <2>1, <2>2, <2>3, <2>4, <2>5 DEF DeletionLosesNothing, Unread, HeldBy, ToRead
<1> QED
  BY <1>1, <1>2, <1>3, <1>4, <1>5, <1>6

LEMMA ReturnReportStep ==
  ASSUME IInv, ReturnReport
  PROVE  IInv'
<1> USE DEF IInv, ReturnReport, At, connectionVars
<1>1. TypeInv'
  <2>1. ConnectionTypes'
    BY DEF TypeInv, ConnectionTypes
  <2>2. NicTypes'
    BY DEF TypeInv, NicTypes
  <2>3. QueueTypes'
    BY DEF TypeInv, QueueTypes
  <2>4. MessageTypes'
    <3>1. report' \in Report
      BY EmptySeq DEF Report, NoReport
    <3>2. reported.events \o report.events \in Seq(Event)
      BY ConcatProperties DEF TypeInv, MessageTypes, Report, Reported
    <3>3. reported' \in Reported
      BY <3>2 DEF TypeInv, MessageTypes, Report, Reported
    <3>4. reader' \in [at : {"idle", "connections", "events", "parse"},
                      unread : SUBSET Connection, local : Seq(Event)]
      BY DEF TypeInv, MessageTypes
    <3> QED
      BY <3>1, <3>3, <3>4 DEF TypeInv, MessageTypes
  <2> QED
    BY <2>1, <2>2, <2>3, <2>4 DEF TypeInv
<1>2. ReaderInv'
  BY DEF ReaderInv, TypeInv, MessageTypes
<1>3. HeldInv'
  BY DEF HeldInv
<1>4. SilenceInv'
  BY DEF SilenceInv, ToRead
<1>5. ReaderVisitsLive'
  BY DEF ReaderVisitsLive, TypeInv, MessageTypes
<1>6. DeletionLosesNothing'
  <2>1. reported'.measurements = reported.measurements \cup report.measurements
        /\ report'.measurements = {}
    BY DEF NoReport
  <2>2. Unread' = Unread
    BY DEF Unread, ToRead
  <2>3. (~cleaned => accepted.measurements = Unread \cup report.measurements \cup reported.measurements
        /\ Unread \cap (report.measurements \cup reported.measurements) = {})
    BY Conserved
  <2> QED
    BY <2>1, <2>2, <2>3 DEF DeletionLosesNothing, Unread, HeldBy, ToRead
<1> QED
  BY <1>1, <1>2, <1>3, <1>4, <1>5, <1>6

LEMMA CleanStep ==
  ASSUME IInv, Clean
  PROVE  IInv'
<1> USE DEF IInv, Clean, At, readerVars
<1>1. TypeInv'
  <2>1. ConnectionTypes'
    BY EmptySeq DEF TypeInv, ConnectionTypes
  <2>2. NicTypes'
    BY DEF TypeInv, NicTypes
  <2>3. QueueTypes'
    BY LogQueued DEF TypeInv, QueueTypes, LogText
  <2>4. MessageTypes'
    BY DEF TypeInv, MessageTypes
  <2> QED
    BY <2>1, <2>2, <2>3, <2>4 DEF TypeInv
<1>2. ReaderInv'
  BY DEF ReaderInv
<1>3. HeldInv'
  BY DEF HeldInv
<1>4. SilenceInv'
  BY DEF SilenceInv, ToRead
<1>5. ReaderVisitsLive'
  BY DEF ReaderVisitsLive, ReaderInv
<1>6. DeletionLosesNothing'
  BY DEF DeletionLosesNothing
<1> QED
  BY <1>1, <1>2, <1>3, <1>4, <1>5, <1>6

LEMMA Initially ==
  ASSUME Init
  PROVE  IInv
<1> USE DEF Init
<1>1. TypeInv
  <2>1. ConnectionTypes
    BY EmptySeq DEF ConnectionTypes
  <2>2. NicTypes
    BY DEF NicTypes
  <2>3. QueueTypes
    BY QueueEmpty DEF QueueTypes
  <2>4. MessageTypes
    BY EmptySeq DEF MessageTypes, Nothing, NoReport, Report, Reported
  <2> QED
    BY <2>1, <2>2, <2>3, <2>4 DEF TypeInv
<1>2. ReaderInv /\ HeldInv /\ ReaderVisitsLive
  BY DEF ReaderInv, HeldInv, ReaderVisitsLive
<1>3. ToSet(zombies) = {}
  BY SetOfEmpty
<1>4. SilenceInv /\ DeletionLosesNothing
  BY <1>3 DEF SilenceInv, DeletionLosesNothing, Nothing, NoReport
<1> QED
  BY <1>1, <1>2, <1>4 DEF IInv

LEMMA Stuttering ==
  ASSUME IInv, UNCHANGED vars
  PROVE  IInv'
<1> USE DEF vars, connectionVars, readerVars
<1>1. TypeInv'
  BY DEF IInv, TypeInv, ConnectionTypes, NicTypes, QueueTypes, MessageTypes
<1>2. ReaderInv' /\ HeldInv' /\ ReaderVisitsLive'
  BY DEF IInv, ReaderInv, HeldInv, ReaderVisitsLive
<1>3. SilenceInv'
  BY DEF IInv, SilenceInv, ToRead
<1>4. DeletionLosesNothing'
  BY DEF IInv, DeletionLosesNothing
<1> QED
  BY <1>1, <1>2, <1>3, <1>4 DEF IInv

LEMMA Inductive ==
  ASSUME IInv, [Next]_vars
  PROVE  IInv'
<1>1. CASE UNCHANGED vars
  BY <1>1, Stuttering
<1>2. ASSUME NEW c \in Connection, AddConnection(c) \/ DeleteConnection(c)
      PROVE  IInv'
  BY <1>2, AddConnectionStep, DeleteConnectionStep
<1>3. ASSUME NEW m \in Measurement, NotifyOperationMeasurement(m)
      PROVE  IInv'
  BY <1>3, NotifyOperationMeasurementStep
<1>4. ASSUME NEW e \in Event, AddEvent(e)
      PROVE  IInv'
  BY <1>4, AddEventStep
<1>5. CASE ReadTelemetry
  BY <1>5, ReadNicStatsStep, ReadConnectionStep, ReadZombieStep, ReadLogMessagesStep,
     SwapEventsStep, ParseEventStep, ReturnReportStep DEF ReadTelemetry
<1> QED
  BY <1>1, <1>2, <1>3, <1>4, <1>5, LogFromElsewhereStep, CleanStep DEF Next

-----------------------------------------------------------------------------
(***************************************************************************)
(* The sums of the sizes of the queues, and the events that parse.         *)
(***************************************************************************)
\* The sum of the lengths, element by element.
LEMMA SumOfLengthsRun ==
  ASSUME NEW q \in Seq(Event)
  PROVE  \E acc : /\ acc[0] = 0
                  /\ \A i \in 1 .. Len(q) : acc[i] = acc[i - 1] + LengthOf[q[i]]
                  /\ SumOfLengths(q) = acc[Len(q)]
<1> DEFINE n == Len(q)
           step == [p \in (1 .. n) \X Int |-> p[2] + LengthOf[q[p[1]]]]
           Fold(g) == g = [s \in SUBSET (1 .. n) |->
                             IF s = {} THEN 0 ELSE g[s \ {Max(s)}] + LengthOf[q[Max(s)]]]
           sol == CHOOSE g : Fold(g)
<1>0. n \in Nat /\ DOMAIN q = 1 .. n
  OBVIOUS
<1>1. \E g : Fold(g)
  <2>1. step \in [(1 .. n) \X Int -> Int] /\ 0 \in Int
    BY AggregatorAssumption
  <2> HIDE DEF step
  <2>2. PICK g \in [SUBSET (1 .. n) -> Int] : FoldsLeft(g, n, 0, step)
    <3> HIDE DEF n
    <3> QED
      BY <1>0, <2>1, LeftFoldExists
  <2>3. ASSUME NEW s \in SUBSET (1 .. n), s # {}
        PROVE  g[s] = g[s \ {Max(s)}] + LengthOf[q[Max(s)]]
    <3>1. Max(s) \in 1 .. n /\ g[s \ {Max(s)}] \in Int
      BY <1>0, <2>2, <2>3, MaxOfPart
    <3>2. step[<<Max(s), g[s \ {Max(s)}]>>] = g[s \ {Max(s)}] + LengthOf[q[Max(s)]]
      BY <3>1 DEF step
    <3> QED
      BY <2>2, <2>3, <3>2 DEF FoldsLeft
  <2> QED
    BY <2>2, <2>3 DEF FoldsLeft
<1>2. Fold(sol)
  <2> HIDE DEF Fold
  <2> QED
    BY <1>1
<1>3. SumOfLengths(q) = sol[1 .. n]
  BY <1>0 DEF SumOfLengths, FoldLeft, MapThenFoldSet
<1> HIDE DEF sol
<1> DEFINE acc == [i \in 0 .. n |-> sol[1 .. i]]
<1>4. acc[0] = 0
  BY <1>0, <1>2
<1>5. ASSUME NEW i \in 1 .. n
      PROVE  acc[i] = acc[i - 1] + LengthOf[q[i]]
  <2> DEFINE s == 1 .. i
  <2>1. s \in SUBSET (1 .. n) /\ s # {} /\ Max(s) = i /\ s \ {Max(s)} = 1 .. i - 1
    BY <1>0, <1>5, IntervalWithoutMax
  <2>2. acc[i] = sol[s] /\ acc[i - 1] = sol[1 .. i - 1]
    BY <1>0, <1>5
  <2> HIDE DEF s, acc
  <2>3. sol[s] = sol[s \ {Max(s)}] + LengthOf[q[Max(s)]]
    BY <1>2, <2>1
  <2> QED
    BY <2>1, <2>2, <2>3
<1>6. acc[n] = sol[1 .. n]
  BY <1>0
<1> HIDE DEF acc
<1> QED
  BY <1>3, <1>4, <1>5, <1>6

LEMMA SumOfLengthsEmpty == SumOfLengths(<<>>) = 0
<1>1. <<>> \in Seq(Event) /\ Len(<<>>) = 0
  OBVIOUS
<1>2. PICK acc : acc[0] = 0 /\ SumOfLengths(<<>>) = acc[0]
  BY <1>1, SumOfLengthsRun
<1> QED
  BY <1>2

LEMMA SumOfLengthsAppend ==
  ASSUME NEW q \in Seq(Event), NEW e \in Event
  PROVE  SumOfLengths(Append(q, e)) = SumOfLengths(q) + LengthOf[e]
<1> DEFINE n == Len(q)
           r == Append(q, e)
<1>1. n \in Nat /\ r \in Seq(Event) /\ Len(r) = n + 1
      /\ (\A i \in 1 .. n : r[i] = q[i]) /\ r[n + 1] = e
  OBVIOUS
<1> HIDE DEF r
<1>2. PICK a : /\ a[0] = 0
               /\ \A i \in 1 .. n : a[i] = a[i - 1] + LengthOf[q[i]]
               /\ SumOfLengths(q) = a[n]
  BY SumOfLengthsRun
<1>3. PICK b : /\ b[0] = 0
               /\ \A i \in 1 .. n + 1 : b[i] = b[i - 1] + LengthOf[r[i]]
               /\ SumOfLengths(r) = b[n + 1]
  BY <1>1, SumOfLengthsRun
<1> HIDE DEF n
<1>4. ASSUME NEW i \in 1 .. n, a[i - 1] = b[i - 1]
      PROVE  a[i] = b[i]
  <2>1. i \in 1 .. n + 1
    BY <1>1
  <2> QED
    BY <1>1, <1>2, <1>3, <1>4, <2>1
<1>5. \A i \in 0 .. n : a[i] = b[i]
  <2>1. n \in Nat /\ a[0] = b[0]
    BY <1>1, <1>2, <1>3
  <2> QED
    BY <1>4, <2>1, RunsAgree
<1>6. a[n] = b[n] /\ n + 1 \in 1 .. n + 1 /\ (n + 1) - 1 = n
  BY <1>1, <1>5
<1>7. SumOfLengths(r) = SumOfLengths(q) + LengthOf[e]
  BY <1>1, <1>2, <1>3, <1>6
<1> QED
  BY <1>7 DEF r

\* The events that parse, element by element.
LEMMA ParsedRun ==
  ASSUME NEW q \in Seq(Event)
  PROVE  \E acc : /\ acc[0] = <<>>
                  /\ \A i \in 1 .. Len(q) : acc[i] = IF q[i] \in Parsable THEN Append(acc[i - 1], q[i]) ELSE acc[i - 1]
                  /\ Parsed(q) = acc[Len(q)]
<1> DEFINE n == Len(q)
           step == [p \in (1 .. n) \X Seq(Event) |-> IF q[p[1]] \in Parsable THEN Append(p[2], q[p[1]]) ELSE p[2]]
           Fold(g) == g = [s \in SUBSET (1 .. n) |->
                             IF s = {} THEN <<>> ELSE IF q[Max(s)] \in Parsable THEN Append(g[s \ {Max(s)}], q[Max(s)]) ELSE g[s \ {Max(s)}]]
           sol == CHOOSE g : Fold(g)
<1>0. n \in Nat /\ DOMAIN q = 1 .. n
  OBVIOUS
<1>1. \E g : Fold(g)
  <2>1. step \in [(1 .. n) \X Seq(Event) -> Seq(Event)] /\ <<>> \in Seq(Event)
    BY AggregatorAssumption
  <2> HIDE DEF step
  <2>2. PICK g \in [SUBSET (1 .. n) -> Seq(Event)] : FoldsLeft(g, n, <<>>, step)
    <3> HIDE DEF n
    <3> QED
      BY <1>0, <2>1, LeftFoldExists
  <2>3. ASSUME NEW s \in SUBSET (1 .. n), s # {}
        PROVE  g[s] = IF q[Max(s)] \in Parsable THEN Append(g[s \ {Max(s)}], q[Max(s)]) ELSE g[s \ {Max(s)}]
    <3>1. Max(s) \in 1 .. n /\ g[s \ {Max(s)}] \in Seq(Event)
      BY <1>0, <2>2, <2>3, MaxOfPart
    <3>2. step[<<Max(s), g[s \ {Max(s)}]>>] = IF q[Max(s)] \in Parsable THEN Append(g[s \ {Max(s)}], q[Max(s)]) ELSE g[s \ {Max(s)}]
      BY <3>1 DEF step
    <3> QED
      BY <2>2, <2>3, <3>2 DEF FoldsLeft
  <2> QED
    BY <2>2, <2>3 DEF FoldsLeft
<1>2. Fold(sol)
  <2> HIDE DEF Fold
  <2> QED
    BY <1>1
<1>3. Parsed(q) = sol[1 .. n]
  BY <1>0 DEF Parsed, FoldLeft, MapThenFoldSet
<1> HIDE DEF sol
<1> DEFINE acc == [i \in 0 .. n |-> sol[1 .. i]]
<1>4. acc[0] = <<>>
  BY <1>0, <1>2
<1>5. ASSUME NEW i \in 1 .. n
      PROVE  acc[i] = IF q[i] \in Parsable THEN Append(acc[i - 1], q[i]) ELSE acc[i - 1]
  <2> DEFINE s == 1 .. i
  <2>1. s \in SUBSET (1 .. n) /\ s # {} /\ Max(s) = i /\ s \ {Max(s)} = 1 .. i - 1
    BY <1>0, <1>5, IntervalWithoutMax
  <2>2. acc[i] = sol[s] /\ acc[i - 1] = sol[1 .. i - 1]
    BY <1>0, <1>5
  <2> HIDE DEF s, acc
  <2>3. sol[s] = IF q[Max(s)] \in Parsable THEN Append(sol[s \ {Max(s)}], q[Max(s)]) ELSE sol[s \ {Max(s)}]
    BY <1>2, <2>1
  <2> QED
    BY <2>1, <2>2, <2>3
<1>6. acc[n] = sol[1 .. n]
  BY <1>0
<1> HIDE DEF acc
<1> QED
  BY <1>3, <1>4, <1>5, <1>6

LEMMA ParsedEmpty == Parsed(<<>>) = <<>>
<1>1. <<>> \in Seq(Event) /\ Len(<<>>) = 0
  OBVIOUS
<1>2. PICK acc : acc[0] = <<>> /\ Parsed(<<>>) = acc[0]
  BY <1>1, ParsedRun
<1> QED
  BY <1>2

LEMMA ParsedAppend ==
  ASSUME NEW q \in Seq(Event), NEW e \in Event
  PROVE  Parsed(Append(q, e)) = IF e \in Parsable THEN Append(Parsed(q), e) ELSE Parsed(q)
<1> DEFINE n == Len(q)
           r == Append(q, e)
<1>1. n \in Nat /\ r \in Seq(Event) /\ Len(r) = n + 1
      /\ (\A i \in 1 .. n : r[i] = q[i]) /\ r[n + 1] = e
  OBVIOUS
<1> HIDE DEF r
<1>2. PICK a : /\ a[0] = <<>>
               /\ \A i \in 1 .. n : a[i] = IF q[i] \in Parsable THEN Append(a[i - 1], q[i]) ELSE a[i - 1]
               /\ Parsed(q) = a[n]
  BY ParsedRun
<1>3. PICK b : /\ b[0] = <<>>
               /\ \A i \in 1 .. n + 1 : b[i] = IF r[i] \in Parsable THEN Append(b[i - 1], r[i]) ELSE b[i - 1]
               /\ Parsed(r) = b[n + 1]
  BY <1>1, ParsedRun
<1> HIDE DEF n
<1>4. ASSUME NEW i \in 1 .. n, a[i - 1] = b[i - 1]
      PROVE  a[i] = b[i]
  <2>1. i \in 1 .. n + 1
    BY <1>1
  <2> QED
    BY <1>1, <1>2, <1>3, <1>4, <2>1
<1>5. \A i \in 0 .. n : a[i] = b[i]
  <2>1. n \in Nat /\ a[0] = b[0]
    BY <1>1, <1>2, <1>3
  <2> QED
    BY <1>4, <2>1, RunsAgree
<1>6. a[n] = b[n] /\ n + 1 \in 1 .. n + 1 /\ (n + 1) - 1 = n
  BY <1>1, <1>5
<1>7. Parsed(r) = IF e \in Parsable THEN Append(Parsed(q), e) ELSE Parsed(q)
  BY <1>1, <1>2, <1>3, <1>6
<1> QED
  BY <1>7 DEF r

-----------------------------------------------------------------------------
(***************************************************************************)
(* What is in the queues.                                                  *)
(***************************************************************************)

\* All the events accepted are those read, of which the messages have the ones
\* that parse, and those unread.
InOrder(all, unread, messages) ==
  \E read \in Seq(Event) : all = read \o unread /\ messages = Parsed(read)

\* The same, with the events read as the property has them.
SplitInOrder(all, unread, messages) ==
  LET read == SubSeq(all, 1, Len(all) - Len(unread))
  IN  all = read \o unread /\ messages = Parsed(read)

LEMMA EventsAssociative ==
  ASSUME NEW a \in Seq(Event), NEW b \in Seq(Event), NEW c \in Seq(Event)
  PROVE  (a \o b) \o c = a \o (b \o c)
BY ConcatAssociative

LEMMA ReadPart ==
  ASSUME NEW S, NEW read \in Seq(S), NEW unread \in Seq(S)
  PROVE  /\ read \o unread \in Seq(S)
         /\ SubSeq(read \o unread, 1, Len(read \o unread) - Len(unread)) = read
<1> DEFINE all == read \o unread
<1>1. /\ Len(read) \in Nat /\ Len(unread) \in Nat
      /\ all \in Seq(S) /\ Len(all) = Len(read) + Len(unread)
      /\ \A i \in 1 .. Len(read) : all[i] = read[i] /\ all[i] \in S
  BY ConcatProperties, LenProperties, ElementOfSeq
<1> HIDE DEF all
<1>2. Len(all) - Len(unread) = Len(read)
  BY <1>1
<1> DEFINE part == SubSeq(all, 1, Len(read))
<1>3. /\ part \in Seq(S) /\ Len(part) = Len(read)
      /\ \A i \in 1 .. Len(read) : part[i] = all[i]
  BY <1>1, SubSeqProperties
<1> HIDE DEF part
<1>4. part = read
  BY <1>1, <1>3, SeqEqual
<1> QED
  BY <1>1, <1>2, <1>4 DEF all, part

LEMMA InOrderSplit ==
  ASSUME NEW all \in Seq(Event), NEW unread \in Seq(Event), NEW messages
  PROVE  InOrder(all, unread, messages) <=> SplitInOrder(all, unread, messages)
<1> DEFINE n == Len(all) - Len(unread)
           part == SubSeq(all, 1, n)
<1>1. n \in Int /\ n <= Len(all) /\ Len(all) \in Nat
  BY LenProperties
<1>2. \A i \in 1 .. n : all[i] \in Event
  BY <1>1, ElementOfSeq
<1>3. part \in Seq(Event)
  <2> HIDE DEF n
  <2> QED
    BY <1>1, <1>2, SubSeqProperties
<1>4. ASSUME NEW read \in Seq(Event), all = read \o unread
      PROVE  read = part
  BY <1>4, ReadPart
<1> HIDE DEF part
<1>5. InOrder(all, unread, messages) <=> all = part \o unread /\ messages = Parsed(part)
  BY <1>3, <1>4 DEF InOrder
<1> QED
  BY <1>5 DEF part, SplitInOrder

\* An event is accepted behind all others.
LEMMA InOrderAccept ==
  ASSUME NEW all \in Seq(Event), NEW local \in Seq(Event), NEW queue \in Seq(Event),
         NEW messages, NEW e \in Event, InOrder(all, local \o queue, messages)
  PROVE  InOrder(Append(all, e), local \o Append(queue, e), messages)
<1> DEFINE unread == local \o queue
           one == <<e>>
<1>1. unread \in Seq(Event) /\ one \in Seq(Event)
  BY ConcatProperties
<1>a. InOrder(all, unread, messages)
  OBVIOUS
<1>4. local \o (queue \o one) = unread \o one
  BY <1>1, EventsAssociative
<1> HIDE DEF unread, one
<1>2. PICK read \in Seq(Event) : all = read \o unread /\ messages = Parsed(read)
  BY <1>a DEF InOrder
<1>3. Append(all, e) = all \o one /\ Append(queue, e) = queue \o one
  BY AppendIsConcat DEF one
<1>b. unread \o one \in Seq(Event)
  BY <1>1, ConcatProperties
<1>5. all \o one = read \o (unread \o one)
  <2>1. (read \o unread) \o one = read \o (unread \o one)
    BY <1>1, EventsAssociative
  <2> QED
    BY <1>2, <2>1
<1>6. InOrder(read \o (unread \o one), unread \o one, Parsed(read))
  BY <1>b DEF InOrder
<1> QED
  BY <1>2, <1>3, <1>4, <1>5, <1>6 DEF unread

\* The first unread event is read, and gets into the message if it parses.
LEMMA InOrderRead ==
  ASSUME NEW all \in Seq(Event), NEW local \in Seq(Event), NEW queue \in Seq(Event),
         NEW messages, local # <<>>, InOrder(all, local \o queue, messages)
  PROVE  InOrder(all, Tail(local) \o queue,
                 IF Head(local) \in Parsable THEN Append(messages, Head(local)) ELSE messages)
<1> DEFINE e == Head(local)
           rest == Tail(local) \o queue
           one == <<e>>
<1>1. e \in Event /\ Tail(local) \in Seq(Event) /\ local = one \o Tail(local)
  <2>1. e \in Event /\ Tail(local) \in Seq(Event)
    BY HeadTailProperties
  <2> QED
    BY <2>1
<1>2. rest \in Seq(Event) /\ one \in Seq(Event) /\ local \o queue \in Seq(Event)
  BY <1>1, ConcatProperties
<1>3. PICK read \in Seq(Event) : all = read \o (local \o queue) /\ messages = Parsed(read)
  BY DEF InOrder
<1>4. local \o queue = one \o rest
  <2> DEFINE tail == Tail(local)
  <2>0. tail \in Seq(Event) /\ one \in Seq(Event) /\ local = one \o tail
    BY <1>1, <1>2
  <2> HIDE DEF one, tail
  <2>1. local \o queue = (one \o tail) \o queue
    BY <2>0
  <2>2. (one \o tail) \o queue = one \o (tail \o queue)
    <3>1. tail \in Seq(Event) /\ one \in Seq(Event)
      BY <2>0
    <3> QED
      BY <3>1, EventsAssociative
  <2> QED
    BY <2>1, <2>2 DEF tail
<1>5. Append(read, e) = read \o one /\ Append(read, e) \in Seq(Event)
  BY <1>1, AppendIsConcat, AppendProperties
<1>6. Parsed(Append(read, e)) = IF e \in Parsable THEN Append(messages, e) ELSE messages
  BY <1>1, <1>3, ParsedAppend
<1> HIDE DEF rest, one, e
<1>7. all = Append(read, e) \o rest
  <2>1. (read \o one) \o rest = read \o (one \o rest)
    BY <1>2, EventsAssociative
  <2> QED
    BY <1>3, <1>4, <1>5, <2>1
<1>8. InOrder(Append(read, e) \o rest, rest, Parsed(Append(read, e)))
  BY <1>2, <1>5 DEF InOrder
<1>9. InOrder(all, rest, IF e \in Parsable THEN Append(messages, e) ELSE messages)
  BY <1>6, <1>7, <1>8
<1> QED
  BY <1>9 DEF rest, e

LEMMA EventsOrdered ==
  ASSUME accepted.events \in Seq(Event), reader.local \o events.queue \in Seq(Event)
  PROVE  EventsOnceInOrder <=> InOrder(accepted.events, reader.local \o events.queue,
                                       reported.events \o report.events)
<1>1. EventsOnceInOrder <=> SplitInOrder(accepted.events, reader.local \o events.queue,
                                        reported.events \o report.events)
  BY DEF EventsOnceInOrder, SplitInOrder
<1> QED
  BY <1>1, InOrderSplit

\* The reader has events of its own only while it parses them.
LocalInv == reader.at # "parse" => reader.local = <<>>

QueueInv == SizesMatchQueues /\ LocalInv /\ EventsOnceInOrder

LEMMA LogSized ==
  ASSUME QueueTypes, SizesMatchQueues, NEW text \in LogText
  PROVE  AddLogMsg(text).size = LogSize * Len(AddLogMsg(text).queue)
<1>1. logs.queue \in Seq(LogText) /\ LogSize \in Nat
      /\ logs.size = LogSize * Len(logs.queue)
  BY AggregatorAssumption DEF QueueTypes, Queue, SizesMatchQueues
<1>2. CASE Fits(logs, LogSize)
  <2>1. AddLogMsg(text) = [queue |-> Append(logs.queue, text), size |-> logs.size + LogSize]
    BY <1>2 DEF AddLogMsg, Push
  <2>2. Len(Append(logs.queue, text)) = Len(logs.queue) + 1 /\ Len(logs.queue) \in Nat
    BY <1>1, AppendProperties, LenProperties
  <2>3. \A k, n \in Nat : k * n + k = k * (n + 1)
    OBVIOUS
  <2> QED
    BY <1>1, <2>1, <2>2, <2>3
<1>3. CASE ~Fits(logs, LogSize)
  BY <1>1, <1>3 DEF AddLogMsg
<1> QED
  BY <1>2, <1>3

LEMMA EmptySized ==
  Empty.size = SumOfLengths(Empty.queue) /\ Empty.size = LogSize * Len(Empty.queue)
<1>1. LogSize * 0 = 0 /\ Len(<<>>) = 0
  BY AggregatorAssumption
<1> QED
  BY <1>1, SumOfLengthsEmpty DEF Empty

LEMMA QueueInitially ==
  ASSUME Init
  PROVE  QueueInv
<1> USE DEF Init
<1>1. SizesMatchQueues
  BY EmptySized DEF SizesMatchQueues
<1>2. EventsOnceInOrder
  <2>1. <<>> \in Seq(Event) /\ <<>> \o <<>> = <<>>
    BY EmptySeq
  <2>2. InOrder(<<>>, <<>>, <<>>)
    BY <2>1, ParsedEmpty DEF InOrder
  <2>3. InOrder(accepted.events, reader.local \o events.queue,
                reported.events \o report.events)
    BY <2>1, <2>2 DEF Nothing, NoReport, Empty
  <2>4. accepted.events \in Seq(Event) /\ reader.local \o events.queue \in Seq(Event)
    BY <2>1 DEF Nothing, Empty
  <2> QED
    BY <2>3, <2>4, EventsOrdered
<1> QED
  BY <1>1, <1>2 DEF QueueInv, LocalInv

LEMMA QueueInductive ==
  ASSUME IInv, QueueInv, [Next]_vars
  PROVE  QueueInv'
<1>0. /\ QueueTypes /\ SizesMatchQueues /\ LocalInv
      /\ reader.local \in Seq(Event) /\ events.queue \in Seq(Event)
      /\ reader = [at |-> reader.at, unread |-> reader.unread, local |-> reader.local]
      /\ accepted = [measurements |-> accepted.measurements, events |-> accepted.events]
      /\ accepted.events \in Seq(Event)
      /\ reported.events \in Seq(Event) /\ report.events \in Seq(Event)
      /\ report = [measurements |-> report.measurements, nics |-> report.nics,
                   connections |-> report.connections, events |-> report.events]
  BY DEF IInv, QueueInv, TypeInv, MessageTypes, QueueTypes, Queue, Report, Reported
<1>1. InOrder(accepted.events, reader.local \o events.queue, reported.events \o report.events)
  BY <1>0, ConcatProperties, EventsOrdered DEF QueueInv
<1>2. InOrder(accepted'.events, reader'.local \o events'.queue,
              reported'.events \o report'.events)
        => EventsOnceInOrder'
  <2>1. IInv'
    BY Inductive
  <2>2. /\ accepted'.events \in Seq(Event)
        /\ reader'.local \in Seq(Event) /\ events'.queue \in Seq(Event)
    BY <2>1 DEF IInv, TypeInv, MessageTypes, QueueTypes, Queue, Reported
  <2>3. reader'.local \o events'.queue \in Seq(Event)
    BY <2>2, ConcatProperties
  <2>4. EventsOnceInOrder' <=>
          SplitInOrder(accepted'.events, reader'.local \o events'.queue,
                       reported'.events \o report'.events)
    BY DEF EventsOnceInOrder, SplitInOrder
  <2> QED
    BY <2>2, <2>3, <2>4, InOrderSplit
<1> DEFINE LogsKept == logs'.size = LogSize * Len(logs'.queue)
           SameEvents == /\ reader'.local = reader.local /\ events' = events
                         /\ accepted'.events = accepted.events
                         /\ reported'.events \o report'.events
                              = reported.events \o report.events
<1>3. ASSUME SameEvents, LogsKept, LocalInv'
      PROVE  QueueInv'
  <2>1. EventsOnceInOrder'
    BY <1>1, <1>2, <1>3
  <2>2. SizesMatchQueues'
    BY <1>0, <1>3 DEF SizesMatchQueues
  <2> QED
    BY <1>3, <2>1, <2>2 DEF QueueInv
<1>4. logs' = logs => LogsKept
  BY <1>0 DEF SizesMatchQueues
<1>5. \A text \in LogText : logs' = AddLogMsg(text) => LogsKept
  BY <1>0, LogSized
<1>6. logs' = Empty => LogsKept
  BY EmptySized
<1> HIDE DEF LogsKept
<1>7. ASSUME NEW c \in Connection, AddConnection(c) \/ DeleteConnection(c)
      PROVE  QueueInv'
  <2>1. LogsKept
    BY <1>4, <1>5, <1>7 DEF AddConnection, DeleteConnection, InitConstants, LogText
  <2>2. SameEvents /\ LocalInv'
    BY <1>0, <1>7 DEF AddConnection, DeleteConnection, readerVars, LocalInv
  <2> QED
    BY <1>3, <2>1, <2>2
<1>8. ASSUME NEW m \in Measurement, NotifyOperationMeasurement(m)
      PROVE  QueueInv'
  BY <1>0, <1>3, <1>4, <1>8 DEF NotifyOperationMeasurement, readerVars, LocalInv
<1>9. ASSUME NEW e \in Event, AddEvent(e)
      PROVE  QueueInv'
  <2>1. /\ events' = [queue |-> Append(events.queue, e), size |-> events.size + LengthOf[e]]
        /\ accepted'.events = Append(accepted.events, e)
        /\ logs' = logs /\ reader' = reader /\ report' = report /\ reported' = reported
    BY <1>0, <1>9 DEF AddEvent, Push, readerVars
  <2>2. EventsOnceInOrder'
    BY <1>0, <1>1, <1>2, <2>1, InOrderAccept
  <2>3. SizesMatchQueues'
    BY <1>0, <1>4, <2>1, SumOfLengthsAppend DEF SizesMatchQueues, LogsKept
  <2> QED
    BY <1>0, <2>1, <2>2, <2>3 DEF QueueInv, LocalInv
<1>10. CASE LogFromElsewhere
  <2>1. LogsKept
    BY <1>5, <1>10 DEF LogFromElsewhere, LogText
  <2> QED
    BY <1>0, <1>3, <1>10, <2>1 DEF LogFromElsewhere, readerVars, LocalInv
<1>11. CASE ReadNicStats
  <2>1. report.events = <<>>
    BY <1>11 DEF IInv, ReaderInv, ReadNicStats, At, NoReport
  <2>2. report'.events = <<>> /\ logs' = logs
    BY <1>11 DEF ReadNicStats, NoReport
  <2>3. SameEvents /\ LocalInv'
    BY <1>0, <1>11, <2>1, <2>2 DEF ReadNicStats, At, LocalInv
  <2> QED
    BY <1>3, <1>4, <2>2, <2>3
<1>12. ASSUME NEW c \in Connection, ReadConnection(c)
       PROVE  QueueInv'
  <2>1. SameEvents /\ LocalInv' /\ logs' = logs
    BY <1>0, <1>12 DEF ReadConnection, ReadStats, At, LocalInv
  <2> QED
    BY <1>3, <1>4, <2>1
<1>13. CASE ReadZombie
  <2>1. SameEvents /\ LocalInv' /\ logs' = logs
    BY <1>0, <1>13 DEF ReadZombie, ReadStats, At, LocalInv
  <2> QED
    BY <1>3, <1>4, <2>1
<1>14. CASE ReadLogMessages
  <2>1. SameEvents /\ LocalInv' /\ logs' = Empty
    BY <1>0, <1>14 DEF ReadLogMessages, At, LocalInv
  <2> QED
    BY <1>3, <1>6, <2>1
<1>15. CASE SwapEvents
  <2>1. /\ events' = Empty /\ reader'.local = events.queue /\ reader'.at = "parse"
        /\ reader.local = <<>> /\ logs' = logs
        /\ accepted' = accepted /\ report' = report /\ reported' = reported
    BY <1>0, <1>15 DEF SwapEvents, At, LocalInv
  <2>2. reader'.local \o events'.queue = reader.local \o events.queue
    BY <1>0, <2>1, ConcatEmptySeq DEF Empty
  <2>3. EventsOnceInOrder'
    BY <1>1, <1>2, <2>1, <2>2
  <2>4. SizesMatchQueues'
    BY <1>4, <2>1, EmptySized DEF SizesMatchQueues, LogsKept
  <2> QED
    BY <2>1, <2>3, <2>4 DEF QueueInv, LocalInv
<1>16. CASE ParseEvent
  <2> DEFINE e == Head(reader.local)
  <2>a. reader.local # <<>> /\ e \in Event
    BY <1>0, <1>16, HeadTailProperties DEF ParseEvent
  <2>b. /\ reader' = [reader EXCEPT !.local = Tail(@)] /\ reader.at = "parse"
        /\ events' = events /\ accepted' = accepted /\ reported' = reported
        /\ report' = IF e \in Parsable THEN [report EXCEPT !.events = Append(@, e)] ELSE report
    BY <1>16 DEF ParseEvent, At
  <2> HIDE DEF e
  <2>1. /\ reader'.local = Tail(reader.local) /\ reader'.at = "parse"
        /\ events' = events /\ accepted' = accepted /\ reported' = reported
        /\ report'.events = IF e \in Parsable THEN Append(report.events, e) ELSE report.events
    BY <1>0, <2>b
  <2>2. LogsKept
    BY <1>4, <1>5, <1>16 DEF ParseEvent, LogText
  <2>3. reported.events \o Append(report.events, e) = Append(reported.events \o report.events, e)
    <3> DEFINE a == reported.events
               b == report.events
               one == <<e>>
    <3>1. a \in Seq(Event) /\ b \in Seq(Event) /\ one \in Seq(Event) /\ a \o b \in Seq(Event)
      BY <1>0, <2>a, ConcatProperties
    <3>2. Append(b, e) = b \o one /\ Append(a \o b, e) = (a \o b) \o one
      BY <2>a, <3>1, AppendIsConcat
    <3> HIDE DEF a, b, one
    <3>3. (a \o b) \o one = a \o (b \o one)
      BY <3>1, EventsAssociative
    <3> QED
      BY <3>2, <3>3 DEF a, b
  <2>4. InOrder(accepted.events, Tail(reader.local) \o events.queue,
                IF e \in Parsable THEN Append(reported.events \o report.events, e)
                ELSE reported.events \o report.events)
    BY <1>0, <1>1, <2>a, InOrderRead DEF e
  <2>5. EventsOnceInOrder'
    BY <1>2, <2>1, <2>3, <2>4
  <2>6. SizesMatchQueues'
    BY <1>0, <2>1, <2>2 DEF SizesMatchQueues, LogsKept
  <2> QED
    BY <2>1, <2>5, <2>6 DEF QueueInv, LocalInv
<1>17. CASE ReturnReport
  <2>1. /\ reported'.events = reported.events \o report.events /\ report'.events = <<>>
        /\ reader'.local = reader.local /\ reader.local = <<>>
        /\ accepted' = accepted /\ events' = events /\ logs' = logs
    BY <1>0, <1>17 DEF ReturnReport, At, NoReport
  <2>2. reported.events \o report.events \in Seq(Event)
    BY <1>0, ConcatProperties
  <2>3. reported'.events \o report'.events = reported.events \o report.events
    BY <2>1, <2>2, ConcatEmptySeq
  <2>4. SameEvents /\ LocalInv'
    BY <2>1, <2>3 DEF LocalInv
  <2> QED
    BY <1>3, <1>4, <2>1, <2>4
<1>18. CASE Clean
  <2>1. LogsKept
    BY <1>4, <1>5, <1>18 DEF Clean, LogText
  <2> QED
    BY <1>0, <1>3, <1>18, <2>1 DEF Clean, readerVars, LocalInv
<1>19. CASE UNCHANGED vars
  BY <1>0, <1>3, <1>4, <1>19 DEF vars, readerVars, LocalInv
<1>20. CASE ReadTelemetry
  BY <1>11, <1>12, <1>13, <1>14, <1>15, <1>16, <1>17, <1>20 DEF ReadTelemetry
<1> QED
  BY <1>7, <1>8, <1>9, <1>10, <1>18, <1>19, <1>20 DEF Next

-----------------------------------------------------------------------------
(***************************************************************************)
(* The theorems.                                                           *)
(***************************************************************************)

\* The invariant holds of every behaviour of the aggregator.
THEOREM Invariant == Spec => []IInv
BY Initially, Inductive, PTL DEF Spec

\* The variables keep their ranges, and neither queue passes the cap.
THEOREM TypeCorrect == Spec => []TypeOK
<1>1. IInv => TypeOK
  BY DEF IInv, TypeInv, ConnectionTypes, NicTypes, QueueTypes, MessageTypes, TypeOK, LogText
<1> QED
  BY <1>1, Invariant, PTL

\* A reader never visits a connection that is not in the map any more.
THEOREM NoStaleVisit == Spec => []ReaderVisitsLive
<1>1. IInv => ReaderVisitsLive
  BY DEF IInv
<1> QED
  BY <1>1, Invariant, PTL

\* Deleting connections while they are read loses and doubles nothing.
THEOREM NothingLost == Spec => []DeletionLosesNothing
<1>1. IInv => DeletionLosesNothing
  BY DEF IInv
<1> QED
  BY <1>1, Invariant, PTL

\* No event of a connection comes after its last statistics.
THEOREM NoEventAfterLast == Spec => []LastReportComplete
<1>1. IInv => LastReportComplete
  BY DEF IInv, SilenceInv, ToRead, LastReportComplete
<1> QED
  BY <1>1, Invariant, PTL

LEMMA QueueInvariant == Spec => []QueueInv
BY Invariant, QueueInitially, QueueInductive, PTL DEF Spec

\* The size kept for a queue is the size of what is in it.
THEOREM SizesExact == Spec => []SizesMatchQueues
<1>1. QueueInv => SizesMatchQueues
  BY DEF QueueInv
<1> QED
  BY <1>1, QueueInvariant, PTL

\* Every event accepted is unread or, if it parses, in one message, and the
\* messages have them in the order they were accepted.
THEOREM EventsExact == Spec => []EventsOnceInOrder
<1>1. QueueInv => EventsOnceInOrder
  BY DEF QueueInv
<1> QED
  BY <1>1, QueueInvariant, PTL
=============================================================================
