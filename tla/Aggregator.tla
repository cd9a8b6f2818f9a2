----------------------------- MODULE Aggregator -----------------------------
(***************************************************************************)
(* NcclStatsAggregator: the connections, those deleted and waiting to be   *)
(* read once more, the NICs they share, and the queues of log messages and *)
(* profiler events.  Callers add, measure, send events and delete in any   *)
(* order; one reader at a time (the reporter's mtx_) builds a message in   *)
(* sections, each under the mutex of the state it reads.                   *)
(*                                                                         *)
(* A connection's histograms are the set of measurements in them, see      *)
(* ConnStats; a NIC is what it was allocated with, see BandwidthWindow.    *)
(***************************************************************************)
EXTENDS Integers, Sequences, FiniteSets, SequencesExt

CONSTANTS
  Connection, NicOf, PluginOf,  \* connections, with their NIC and plugin
  Measurement, Event,  \* measurements and events that may be submitted
  SourceOf,    \* the connection of each measurement and event
  LengthOf,    \* the length of each event
  Parsable,    \* events that ParseFromArray accepts
  LogSize,     \* size of a log message
  Cap          \* non_aggregated_data_size_cap_

Plugin == {"profiler", "FasTrak", "other"}  \* "profiler" includes net-ib

ASSUME AggregatorAssumption ==
  /\ NicOf \in [Connection -> STRING] /\ PluginOf \in [Connection -> Plugin]
  /\ SourceOf \in [Measurement \cup Event -> Connection]
  /\ LengthOf \in [Event -> Nat] /\ Parsable \subseteq Event
  /\ LogSize \in Nat \ {0} /\ Cap \in Nat

VARIABLES
  live,        \* connection_handlers_map_
  zombies,     \* to_be_deleted_list_
  added,       \* connections added so far
  nics,        \* nic_bw_map_: the NICs, with the speed each is scaled for
  speed,       \* nic_speed_ and nic_speed_init_
  held,        \* measurements in each connection's histograms
  logs, events,\* log_messages_ and events_, each with its size
  reader,      \* where the reader is, and what it still has to read
  report,      \* the message under construction
  accepted,    \* measurements and events accepted so far
  reported,    \* measurements and events in the messages so far
  cleaned      \* the aggregator is destroyed

connectionVars == <<live, zombies, added, nics, speed>>
readerVars == <<reader, report, reported>>
vars == <<connectionVars, held, logs, events, readerVars, accepted, cleaned>>

Nothing == [measurements |-> {}, events |-> <<>>]
Empty == [queue |-> <<>>, size |-> 0]
NoReport == [measurements |-> {}, nics |-> {}, connections |-> {}, events |-> <<>>]

Init ==
  /\ live = {} /\ zombies = <<>> /\ added = {}
  /\ nics = <<>> /\ speed = [known |-> FALSE, nic |-> 0]
  /\ held = [c \in Connection |-> {}]
  /\ logs = Empty /\ events = Empty
  /\ reader = [at |-> "idle", unread |-> {}, local |-> <<>>]
  /\ report = NoReport
  /\ accepted = Nothing /\ reported = Nothing
  /\ cleaned = FALSE

-----------------------------------------------------------------------------
(***************************************************************************)
(* The queues.                                                             *)
(***************************************************************************)
SumOfLengths(queue) == FoldLeft(LAMBDA sum, e : sum + LengthOf[e], 0, queue)

\* mutant: the limit is tested before the element is counted
FitsBefore(q, size) == q.size <= Cap

Fits(q, size) == q.size + size <= Cap

Push(q, x, size) ==
  [queue |-> Append(q.queue, x), size |-> q.size + size]

\* a message that does not fit is dropped
AddLogMsg(message) ==
  IF Fits(logs, LogSize) THEN Push(logs, message, LogSize) ELSE logs

\* messages of the container, the reporter and the log sink
LogFromElsewhere ==
  /\ ~cleaned
  /\ logs' = AddLogMsg("elsewhere")
  /\ UNCHANGED <<connectionVars, held, events, readerVars, accepted, cleaned>>

\* notifyProfilerEvent: an event that does not fit is refused
AddEvent(e) ==
  /\ ~cleaned
  /\ SourceOf[e] \in live /\ e \notin ToSet(accepted.events)
  /\ Fits(events, LengthOf[e])
  /\ events' = Push(events, e, LengthOf[e])
  /\ accepted' = [accepted EXCEPT !.events = Append(@, e)]
  /\ UNCHANGED <<connectionVars, held, logs, readerVars, cleaned>>

-----------------------------------------------------------------------------
(***************************************************************************)
(* The connections, under connections_mtx_.                                *)
(***************************************************************************)
\* mutant: without the mutex
ConnectionsMtxIgnored == TRUE

ConnectionsMtxFree == reader.at # "connections"

\* InitConstants: the speed of a NIC by the plugin's name, until it is known
NicSpeed(plugin) == IF plugin = "profiler" THEN 400 ELSE 200

InitConstants(plugin) ==
  /\ speed' = IF speed.known THEN speed
              ELSE [known |-> plugin # "other", nic |-> NicSpeed(plugin)]
  /\ logs' = IF speed.known \/ plugin = "profiler" THEN logs
             ELSE AddLogMsg("unknown plugin")

\* allocateBWStats, for the first connection of a NIC, with bandwidth collected;
\* of what it allocates, only the speed that sizes the histograms
AllocateBWStats(nic) ==
  nics' = IF nic \in DOMAIN nics THEN nics
          ELSE [n \in DOMAIN nics \cup {nic} |->
                  IF n = nic THEN speed'.nic ELSE nics[n]]

AddConnection(c) ==
  /\ ~cleaned /\ ConnectionsMtxFree
  /\ c \notin added
  /\ InitConstants(PluginOf[c])
  /\ AllocateBWStats(NicOf[c])
  /\ live' = live \cup {c} /\ added' = added \cup {c}
  /\ UNCHANGED <<zombies, held, events, readerVars, accepted, cleaned>>

\* notifyOperationMeasurement, under the connection's own mutex
NotifyOperationMeasurement(m) ==
  /\ SourceOf[m] \in live
  /\ m \notin accepted.measurements
  /\ held' = [held EXCEPT ![SourceOf[m]] = @ \cup {m}]
  /\ accepted' = [accepted EXCEPT !.measurements = @ \cup {m}]
  /\ UNCHANGED <<connectionVars, logs, events, readerVars, cleaned>>

\* mutant: the connection is freed at once
DeleteConnectionAtOnce(c) ==
  /\ ConnectionsMtxFree
  /\ c \in live
  /\ live' = live \ {c}
  /\ held' = [held EXCEPT ![c] = {}]
  /\ UNCHANGED <<zombies, added, nics, speed, logs, events, readerVars, accepted, cleaned>>

DeleteConnection(c) ==
  /\ ConnectionsMtxFree
  /\ c \in live
  /\ live' = live \ {c}
  /\ zombies' = Append(zombies, c)
  /\ UNCHANGED <<added, nics, speed, held, logs, events, readerVars, accepted, cleaned>>

-----------------------------------------------------------------------------
(***************************************************************************)
(* readTelemetry.                                                          *)
(***************************************************************************)
At(step) == ~cleaned /\ reader.at = step

\* readNicStats: connections_mtx_ is taken; of a NIC's statistics, only that
\* it is reported
ReadNicStats ==
  /\ At("idle")
  /\ reader' = [reader EXCEPT !.at = "connections", !.unread = live]
  /\ report' = [NoReport EXCEPT !.nics = DOMAIN nics]
  /\ UNCHANGED <<connectionVars, held, logs, events, reported, accepted, cleaned>>

\* readStatsFromLastInterval empties the histograms
ReadStats(c) ==
  /\ report' = [report EXCEPT !.measurements = @ \cup held[c],
                              !.connections = @ \cup {c}]
  /\ held' = [held EXCEPT ![c] = {}]

ReadConnection(c) ==
  /\ At("connections") /\ c \in reader.unread
  /\ ReadStats(c)
  /\ reader' = [reader EXCEPT !.unread = @ \ {c}]
  /\ UNCHANGED <<connectionVars, logs, events, reported, accepted, cleaned>>

\* a connection that was deleted is freed when it has been read
ReadZombie ==
  /\ At("connections") /\ reader.unread = {} /\ zombies # <<>>
  /\ ReadStats(Head(zombies))
  /\ zombies' = Tail(zombies)
  /\ UNCHANGED <<live, added, nics, speed, reader, logs, events, reported, accepted, cleaned>>

\* mutant: events are read only when there are log messages
ReadLogMessagesOrReturn ==
  /\ At("connections") /\ reader.unread = {} /\ zombies = <<>>
  /\ logs' = Empty
  /\ reader' = [reader EXCEPT !.at = IF logs = Empty THEN "parse" ELSE "events"]
  /\ UNCHANGED <<connectionVars, held, events, report, reported, accepted, cleaned>>

\* connections_mtx_ is released; the log messages are moved
ReadLogMessages ==
  /\ At("connections") /\ reader.unread = {} /\ zombies = <<>>
  /\ logs' = Empty
  /\ reader' = [reader EXCEPT !.at = "events"]
  /\ UNCHANGED <<connectionVars, held, events, report, reported, accepted, cleaned>>

\* mutant: the size is left as it was
SwapEventsKeepingSize ==
  /\ At("events")
  /\ reader' = [reader EXCEPT !.at = "parse", !.local = events.queue]
  /\ events' = [Empty EXCEPT !.size = events.size]
  /\ UNCHANGED <<connectionVars, held, logs, report, reported, accepted, cleaned>>

\* mutant: one event for each message
SwapOneEvent ==
  /\ At("events")
  /\ LET taken == IF events.queue = <<>> THEN <<>> ELSE <<Head(events.queue)>>
         left == IF events.queue = <<>> THEN <<>> ELSE Tail(events.queue)
     IN  /\ reader' = [reader EXCEPT !.at = "parse", !.local = taken]
         /\ events' = [queue |-> left, size |-> SumOfLengths(left)]
  /\ UNCHANGED <<connectionVars, held, logs, report, reported, accepted, cleaned>>

SwapEvents ==
  /\ At("events")
  /\ reader' = [reader EXCEPT !.at = "parse", !.local = events.queue]
  /\ events' = Empty
  /\ UNCHANGED <<connectionVars, held, logs, report, reported, accepted, cleaned>>

\* mutant: events are taken from the back of the queue
ParseLastEvent ==
  /\ At("parse") /\ reader.local # <<>>
  /\ LET e == Last(reader.local)
     IN  /\ report' = IF e \in Parsable THEN [report EXCEPT !.events = Append(@, e)]
                      ELSE report
         /\ logs' = IF e \in Parsable THEN logs ELSE AddLogMsg("failed to deser")
  /\ reader' = [reader EXCEPT !.local = Front(@)]
  /\ UNCHANGED <<connectionVars, held, events, reported, accepted, cleaned>>

\* an event that does not parse is dropped, with a message in the next report
ParseEvent ==
  /\ At("parse") /\ reader.local # <<>>
  /\ LET e == Head(reader.local)
     IN  /\ report' = IF e \in Parsable THEN [report EXCEPT !.events = Append(@, e)]
                      ELSE report
         /\ logs' = IF e \in Parsable THEN logs ELSE AddLogMsg("failed to deser")
  /\ reader' = [reader EXCEPT !.local = Tail(@)]
  /\ UNCHANGED <<connectionVars, held, events, reported, accepted, cleaned>>

\* the message goes to the reporter
ReturnReport ==
  /\ At("parse") /\ reader.local = <<>>
  /\ reported' = [measurements |-> reported.measurements \cup report.measurements,
                  events |-> reported.events \o report.events]
  /\ reader' = [reader EXCEPT !.at = "idle"]
  /\ report' = NoReport
  /\ UNCHANGED <<connectionVars, held, logs, events, accepted, cleaned>>

ReadTelemetry ==
  \/ ReadNicStats
  \/ \E c \in Connection : ReadConnection(c)
  \/ ReadZombie \/ ReadLogMessages \/ SwapEvents \/ ParseEvent \/ ReturnReport

\* the destructor, when nothing reads any more; connections still open, or
\* deleted and not yet read, are discarded
Clean ==
  /\ At("idle")
  /\ logs' = IF live = {} THEN logs ELSE AddLogMsg("still open")
  /\ live' = {} /\ zombies' = <<>>
  /\ cleaned' = TRUE
  /\ UNCHANGED <<added, nics, speed, held, events, readerVars, accepted>>

Next ==
  \/ \E c \in Connection : AddConnection(c) \/ DeleteConnection(c)
  \/ \E m \in Measurement : NotifyOperationMeasurement(m)
  \/ \E e \in Event : AddEvent(e)
  \/ LogFromElsewhere
  \/ ReadTelemetry
  \/ Clean

Spec == Init /\ [][Next]_vars

\* the reporter reads again and again, and a read in progress goes on
FairSpec == Spec /\ WF_vars(ReadTelemetry)

-----------------------------------------------------------------------------
Queue(x) == [queue : Seq(x), size : 0 .. Cap]

\* The variables keep their ranges; in particular neither queue passes its cap,
\* whatever is added while the reader empties it.
TypeOK ==
  /\ live \subseteq added /\ added \subseteq Connection
  /\ zombies \in Seq(added \ live)
  /\ \A n \in DOMAIN nics : nics[n] \in {200, 400}
  /\ speed \in [known : BOOLEAN, nic : {0, 200, 400}]
  /\ held \in [Connection -> SUBSET Measurement]
  /\ logs \in Queue({"elsewhere", "unknown plugin", "failed to deser", "still open"})
  /\ events \in Queue(Event)
  /\ reader \in [at : {"idle", "connections", "events", "parse"},
                 unread : SUBSET Connection, local : Seq(Event)]
  /\ cleaned \in BOOLEAN

\* The size kept for each queue is the size of what is in it, although it is
\* reset apart from the elements: an event is refused only for want of space.
SizesMatchQueues ==
  /\ events.size = SumOfLengths(events.queue)
  /\ logs.size = LogSize * Len(logs.queue)

\* The reader never visits a connection that deleteConnection has taken out of
\* the map it iterates over.
ReaderVisitsLive == reader.unread \subseteq live

\* Deleting a connection, before or while a message is built, loses none of its
\* measurements and reports none twice: each is in the histograms of a
\* connection still to be read, or in one message.
DeletionLosesNothing ==
  ~cleaned =>
    LET unread == UNION {held[c] : c \in live \cup ToSet(zombies)}
    IN  /\ accepted.measurements = unread \cup report.measurements \cup reported.measurements
        /\ unread \cap (report.measurements \cup reported.measurements) = {}
        /\ report.measurements \cap reported.measurements = {}

\* The events of a sequence that parse, in their order.
Parsed(queue) ==
  FoldLeft(LAMBDA kept, e : IF e \in Parsable THEN Append(kept, e) ELSE kept, <<>>, queue)

\* The events in the messages, in the one under construction and in the queues
\* are those accepted, in the order they were accepted, but for those read that
\* do not parse.
EventsOnceInOrder ==
  LET unread == reader.local \o events.queue
      read == SubSeq(accepted.events, 1, Len(accepted.events) - Len(unread))
  IN  /\ accepted.events = read \o unread
      /\ reported.events \o report.events = Parsed(read)

\* The message with the last statistics of a deleted connection also has the
\* last of its events: the connections are read before the events, under
\* another mutex.
LastReportComplete ==
  ~cleaned /\ reader.at = "idle" =>
    \A c \in added \ (live \cup ToSet(zombies)) :
      \A e \in ToSet(events.queue) : SourceOf[e] # c

\* Every measurement accepted, and every event that parses, is in a message in
\* the end, deleted connection or not, unless the aggregator is destroyed first.
EverythingReported ==
  /\ \A m \in Measurement :
       (m \in accepted.measurements) ~> (m \in reported.measurements \/ cleaned)
  /\ \A e \in Parsable :
       (e \in ToSet(accepted.events)) ~> (e \in ToSet(reported.events) \/ cleaned)
=============================================================================
