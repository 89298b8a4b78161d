# NetworkBroker in TLA+

A verification development of the message broker in `src/`: TLA+ modules translated from its
C++ code, TLC configurations that check them on small instances, and TLAPS proofs of the
results that matter most. Paths are relative to `src/app/src` unless they start with `src/`.

## The system

The broker is one process. `main` (`src/app/main.cpp`) reads the configuration, starts the log
threads, loads the clients, then the topics, and runs the server on one thread. Clients connect
by TCP and send lines such as `REGISTER name`, `LOGIN name`, `CREATE topic`, `SUBSCRIBE topic`,
`UNSUBSCRIBE topic`, `PUBLISH topic text`, `UNLOGIN`; each is answered by a line.

| component | state | operations | correct when |
|---|---|---|---|
| Server, Session (`server/`) | `nextSessionId_`, `sessions_`; per session the socket, `outgoing_`, the pending read and write | accept, read a line, send, write, disconnect | at most one write at a time, and one whenever something is queued; a closed session is noticed and its client released |
| MessageBroker (`broker/`) | none of its own | one per command, `Disconnect` | each command does all or nothing of what it answers |
| ClientManager, Client (`clients/`) | `clients_`: id to name, session, buffer | `CreateClient`, `ConnectClient`, `DisconnectClient`, `UnloginClient`, `GetClientId`, `SendTopicMessage`, `LoadClients`, `RemoveClient` | a message reaches each subscriber once and in order, now or at the next login; a name names one client |
| TopicManager (`topics/`) | `topics_`: topic to set of ids | `Create`, `Subscribe`, `Unsubscribe`, `Publish`, `LoadTopics` | its table is what clients were told |
| JsonRepository, JsonTopicRepository (`db/`) | one JSON file each | load; save, create, remove: read the whole file, change it, write it whole | what was answered survives a restart |
| Logger, ShellPrinter, LogManager (`logs/`) | a queue and a thread each | push, drain, stop | every line is printed before the process ends |
| Configurator (`configurator/`), main | the settings | `ReadConfig`; start and end everything in order | the settings are in force before anything uses them; the process ends when it is told to |
| Console client (`src/client/main.cpp`) | a socket, two threads | connect, read, write | every line typed is answered, every text shown whole and in order; both threads end |
| ServerConsole, ServerControl | none (empty classes) | none | |

How they interact: Server owns the Sessions. A Session calls `MessageBroker::HandleCommand` from
its read handler, sends what that returns, and calls `MessageBroker::Disconnect` from its error
handlers. MessageBroker calls the two managers, the managers their repositories. A Client holds a
`weak_ptr` to its Session, through which ClientManager calls back `Session::Send`. Everybody
pushes to the log queues.

What is hard here:

* **Ordering of completion handlers.** One thread runs them, so each is atomic, but the handlers
  of a session's read and of its write, and those of different sessions, run in any order. Both error
  handlers close the socket and release a client, and a line may be handled between them.
* **State decided elsewhere.** `Send` infers a running write from a non-empty queue; LOGIN infers a
  live connection from a `weak_ptr` that never expires, since nothing erases from `sessions_`.
* **Two copies of each table.** A command changes memory and a file, in an order of its own per
  command, and either step may fail or be cut off.
* **Two files.** They are loaded separately after a crash at any moment.
* **No timeouts.** A peer that stops reading holds its session for ever.
* **Byte streams.** Lines and texts are cut anywhere on their way; the session starts each read with a new
  buffer, the client keeps one.
* **Threads.** Two log writers, the server thread, main and the caller of `Server::Stop` share two queues and
  two flags: a line pushed too late is lost, and what a writer still uses must outlive it. The client's two threads
  share a socket, which one of them closes while the other waits in a read of it.

`PROJECT.json` lists these hazards one by one, at their lines, with the property for each or the
reason there is none yet.

## The modules

| module | models | with |
|---|---|---|
| `JsonFile` | a database file: what a read gives and a write leaves under I/O faults | operators only |
| `TopicManager` | TopicManager over JsonTopicRepository | `topics`, `topicsFile` |
| `TopicDurability` | TopicManager alone, with I/O faults, crashes and restarts, against the answers given | `up`, `told` |
| `Session` | Server and Session | `nextSessionId`, `socket`, `reading`, `writing`, `outgoing` |
| `ClientManager` | ClientManager and Client over JsonRepository | `clients`, `clientsFile`, `session`, `buffer` |
| `MessageBroker` | the whole running broker: extends `ClientManager` (which extends `Session`) and `TopicManager` | ghosts `published`, `audience`, `delivered` |
| `PubSub` | what the broker promises of topics and messages: the abstract specification | `members`, `published`, `waiting`, `delivered` |
| `BrokerRefinement` | the mapping under which `MessageBroker` implements `PubSub` | |
| `ClientDurability` | `MessageBroker` without topics, with faults on the clients file, `RemoveClient`, crashes and restarts, against the answers given | `up`, `told` |
| `Conversation` | the console client, the TCP connection and the session (extends `Session`) | `upstream`, `downstream`, `received`, `link`, the client's `input`, `reader`, `screenBuffer`, `shown` |
| `Logging` | LogManager, Logger, ShellPrinter and the macros of `log.h` | `level`, `queue`, `stop`, `writer`, `held`, `output`, `calling` |
| `BrokerProcess` | `main`, Configurator, `Server::Start` and `Stop` around `Logging` | `config`, `phase`, `port`, `server`, `stopAsked` |
| `MCMessageBroker`, `MCBrokerProcess` | instances for TLC | |
| `TopicManagerProofs`, `TopicDurabilityProofs`, `ClientDurabilityProofs`, `MessageBrokerProofs`, `SubscriberProofs`, `RoutingProofs`, `ConversationProofs`, `BrokerProcessProofs` | proofs | |

**Files.** The content of a file is a table, `Absent`, or `Torn` (truncated and not wholly
rewritten). A call of a repository meets a set of faults: `"read"` (the ifstream does not open),
`"write"` (the ofstream does not open), `"tear"` (it opens, the dump does not reach the disk whole;
the call still returns true, since no repository looks at the state of the stream). The JSON array
of a topic's subscribers is a set: `SaveTopic` never appends an id that is there. Id keys and names
are opaque.

**TopicManager.** Every operation comes as the code it returns (`SubscribeCode`) and the change it
makes (`TopicSubscribe`), so that both composing modules use the same definitions.

**TopicDurability.** `told[c][t]` is a ghost: what the last effective answer to client `c` about topic
`t` was. A process that dies inside a command (`DieAnswering`) has written the file, or torn it, and
leaves the client not knowing.

**Session.** An asynchronous operation is `pending` at the system, or waits for its handler as
`ready`/`done` or `failed`, or is `idle`. Closing a socket turns what is pending to failed and leaves
what already waits. Handlers that wait are run in any order, which includes every order Asio's
reactor produces. A session is alive from its accept to the end of the process (`RemoveSession` has no
caller), so a `weak_ptr` to it is its number, and `invalidSessionId` stands for a reset one. A read
completes with one line; which line it is, is chosen when it is handled.

**ClientManager.** `clients_` is an `unordered_map`: a loop that acts on the first match may act on any
of the matches. The loop over the receivers of a message may take any order. An operation that sends
also queues, so the operations that end a command take the response to it: the whole read handler is one
action, the following `Read()` included.

**MessageBroker.** One action per command, and within it one disjunct per outcome; `Disconnect` for both
error handlers; `Written` for the write handler; `Connection` for the acceptor; `Environment` for
system and peers; `Restart` for a process that dies between two handlers and is started again. A
command writes at most one file, once, so dying inside a command leaves the files that dying after
it leaves, or a torn one. `audience[n]` is who was subscribed and registered when message `n` was
published, and `delivered` what has been written. An entry of a queue is a message number with the
client it is for, or some other text.

**PubSub and BrokerRefinement.** The abstract broker has members, messages that wait, and deliveries; no
sessions, logins, queues, buffers or files. `members` is `topics`; a message waits for a client
while a copy for it is in any outgoing queue or in its buffer. Then CREATE, SUBSCRIBE, UNSUBSCRIBE and
PUBLISH are the abstract actions, a completed write is `Deliver`, a restart is `Crash`, and everything else -
logins, logouts, disconnections, flushed buffers - is a stutter. An entry left in the queue of a closed session
waits for ever: the code neither delivers it nor moves it elsewhere. What waits has no order in `PubSub`, because a
client that changes sessions may get a later message first; the order that the code does keep is
`PublishOrderKept`. Neither module translates code, so neither is in the map of `PROJECT.json`.

**ClientDurability.** `told[c]` is the name `c` was registered under with the answer OK, `None` before that and after a
successful removal, `Unknown` when the answer was another or there was none. REGISTER answers with the code of
`ConnectClient`, so with a name that is taken it may be answered with an error and have registered: `Unknown`. No
command calls `RemoveClient`; here a caller on the thread of the `io_context` does. It logs the client out first and
leaves it so if the file cannot be changed. It does not unsubscribe, so the id stays in the topics, for whoever
draws it next: that is why the topics are left out of this module. Unlike `CreateTopic`, `SaveClient`
fails when there is no file: a broker that could not create it at its start registers nobody until it is restarted.

**Conversation.** A line is two bytes, the second of which ends it, so that a read may end inside a line, at
its end, or in a later line. `SessionReceives` delivers any part of what is on its way into the streambuf of the
session's Read, and `Handle` runs the first line and drops the rest with the streambuf. The client's streambuf
lives as long as its reader. The two ends close, and the connection breaks, at any time; `BrokerDies` is the end of
the broker's process between two handlers. What a line does is left out, every line is answered by one text.

The reader of the client calls `read_until` (`AwaitBytes`) and from there on blocks: closing its descriptor in the other
thread does not wake it, only bytes, the end of the stream, a broken connection or a `shutdown` do (`link` is `"up"`,
`"shut"` or `"reset"`). `exit` is therefore two steps, `TypeExit` with the shutdown and `Close`, and the reader may run
between them and after both; its mutant leaves the shutdown out and `ReaderIsJoined` fails. When standard input ends
without `exit`, `Run` goes on to join a reader that nobody wakes: the client stays, connected, until the connection
or the broker goes, and `ReaderIsJoined` promises no more than that.

**Logging.** What a mutex protects is one step. Loading `stop_`, testing `queue_.empty()` without the mutex, taking
the front, and printing are steps of the writer; pushes of three threads come in between. The test of the queue without
the mutex is no race: `||` evaluates it only after `stop_` was seen, and then nobody pushes, which the proof of
`SinksDrained` establishes. A log file that does not open ends its writer at once.

**BrokerProcess.** The phases of `main`, from `ReadConfig` to the destruction of the static LogManager, whose members go
in reverse order: the console, then the file. When which line is logged is left open. `Server::Stop` is called
by the tests only; without it `main` never ends but by an exception (`HandlerThrows`). The port passes from an
int through a signed short to the unsigned number of an endpoint: `Short`, then `UnsignedShort`. An acceptor that is
bound to number 0 gets a port that the system chooses, any of the constant `FreePorts` (`BoundTo`); the tests of the
server start it so.

## The runs

| run | instance | question |
|---|---|---|
| `TopicFaults` | 2 clients, 2 topics, failing and torn writes | is what was answered in the readable file, does memory cover it and follow every OK, does no topic vanish? |
| `BrokerSafety` | 2 clients, 2 connections, 1 message, failing writes, restarts | is a client always released with its session; is a write in flight exactly when one is due; is every subscriber registered? |
| `Routing` | 2 subscribers, 2 connections that both may share, 2 messages, restarts | exactly one copy per subscriber, in order; is it what `PubSub` promises? |
| `Eventual` | 1 client, 2 connections, 1 message | is a client of a closed session eventually released for good; is a queued message eventually written? |
| `ClientFaults` | 2 ids, 2 names, 2 connections, failing and torn writes, no file at first | is what was answered in the readable file, and is memory that file? |
| `Conversation` | 3 lines, 2 messages, one connection | do lines and texts arrive whole, once and in order; is every line answered; do reader and session end? |
| `Logging` | 4 lines of 3 threads, 8 configurations | is no line lost or overtaken, none left at the end; does the end come; are the settings in force? |

Five more runs, each of one property, reproduce disagreements between the code and its documents, and
TLC finds each property violated:

| run | what the code does |
|---|---|
| `UnreadableTopicsFile` | a topics file that once does not open for reading is overwritten with an empty one |
| `DuplicateName` | REGISTER takes a name that is taken |
| `SecondLogin` | with two clients on one connection, one stays bound to it after it closed and all its handlers have run |
| `FlushToClosed` | LOGIN from a line that was read before the socket was closed empties the buffer into the dead session |
| `PipelinedLines` | of two lines that arrive together the second is dropped, and never answered |

`FlushToClosed` needs a line and a failed write to wait together. That happens: a peer that sends LOGIN and
resets leaves its line readable, and the reactor performs the write of an event before its read.

Two more disagreements can be read off `TopicManager` and have no run of their own. A second SUBSCRIBE is
answered `Internal error`: `SubscribeCode` is never `AlreadySubscribed`, since `SaveTopic` refuses the id first. A SUBSCRIBE
whose write fails is answered with an error and has subscribed in memory until the next restart, so memory covers
what was promised (`FileWithinMemory`) but does not equal it.

**Bounds.** `MaxSession` connections are accepted per run of the process, `MaxPublish` messages
published, and a command after which all queues together held more than `MaxQueue` entries is not
taken. Two connections are the least with which a client can leave one and log in on another while
handlers of the first still wait; two clients, for one to publish while the other changes state, or for
both to share a connection; two messages, for one to be overtaken. Four entries hold the header of a
flushed buffer, two messages that were in it, and the response to the LOGIN. `Routing` starts from the
files of an earlier run (`InitWithFiles`), a state that `Init` reaches by commands and a restart, to
spend its states on messages, and so does `SecondLogin`. `"read"` and `"tear"` are left to `TopicDurability`: overwritten and
torn files are known to lose data, and `SubscribersRegistered` does not survive the loss of the
clients file. `ImplementsPubSub` is checked without faults: under a failing write a SUBSCRIBE that was refused
is in memory until a crash, which then loses it. `OneLoginPerSession` restricts the users, not the broker, to one login at a time per
connection; `Routing` and `SecondLogin` lift it.

The runs of the broker do not check for deadlock: with the last connection accepted and closed (the bound
`MaxSession`), it rightly has nothing to do. The runs of `TopicDurability` do.

`ClientFaults` has two ids, so that one is taken while the other is drawn, and two names, so that both may have
the same. `Conversation` has three lines because two are the least to arrive together and the third shows that the
session goes on, and two messages, one before and one after an answer; `UserWaits` says that the user reads the answer
before typing on, and `PipelinedLines` lifts it. One session is enough there: sessions share no stream. `Logging` has
one line of main, one of the server thread and two of the thread that stops it: two for one to be overtaken, and
three threads for the pushes to mix; the configurations are every failure, the defaults, port 0 with two ports for the system to choose from, and ports on
both sides of what a signed short holds. `Logging` checks for deadlock (a process that has ended may stay so); `ClientFaults` and
`Conversation` do not, since both may rightly run out of connections or of things to say.

**Fairness.** `Fairness` is weak fairness of each session's command, disconnect and write handlers:
`io_context::run` executes every handler that waits. Nothing makes a peer send, a connection
arrive or a socket break, or a peer read: a write may stay in flight for ever, for there is no write
timeout, and `QueuedIsWritten` says so. A peer that keeps sending does not starve the writes.

In `Conversation` the threads of the client (a user's `exit` is followed by the close) and the handlers of the session
are run, and a connection delivers what is on its way while it is up; the user, the messages, breaking and dying are free. That a lost peer is noticed is
assumed: a connection that is silently half open holds its session for ever. In `BrokerProcess` every thread that
can take a step is scheduled: main, the server thread once it was stopped, the pushes, the writers (their
mutexes are held for a few instructions and no thread can hold one for ever). That anything is logged, that the
server is stopped, or that a handler throws is not assumed.

## The proofs

Checked by TLAPS for every value of the constants that satisfies the modules' named assumptions. Every safety
property that a passing run checks is also a theorem. Hypotheses beyond those assumptions are stated with each
theorem, with the reason it needs them.

**The topics and their file** (`TopicDurabilityProofs`, on the lemmas of `TopicManagerProofs`).

* `TypeCorrect`: types.
* `FilePromisesKept`: `Spec => []FileKeepsPromises`, if `"read" \notin IoFaults`.
  The argument: each repository call leaves the file it found, a torn one, or the table it means to, and
  it returns true only in the last two cases (lemmas `SaveTopicCases`, `CreateTopicCases`,
  `RemoveFromTopicCases`); the answer changes at the same client and topic as the table
  (`KeepsAfterAnswer`). No strengthening but `TypeOK` is needed: in particular nothing about memory, so
  the file is right even where memory is wrong. The assumption is needed: `UnreadableTopicsFile`
  and the overwrite in `CreateTopic`.
* `MemoryCoversFile`: `Spec => []FileWithinMemory` under the same assumption.
* `MemoryFollowsAnswers`: `Spec => AnswersMatchMemory`, under every fault.
  `TopicsNeverVanish`: `Spec => TopicsSurvive`, if `"read" \notin IoFaults`. Both are
  properties of steps and need `TypeOK` only.

**The clients and their file** (`ClientDurabilityProofs`).

* `DurableTypeCorrect`: types, with the `QueueInv` of the broker that this module runs.
* `PromisedClientsKept` and `MemoryIsFile`: `DurableSpec => []FileKeepsClients` and `[]FileIsMemory`, if
  `"read" \notin IoFaults`. The two are one inductive invariant, `FileInv`: REGISTER and RemoveClient decide from
  memory what they write, so the file keeps its promises only as long as memory is what the file holds. A file that
  does not open when the broker starts is created again, empty (`Loaded`); hence the assumption.

**The sessions** (`MessageBrokerProofs`, `SubscriberProofs`).

* `TypeCorrect` and `WritesNeverOverlapOrStall`: `Spec => []TypeOK` and `[]WriteInFlight`. They are one
  inductive invariant, `QueueInv`: the write handler takes the tail of the queue, which is a
  sequence of entries only because a write in flight has an entry at the front.
* `SessionsReleaseClients`: `Spec => [](NoOrphanedLogin /\ ClosedSessionReleases)`, if
  `OneLoginPerSession`. The inductive invariant `ReleaseInv` adds that a session has at most one client:
  without it `DisconnectClient`, which releases one, could leave another behind, and that is
  what `SecondLogin` shows. `ClosedSessionsRelease` states its second half by itself.
* `EverySubscriberRegistered`: `Spec => []SubscribersRegistered`, if
  `IoFaults \subseteq {"write"}`. The inductive invariant `RegisteredInv` adds that the clients file equals
  memory (REGISTER writes first and gives up when it cannot), that a bound client is registered, and that the
  subscribers in the topics file are: from the files a restart takes its memory. With `"read"` or `"tear"` a restart may
  load an empty registry next to the old topics.

**The messages** (`RoutingProofs`). Whatever handler runs, to the messages a step is one of five things (`StepKinds`):
`Quiet` (texts are queued, clients may be released), `Flush` (a login moves a buffer to a queue), `Fanned` (a message
goes out), `Popped` (an entry is written) or `Lost` (a restart). Each invariant is proved of the five.

* `OrderKept`: `Spec => []PublishOrderKept`, with no hypothesis. `OrderInv` adds what a flush and a publication need:
  every message there is has a number up to `published` (so a new one is the youngest), and only a client that is
  away has a buffer (else a message could be queued ahead of older, buffered ones). A flush appends to the queue of a
  session that may hold copies for the same client from an earlier login: that buffered messages are younger than
  all queued ones, on every session, is what keeps that in order. `FreshInv` says that nothing is queued on a session
  before it is accepted, where the welcome replaces the queue.
* `OneCopyEach`: `Spec => []OneCopyPerSubscriber`, with no hypothesis: neither faults nor the number of logins per
  session matter. `CopyInv` says it with the set of places of a copy instead of its cardinality: every step maps the
  places before it one to one to those after it, except `Fanned`, which makes one place for each receiver of a number
  that, by `OrderInv`, was nowhere.
* `BrokerImplementsPubSub`: `Spec => ImplementsPubSub`, if `AllowRestart => IoFaults = {}`. By `CopyInv` and
  `OrderInv` what waits for a client is what it was to get and has not got (`WaitingTold`), so steps that leave the
  ghosts are stutters, PUBLISH is `Publish`, the write of a message is `Deliver`, SUBSCRIBE, CREATE and UNSUBSCRIBE
  are `Join`, `Create` and `Leave`, and a restart is `Crash`. `MembersInv` says that members are registered, so
  `SendTopicMessage` skips none of them, and that the files are what memory is, so a crash finds the members again. That
  takes the hypothesis: a SUBSCRIBE whose write failed is in memory until a restart, which then loses a member.

**The conversation** (`ConversationProofs`).

* `ConversationTypeCorrect`: types, together with `SessionInv`, the life of the one session and its operations in
  flight: the text that goes onto the stream is the front of the queue, which must not be empty.
* `TextsKeepOrder`: `Spec => []TextsShownInOrder`, for every user. `ScreenInv`: the queue ends with the last text sent;
  what the client's streambuf and the stream hold, in this order, are the bytes that follow those shown; and while the
  socket of the session is open and the connection up, these are all that was written.
* `RequestsKeepOrder`: `Spec => []LinesHandledInOrder`, if `UserWaits`. `RequestInv`: at most one line is unanswered,
  so what `Session::Read` throws away with its streambuf is never part of another line. Without the hypothesis
  it is: `PipelinedLines`.

**The logs and the process** (`BrokerProcessProofs`), with one inductive invariant, `Inv`, of six parts besides the types.

* `TypeCorrect`: types, among them that `port` is a port number once the acceptor is bound.
* `LinesKeepOrder`: `Spec => []LinesInOrder`. `WriterInv`: the writer holds a line only between its pop and its print.
* `SinksDrained`: `Spec => []DrainedAtExit`. `CallInv` and `PhaseInv` say who may still log in each phase of main: the
  server thread is joined and the thread in `Server::Stop` has left its call before a destructor sets `stop_`, so nothing
  is pushed once it is set; `WriterInv`, that a writer ends only having seen `stop_` and after that an empty queue.
* `ConfiguredLevelInForce`: `Spec => []ConfigurationInForce`: no log macro runs before `LogManager::Init`.
* `PortIsServed`: `Spec => []ConfiguredPortServed`: `UnsignedShort(Short(n)) = n` for
  `n \in 0..65535`, so each configured port of `1..65535` is the one that is served, and for 0 it is one of `FreePorts`,
  for any set of ports the system may choose from (`PortServed`).

Only model-checked: the liveness properties `ReleasedForGood`, `QueuedIsWritten`, `EveryLineAnswered`, `ReaderIsJoined`,
`SessionEnds`, `LinesPrinted` and `StopEnds`, which need fairness and `ENABLED`, out of this prover's reach, as is anything by
induction over data. `NamesUnique`, `FlushedToOpenSocket`, `ReleasedWithSession` (for users who log in twice on a connection), and
`EveryLineAnswered` for users who do not wait, do not hold of the code.

A file that was torn once stays torn as long as it can be opened: no operation rewrites what does not parse. The durability
properties (`FileKeepsPromises`, `FileKeepsClients`, `FileWithinMemory`, `FileIsMemory`) say nothing of it: what a torn
write loses is not checked against what was answered. `OneCopyPerSubscriber` counts a copy in the queue of a closed session, which
is never written.

## Not modelled, and why

* The text of lines and responses: a line is the command it parses as, a response is `Text`. What the parser makes of
  blanks (the argument of CREATE is the rest of the line, the topic of PUBLISH one word) is therefore not seen.
* `Server::RemoveSession`, which has no caller. With it, a `weak_ptr` to a session could expire.
* The loop of `CreateClient` when all ids are taken: it never ends, on the only thread of the `io_context`. The model
  does not take REGISTER then.
* Exceptions that leave a handler (`remote_endpoint`, `dump` of invalid UTF-8) are the end of the process wherever it may
  happen: `HandlerThrows`, `Restart`, `Die`, `DieAnswering`, `BrokerDies`. What causes them is not modelled.
* Errors of the two log streams and of the client's terminal; resolving and connecting in the client; the file names in
  the configuration.
* `ServerConsole` and `ServerControl` are empty; tests, build files and CI are not part of the running system.

## The plan

1. Done: the broker and its files, the logs and the process around them, the console client and its conversation with a
   session, the abstract specification and the refinement; and the proofs of every safety property and of the
   refinement.
2. Next: the safety half of `EveryLineAnswered` and `QueuedIsWritten`, as invariants of what is answered and of what
   a queue may lose when its session closes, with their proofs; weaker hypotheses where the code allows it, first for
   `MembersInv` (a broker whose writes fail still restarts with the members that it confirmed); and shorter proofs
   where two modules argue the same step of a session.
