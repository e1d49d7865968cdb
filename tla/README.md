# Formal models of the opencode toolkit

TLA+ models of the parts of this repository that keep state and run
concurrently, the TLC configurations that check them, and TLAPS proofs of their
main properties. Everything is translated from the source; line numbers are in
`PROJECT.json` ("map"), as is the list of hazards the properties are for.

## 1. Inventory

The repository is a set of add-ons for an offline `opencode` installation: MCP
servers, plugins, a batch toolkit, and the scripts that deploy them.

| Part | State it keeps | Operations | Talks to |
|---|---|---|---|
| `mcp-servers/java-lsp/lsp-client.js` (`LspClient`; spring-lsp holds the same file) | `#pending`, `#nextId`, `#openDocs`, `#diagnostics`, `#dead`, the input buffer, one child process | `start`, `request` and its timer, `notify`, `syncFile`, `getDiagnostics`, `shutdown`, `#onData`/`#handleMessage`, `#markDead` | a language server over stdin/stdout |
| `mcp-servers/java-lsp/server.js`, `mcp-servers/spring-lsp/server.js` | the singleton `clientPromise`; spring-lsp also the extracted vendor directory | seven tools, `getClient`, SIGTERM | HTTP clients, `LspClient` |
| `plugins/llm-review-gate` | `reviewSessionID`, `reviewSessionIDs` | `tool.execute.before`: review or skip, race with a timer, log, throw or go on | opencode sessions, a model |
| `toolkits/module-analysis/analyze-modules.mjs` | a shared counter, lanes, one output and one log file per module | skip, prompt, write the log, write the document, interruption, re-run | an opencode server, the file system |
| `mcp-servers/oracle/server.js` | none between requests; a connection within one | `oracle_query` | Oracle |
| `mcp-servers/loki/server.js` | none | three queries, time parameters | Loki |
| `plugins/hook-logger`, `plugins/system-prompt-tools` | files they append to or overwrite | make the directory, append a line or overwrite the dump, swallow errors | the file system |
| the memory MCP server | third-party; only its configuration and tests are here | | |
| `deploy/`, `docker/`, `scripts/` | images, configuration, prompts | | |

What is hard here, and what makes each part correct:

* **LspClient.** All overlapping tool calls share one object, one id counter
  and one pair of pipes. Answers come in any order, late (after the timer),
  never, or with an error; the server asks questions of its own under ids that
  may equal the client's; the process dies at any point, and the object learns
  of it later. Correct means: every promise is settled exactly once, by its own
  answer, its timer or the death; nothing stays in `#pending`; the server is
  not left waiting; the document notifications it reads are a legal sequence.
* **server.js.** Calls arrive before the first `start()` is over, a start times
  out with its process alive, a process dies after its start, SIGTERM comes in
  the middle of a start. Correct means: one start at a time, no failed start
  cached, a ready client shared and kept, every call returns, SIGTERM is obeyed.
  spring-lsp's server first unpacks itself, which may fail or be cut short, and
  is tried again: nothing may be unpacked under a server that runs, and no call
  may start what its own extraction left unfinished.
* **The writing plugins.** Hooks of different sessions overlap between their
  awaits: in making the directory, in appending, in opening and filling the one
  dump. Correct means: no hook costs another its line, events that do not overlap
  stay in order, the dump keeps nothing of requests that were over before.
* **llm-review-gate.** Calls race to create the review session; the reviewer's
  own tool calls pass through the same hook; a verdict races a timer and may
  arrive afterwards; the session is shared and may be deleted. Correct means: no
  review waits for a review, a decision stands, only cleared commands run, the
  hook returns.
* **analyze-modules.** Lanes share a counter; the script is killed anywhere and
  started again over whatever files are there. Correct means: no module is done
  twice at once or lost, nothing written is written over, a finished run has
  settled every module.

## 2. Modules

```
RequestTable   ClientLife          abstract: what request() promises; the life of a client
      ^         ^      ^
      |         |      |
   LspSession --+   LspServer      the session, message by message; the singleton over many clients
      |                |
      |           SpringServer     ... over the directory spring-lsp unpacks
      |
 LanguageServer                    the other end of the pipes (outside the repository)
      |
   LspClient                       the object, one operator per method and event handler

   MessagePipe    GatedCall      ReportedQuery      abstract: the reader, the gate, oracle_query
        ^             ^                ^
        |             |                |
   StdioFraming   ReviewGate      QueryServers      how the object finds messages in the bytes it
                                                    reads; the review plugin; the Oracle and Loki
                                                    servers, with the rows their statements share

   ModuleAnalysis                  the batch runner
   HookFiles                       the files the plugins write from their hooks
```

`MC*.tla` and their `.cfg` files are the instances TLC checks; `*_proofs.tla`
hold the proofs.

**LspClient** has the object's fields as variables (`pending`, `nextId`,
`openDocs`, `diagnostics`, `dead`), the child process (`proc`) and the two pipes
(`stdin`, `stdout`, as sequences of messages). A promise is named by who asked:
each asker makes one request, so `promise[k]` is what `request()` gave asker
`k`. Texts are revision numbers. `Send` is `#send`: it throws on a dead object;
between the death of the process and its exit event the bytes are lost, and
since `stdin` has no "error" listener the write may also bring the MCP server
down (`host = "crashed"`). So does what is thrown while a message is handled, as
nothing catches it in the "data" listener: a reply to a question read after the
death (`OnServerRequest`), and a message of a shape the handler does not expect
(`OnJunk`: the body `null`, diagnostics without params). `Request`, `Timeout`, `MarkDead`, `Start`,
`AskToShutDown`, `SyncMessage` and `OnData` are the methods; what the code
awaiting a promise does next in the same turn (`start()` sending "initialized",
`shutdown()` ending the process) is part of the action that settles it
(`Resolve`, `Reject`), because promise continuations run before the next
callback.

**StdioFraming** is `#onData` on bytes: the buffer, the search for the empty line
and the length in front of it, the wait for a whole body, the header that is
dropped because it has no length. The process writes messages (`WriteMessage`) and,
between them, other things (`WriteOther`: the lines of a JVM, a header without a
length); `OnData` reads a chunk of any size. `Pass` is one pass of the loop in
`#onData`, given what the passes behind it find, and `Passes` the loop. Bodies may
hold empty lines and headers themselves, and a header may have other lines around
its length. Lengths count symbols, so that one symbol stands for a line end, for the
length field or for other text. **MessagePipe** is what it promises: what was written
is handed on in order, one or several messages at a time, nothing lost, repeated or
made up. `LspClient` takes from it that whole messages come out, in order; it handles
one message per step, so other steps may come between the messages of one chunk,
which the code handles in one turn: the model has the behaviours of the code and
some more.

**LanguageServer** is what `lsp-client.js` relies on: it reads in order, answers
each request at most once, in any order or never, pushes diagnostics, questions
and noise, which the handler drops or trips over (`Junk`), and dies at any moment.

**LspSession** composes both with the tool calls: `BeginOnFile`/`BeginSymbols`
(the seven tools come in three shapes: a query about a file, diagnostics of a
file, a query without one), `Read` (the `readFile` in `syncFile`, where other
calls get in between), `SyncAndAsk`, `SyncAndPause`, `Collect`, `SyncDead` (the
version is counted although `notify` then throws), and `Edit` (somebody writes
the file). `since` is a history variable: the revision on disk when the call
came in.

**LspServer** is the module-level singleton: `current` is `clientPromise` (0 when
undefined), and each object ever made has the `phase`, `proc` and `dead` of
`ClientLife`. `GetClient` makes an object in the same turn if there is none;
`FailStart` is the rejection handler that clears `clientPromise`; `Sigterm`,
`AskShutdown` and `ShutdownEnds` are the signal handler. The messages inside an
object are abstracted to what `ClientLife` allows; `LspSession` is shown to
implement the same `ClientLife`, which ties the two levels together. `Crash` is the
end of the MCP server that a process brings about, by its death or by what it says.

**SpringServer** adds to LspServer what `resolveLanguageServerDir()` does with the
directory of the vendored server: `extracted` is what it holds (nothing, a jar
without all of `lib/`, or both; the tarball has the jar first), `launched` what it
held when each object's process was spawned. `GetSpringClient` resolves the
directory in the turn that makes an object, since `execFileSync` waits;
`RefuseCall` is a call whose extraction fails. The directory outlives the MCP
server, so `SpringInit` starts from anything an earlier lifetime, killed in the
middle of an extraction too, may have left. java-lsp, which unpacks nothing, is
the case of a directory that is whole from the start. What the code takes from
the directory is only whether there is a jar: a jar without its libraries, left
by an extraction cut short, is never unpacked again, and each start fails by its
timer, until somebody deletes the directory.

**RequestTable** and **ClientLife** are abstract specifications. The first is
what `request()` promises: an open request is settled once, and closing the
table fails everything open in that step and keeps it closed. The second is one
object's life: it starts once, ends ready or failed for good, its process ends
once, and its death is learnt later and fails a waiting start.
**GatedCall** is what the gate promises about a tool call: one ruling, then what was
ruled, except for what a review session asks for itself; no sessions to create or
lose, no prompts, no timer. **ReportedQuery** is what `oracle_query` promises about a
statement: it reads, or takes effect at most once, for good and before its report, a
success is reported only of one that did, and a protocol error only of one that read;
an error says nothing.

**ReviewGate** has the plugin's two variables (`current`, `known`), the hook and
`review()` of each call, and of opencode only which sessions exist, which
commands each was shown, and which were deleted. `Begin` is the hook up to its
first wait; `Created`, `Answered` and `TimedOut` are the ends of
`session.create()`, `session.prompt()` and the timer; `ReviewOver` is where the
race is decided; `Log` writes the log and throws or goes on. A call may come
from a review session, or from a session that its model started for a subagent
(`Child`), which the plugin does not know (`origin`).

**ModuleAnalysis** has the shared counter `next`, the lanes, and the files:
`out[m]` is none, empty, partial or whole, as `writeFile` creates, then fills.
`Interrupt` is a kill, or the exit after one lane's write rejected; `Restart`
starts over with the files as they are.

**HookFiles** is `logEvent()` of hook-logger, `logReview()` of the gate (the same
code on the same directory) and the hook of system-prompt-tools, as steps between
awaits: `Begin` (`existsSync`), `Mkdir`, then `AppendLine`, or `Open` and `Write` of
the dump. Any of them may fail, which the hook swallows (`Swallow`; `refused`
records it). The dump is a sequence that says whose text stands where, so
that a short text over a long one leaves the rest of it. `earlier[h]` is a history
variable: the hooks on that directory that were over when `h` began.

**QueryServers** has no state of the servers, as they keep none: each request has
its HTTP response, its tool handler, what the handler ends with, and, for
`oracle_query`, a connection and a statement in it. The database is modelled as
far as the code depends on it: a statement changes a row under its lock, with
`autoCommit` its end commits and frees the row, the end of a session undoes what
is not committed; a statement that reads (`Select`) waits for nobody. Connections,
statements, sessions and closes fail at any point, the client may leave at any point,
and what a success is made into text of may throw (`CanThrow`, `Fetched`). `EndServer`
is a request whose URL or Host header does not parse: it is thrown outside the try
block and ends the process with everything in it, while the database keeps the sessions
and goes on with their statements. As the servers keep nothing, the requests after it
are those to the process started next. The HTTP shell is the same in
`oracle/server.js` and `loki/server.js`; the map names the file whose lines were
read for each definition.

## 3. What the runs check

| Run | Instance | Shows |
|---|---|---|
| `session_safety` | 2 calls, 1 document, 1 unasked event; about 1,050,000 states | `DeadMeansNothingPending`, `UnsettledIsPending`, `AnswersReachTheirAsker`, `DocumentsInOrder`, `QueriesSeeFreshText`, `CrashHasCause`; the session implements `RequestTable` and `ClientLife` |
| `session_liveness` | 1 call, 1 document, 2 events | `CallsReturn`, `ServerRequestsAreReplied` |
| `server_lifecycle` | 2 calls made again and again, 3 objects, every state of the directory; module SpringServer | `OneStartAtATime`, `FailedStartIsForgotten`, `CallsShareAReadyClient`, `ReadyClientIsKept`, `CallsReturn`, `SigtermIsObeyed`, each object lives a `ClientLife`; `CutIsOnlyInherited`, `NeverUnderARunningServer` |
| `server_datadir` | 2 objects | violated: `OneServerPerDataDir` |
| `server_dead` | 1 call, 2 objects | violated: `DeadClientIsReplaced` |
| `gate` | 2 calls, 2 review sessions | `NoReviewOfReview`, `RunsAreCleared`, `HookReturns`; the gate implements `GatedCall` |
| `gate_deleted` | 1 call | violated: `DeletedSessionIsReplaced` |
| `analysis` | 3 modules, 2 lanes, 3 runs | `OneLanePerModule`, `FinishedIsSettled`, `DocumentsStay`, `RunEnds` |
| `analysis_cut` | 2 runs | violated: `FinishedIsWhole` |
| `framing` | every sequence of up to 3 of 12 items (6 messages, 6 others), every way to cut it into chunks | `EveryMessageOnce` |
| `hooks` | 3 events, 3 requests, one of them with a longer text; about 190,000 states up to symmetry | `LinesAreKept`, `LinesKeepOrder`, `StaleTextGoes` |
| `queries` | 2 statements, 1 Loki request; about 150,000 states | `OnlyRowsAreThrown`, `SessionsEndWithTheirCalls`, `LocksEndWithTheirStatements`, `AcceptedIsAnswered`; `oracle_query` implements `ReportedQuery` |

`TypeOK` is checked with each component that has state of its own beyond a buffer;
those of HookFiles, StdioFraming and QueryServers are in their inductive invariants.
`CallsReturn`, of a session and of the singleton, is about the calls while the MCP server is
up: its end, which a message or a death can bring about (`CrashHasCause`), is the end of
all its calls.

**Bounds.** `MaxEvents` bounds what happens unasked (messages of the server,
edits); `MaxClients`, `MaxSessions` and `MaxRuns` bound how many objects, sessions
and runs are made, and `Count`, `Limit`, `Call`, `Uri` the sets. They are chosen
so that each interesting case happens: two calls on one document are what
`DocumentsInOrder`, `QueriesSeeFreshText` and the correlation of answers need, with
`initialize`, `shutdown` and two calls in `#pending` at once; one unasked event
is enough for an edit between two reads, or a server request whose id (1) was
also the client's. Two events let a question of the server meet an edit or a
death in the liveness run, where one call suffices because a call waits on
nothing another call does. Three objects give a failed start, its retry and the
next one, with stray processes of the first two. Two gated calls can find the
cache empty together and so make at most two sessions; a further call reviewed
in a session and calls of the reviewer and its subagents come from the same two, as
calls are made again. (With three calls there are 2,883,694 states, and the safety
properties hold.) Two lanes over three modules leave one module for whoever comes first;
three runs let an interrupted run meet the files of another interrupted run.
Three hooks on one file are two that overlap and one that was over before both,
and lengths 1 and 2 leave a tail of the longer text. Two statements can wait for
each other's row, the Loki request shares the HTTP shell with them. In `framing`
(`MaxItems`) three items put anything before and behind a message; bodies of up to
three symbols hold an empty line, or a header with a length that points beyond the
body. `Limit` may be any number of lanes; the runs set at least one, as with a
`CONCURRENCY` that makes none (0, or not a number) the script does nothing and
reports success (`NoLanesCorrect`, section 5).

No run checks deadlock: every one of these systems may stop (a session whose
host is gone, a bound that is used up, a script that has finished).

**Fairness.** Session: timers, `readFile`, the exit event and delivered data
(`WF` on `Timeout` of each asker, `GoOn`, `MarkDead`, `OnData`): Node's event loop
runs what is due. Nothing is assumed of the language server, of new calls, edits
or SIGTERM. Server: the timers end each start, each use of a client and the
shutdown, and settled promises are acted on. Gate: the 30 s timer and the log
write, nothing else; the model may hang. Analysis: each lane goes on; for the
prompt this is an assumption on the opencode server, as the script sets no
timeout of its own, so `RunEnds` says what it needs. Queries: the handlers go on,
and the database and Loki end what they are asked, again because the code sets no
timeout: `AcceptedIsAnswered` is what the servers add to that, namely that no error
path forgets its answer and no call keeps a lock another waits for. The two violation runs under
fairness add what makes the promise fair to ask for: that calls keep coming
(`CallingSpec`), that opencode ends its requests (`WorkingSpec`).

## 4. Where the code and its words part

* `server_datadir`: a `start()` that fails by timeout or refusal leaves its
  process running; the retry spawns a second on the same `-data` directory
  (`server.js:51`, against `server.js:33-34`).
* `server_dead`: a client that dies after a successful start stays in
  `clientPromise`; later calls fail until the MCP server is restarted
  (`server.js:54`, against its comment and `lsp-client.js:58-61`).
* `gate_deleted`: the id of a deleted review session stays cached and every
  review fails, and failing open lets every command through, although the title
  says "safe to delete".
* `analysis_cut`: a document cut short by an interruption is non-empty, so every
  later run skips it, against "safe to interrupt and re-run".

More are recorded without a run of their own. Two overlapping calls on one file can sync in the
opposite order of their reads (`lsp-client.js:240`), so that the server's text goes
back to an older revision until a later call syncs again, while the comment
speaks of what the file looks like "right now" (`lsp-client.js:231-232`). Each call's own
question still sees a text no older than the call (`QueriesSeeFreshText`). The
dump "always reflects the latest request"
(`docs/feature-points/02-system-prompt-tools-plugin.md`) only for requests that do
not overlap: of two that do, either may write last, and a shorter text may end in
the tail of the other. spring-lsp's README has "nothing to do manually" of the
extraction (`mcp-servers/spring-lsp/README.md:9`), which a directory left by one cut short
does not keep (SpringServer). The shared review session shows the reviewer
the commands before, while its prompt says "in isolation, with no other context"
(`llm-review-gate.ts:53`; `heard` in ReviewGate).

Of what is thrown where nobody catches it:

* "Tool results should never surface as a raw MCP protocol error"
  (`loki/server.js:69-70`, which says so of `executeQuery()` too). `lokiFetch()` makes the
  address outside its `try` block, so a label or base URL that makes none is thrown
  (`loki/server.js:72`). Both servers make the result into text outside any `try` block
  (`oracle/server.js:122`, `loki/server.js:200`): rows with a Lob or a cursor, which are
  circular, or rows too many for one string, are thrown after a call that succeeded.
  QueryServers has all of these (`"thrown"`); `OnlyRowsAreThrown` says what is left of
  the words for `oracle_query`: no change, and no failure, ends so.
* The body `null`, or diagnostics without params, makes `#handleMessage` read a field of
  nothing (`lsp-client.js:197`, `206`), and a question read after the exit event makes
  `#send` throw (`214`). The comment on the class leaves a dead server to "in-flight and
  future tool calls" (`lsp-client.js:58-61`); these end the MCP server with all of them.
  `CrashHasCause` says that nothing else does while the language server runs.
* The gate's comment is "never review the review session's own calls"
  (`llm-review-gate.ts:106`). A session that a reviewer's model starts for a subagent has an
  id of its own, so its calls are reviewed, in the session that waits for them; where the
  session takes one prompt at a time, the timer ends that review, and failing open lets the
  command run (`Child` in ReviewGate).

## 5. What is proved

For all values of the constants, from the named assumptions in the modules
(the askers are distinct; `MaxClients`, `MaxSessions`, `MaxEvents`, `MaxItems`,
`Count`, `Limit`, `MaxRuns` are natural numbers, `FailOpen` is Boolean; requests call
one tool; a message has a header with one empty line, at its end, and the length of
its body, and what else is written has no length field), every safety property that
a passing run checks is proved, every refinement among them, and besides:

* **Nobody is left with nothing to wait for.** Liveness itself needs fairness, which
  the prover does not do. What can be proved of it is the part in the code: that
  in every reachable state whoever waits, waits for something that somebody still
  has to do. `NotStuckCorrect` (LspSession), `WaitersCorrect` (LspServer),
  `NotStuckCorrect` (QueryServers) and `OwedCorrect` (LspSession) say so of the tool
  calls of a session, of those and the SIGTERM handler of the singleton, of HTTP
  requests, and of the questions a language server asks. `NoEndlessRun`
  (ModuleAnalysis) says that each step of a run uses up something finite. With these
  the liveness properties lack only that timers fire, reads end and steps come.

Module by module:

* **LspSession_proofs**: `TypeCorrect`, `CorrelationCorrect`, `DeadCorrect`,
  `UnsettledCorrect`, `AnswersCorrect`. The properties are not inductive by
  themselves: that an answer reaches its asker depends on what is in the pipes.
  `CorrelationInv` adds that ids in use are below `nextId`, that each asker has at
  most one entry, and that every request or answer, in either pipe or in the
  server's hands, carries a used id whose entry, if still there, names the same
  asker (`MessagesBelong`). A late answer then finds no entry, and a new id is
  never one that is on its way. `DeathFollowsExit` and `NotYetAsked` supply what
  `Start` and the tool calls need. The proof has one lemma per action, over
  lemmas about the map (`PutKeepsMap`, `SettleKeepsMap`, `MarkDeadKeepsMap`,
  `RequestKeepsMap`) and about the pipes (`MessagesStay`, `RequestKeepsMessages`).
  `RequestTableCorrect` and `ClientLifeCorrect` are the refinements. Both rest on
  `PromiseSteps`: any step of the session either makes one promise (`Asks`,
  `Starts`), settles one (`Settles`), fails all at the death (`Dies`), or leaves
  promises, phase and death alone (`Elsewhere`). `UnsettledIsPending` turns the
  promises into the table's outcomes; `ClientLife` needs in addition that `start()` is
  waiting exactly while its request is (`StartInv`). `NotStuckCorrect` follows with
  `CallsKeepPurpose`: whoever has asked holds a promise, an unsettled one has its entry,
  and a call that has read its file still knows what for. `OwedCorrect` follows a
  question of the server's (`OwedIsOnItsWay`) from the pipe it is in to the pipe its
  reply is in: nothing else that is written or read around it moves it.
* **LspSession_sync_proofs**: `SyncCorrect`, `DocumentsCorrect`, `QueriesCorrect`.
  Both properties speak of the message the server reads next, so the invariant has
  to speak of all those behind it. `SyncInv` says that the versions of a document
  in the pipe count up by one from what the server has (`CountsUp`) and, while the
  process may still read, come as far as what the client has counted (`Reaches`);
  that each question stands directly behind a text of its document that is no older
  than its call, or at the front when the server holds such a text; and that what a
  call has read is no older than the call. `AppendSync`, `AppendOther`, `TailSync` and
  `TailOther` say what writing and reading a message do to a pipe that counts up;
  a version that is counted and lost needs a process that has ended. `CrashCorrect`
  (`CrashHasCause`) is proved here because it needs `CallsFollowStart`: no write
  can fail before there is a process, and none while it runs, so an uncaught
  exception means that the process has ended, or that the handler has just tripped over
  the message at the front of the pipe.
* **LspServer_proofs**: `TypeCorrect`, `OneStartCorrect`, `RetryCorrect`,
  `StraysCorrect`, `SharedClientCorrect`, `ReadyClientKept`, `LivesCorrect`, from
  `ServerInv`: an object that is starting or ready is the current one, objects not
  made are untouched, and whoever holds an object holds one that exists. The
  key is that the rejection which clears `clientPromise` comes from the object
  `clientPromise` stands for, because no second start is made before.
  `LivesCorrect` is the refinement: every step is a `ClientLife` step or a stutter
  of each object.
  `WaitersCorrect` (`NobodyWaitsInVain`) adds that an object that is starting is not
  dead (`StartingIsAlive`) and that the signal handler does not sit on a rejection
  (`HandlerHearsRejection`).
  Of spring-lsp: `SpringImplementsServer` (`SpringSpec => Spec`, so everything proved of
  LspServer holds there), `CutCorrect`, `NeverUnderCorrect`, from `SpringInv`: whatever
  was spawned found the jar, and a jar stays, so a retry beside a stray never unpacks.
* **StdioFraming_proofs**: `FramingInvariance`, `EveryMessageOnceHolds`, `PipeCorrect`,
  for any messages, any other output and any chunks. `FramingInv` says where the
  messages are in the stream (`WellPlaced`: one behind the other, each with the only
  empty line of its header at its end, no length outside of them) and that the buffer
  is the end of what was read, from a place between the last message handled and the
  next, which is not whole in it (`BufferIsTheRest`). One pass then either stops at
  such a place or takes exactly the next message: the first empty line ends its
  header, or ends a block that has no length (`FirstBetween`, `FirstOfHeader`). The
  loop is a recursive function over positions. That its values exist, and that it
  finds all whole messages from every place between two, would be an induction; as
  the library's induction theorems can not be used here, `PassesExist` and
  `LoopFindsWhole` argue from a counterexample closest to the end of the buffer, which
  `LeastNat` gives (from the well-foundedness of `<` on the naturals).
* **HookFiles_proofs**: `LinesKeptCorrect`, `OrderCorrect`, `StaleTextCorrect`, from
  `HookInv`, which adds that a line has no entry before its hook is over and that what
  was over stays over. A text that was over before `r` began is never written again,
  and `r`'s open has cut it off.
* **ReviewGate_proofs**: `TypeCorrect`, `NoRecursionCorrect`, `ClearedCorrect`,
  `LateVerdictCorrect`, from `GateInv`: `reviewSessionIDs` holds every session ever
  made, and only those were ever shown a command, so a tool call of a reviewer
  is always recognised; what is not recognised comes from somewhere else
  (`ElsewhereIsNoReview`). `GatedCallCorrect` is the refinement: a late answer, a session
  that is made or deleted are stutters or make one more reviewer (`Hire`), and a step
  that ends a race is the one ruling.
* **ModuleAnalysis_proofs**: `TypeCorrect`, `OneLaneCorrect`, `SettledCorrect`,
  `DocumentsStayCorrect`, from `BatchInv`: modules below the counter are settled
  or in the hands of a lane, lanes hold different ones, and what a lane's check
  found unwritten stays so until it writes itself. `SettledCorrect` needs a lane
  (`Limit # 0`); `NoLanesCorrect` says what happens without one: nothing is written in
  any run, and it may finish all the same. For `NoEndlessRun`, `StepsLeft` counts what a
  lane has before it on the module it has taken; no lane adds to another's, because no
  other holds its module.
* **QueryServers_proofs**: `ProtocolErrorsCorrect`, `SessionsCorrect`, `CommitCorrect`,
  `LocksCorrect`, from `CallsInv`: a statement that has changed the row is still at work
  in its session, for its call or for one that is lost with its process, and holds the
  lock; and the holder has changed the row. `OnlyRowsAreThrown` needs that a statement
  that has read stays one that has read, whatever becomes of its session.
  `NotStuckCorrect` adds the stages of the handlers (`HandlersKeepStages`): an open
  response has a step ahead of it, or waits for a row whose holder's statement can end, so
  no wait is for a wait. `ReportedQueryCorrect` is the refinement, with `NoResultYet`: a
  call reports what it has when it is over (`Outcome`), so that the effect of its
  statement, which may come even after the process has gone, is never behind its report.

Only model-checked: liveness (`CallsReturn` in both modules, `ServerRequestsAreReplied`,
`SigtermIsObeyed`, `HookReturns`, `RunEnds`, `AcceptedIsAnswered`), because fairness and
ENABLED are beyond the prover. No module has a RECURSIVE operator. The definitions of
this section that no run names (`NoCallIsStuck`, `OwedIsOnItsWay`, `StraysAreFailedStarts`,
`SuccessIsCommitted`, `NobodyWaitsInVain`, `NoRequestIsStuck`, `LanesComeToAnEnd`, `ImplementsMessagePipe`) can
be given to TLC in the .cfg of their component as they are.

## 6. Not modelled

* A chunk boundary inside a line end or a length field: until the empty line is
  there the code looks at nothing else, so it makes no difference.
* `openFile` and `closeDocument`, which nothing calls; `resolveFile` and
  `languageIdFor`, which have no state; tool arguments and result formats.
* The HTTP server and transport of the two LSP servers, made per request: no state
  is shared. QueryServers models the same shell.
* Errors of the HTTP server itself, which end the process, as `EndServer` does.
* A second SIGTERM while the first is handled.
* The wording of verdicts (three classes and an error), the truncation of what the
  gate logs, prompts and progress output.
* Statements that read and also lock or change (`SELECT ... FOR UPDATE`, functions with
  effects of their own): a statement of QueryServers reads or changes.
* Rows, metadata and the text of results of Oracle and Loki; Loki's time parameters
  (`resolveTimeParam`, a pure function of the clock and its argument: its
  nanoseconds exceed 2^53, but print as the milliseconds they came from and zeros);
  Oracle's `auditQuery`, which allows everything.
* A vendored tarball that is missing, has no jar, or is replaced by a newer version
  while the server runs; two MCP servers over one vendor directory.
* Lines of the loggers and dumps longer than the chunks Node writes, which may mix
  with those of others; the other `.jsonl` files, each as the one modelled.
* Third-party servers, deployment and docker scripts: no logic of their own kept
  in state.

## 7. Order of work

Most important behaviour first: the session (LspClient, LanguageServer, LspSession
with RequestTable and ClientLife), the singleton (LspServer), the gate (ReviewGate),
the batch runner (ModuleAnalysis), the framing (StdioFraming), the Oracle and Loki
servers (QueryServers), the extraction (SpringServer), the hooks' files (HookFiles),
the safety proofs of each, and what can be proved of their liveness without fairness.
What could follow:

1. Abstract specifications of the batch runner and of the hooks' files, as the other
   components have them.
2. `resolveTimeParam` as a function over bounded inputs, once something depends on
   the windows it makes.
3. Runs for the divergences of section 4 that have none.
