# Verification of tg-mcp

TLA+ modules, TLC configurations and TLAPS proofs for tg-mcp, the gateway that
records Telegram groups into SQLite and serves them to an MCP client. Paths are
relative to the repository.

## The system

One process (`cmd/tg-mcp/main.go`) around one SQLite database.

| Component | State | Operations | Talks to |
|---|---|---|---|
| poll loop, `pkg/ingest` | locals of `Run`: offset, failedFrom, storeFails | deleteWebhook, getUpdates, persist, per-message replay of a poisoned batch | Bot API (calls), store (calls), chat map (lookup) |
| start and ticker, `cmd/tg-mcp` | none of its own | load map, replay, sweep, then run loop, ticker and server in an errgroup | store |
| store: messages and FTS | `messages`, `messages_fts` | UpsertBatch, queries | SQLite |
| store: pending buffer | `pending_messages` | UpsertPendingBatch, ReplayPending, SweepPending, PendingChats | SQLite |
| store: triage cursor | `cursors` | SetCursor, ListNew, UnreadCounts | SQLite |
| store: chats table | `chats` | SyncChats | main |
| store: search and threads | none | Search, Thread: series of queries | SQLite |
| store: latest cache | map under a RWMutex | TrackLatest, noteLatest, Latest | filled by UpsertBatch, read by the public endpoint |
| store: file cache | files on disk | SaveFile, Cached | file endpoint |
| telegram client | none | Bot API methods, one retry after a 429 | Bot API |
| MCP tools, `pkg/server` | none | send_reply, mark_handled, list_new, get_history, get_thread, search, get_file | store, telegram client |
| http endpoints, `pkg/server` | link signing key | /mcp, /files, /public, /ping | tools, file cache, latest cache |
| chat map, `pkg/config` | immutable per process | Load, validate, ByChat | everyone |
| tghtml | a stack per call | Render | send_reply |

What is hard: no offset is persisted, so every crash redelivers; a batch is stored
in two transactions; a batch that keeps failing is taken apart, but only if the
database rejects a message and not if the database is down; a chat may enter and
leave the map between restarts while its messages wait in the buffer; a ticker
deletes rows the loop is writing; a replay has to survive refused rows without
letting the index drift; two goroutines commit messages and then, under another
lock, update the cache of the newest one; a request to Telegram may be carried out
after its caller has given it up; the tools list, page, search and collect threads, each
with several queries, in tables that change underneath; downloads of one file run side
by side, break off, and are read by those who looked the file up before.

What makes each component correct:

* **poll loop** - an update leaves Telegram's queue only once it is stored, carries
  nothing to keep, or is a documented loss; only a message the database rejects is
  dropped; a redelivered batch is absorbed; a poison message cannot stall the queue.
* **start and ticker** - a chat that is mapped gets its backlog; a sweep never costs
  a mapped chat a message; what nobody claims leaves the buffer.
* **store** - writers are atomic, index and rows agree after any mix of refused rows,
  failures and kills, and a refused row cannot keep the process from booting.
* **send_reply** - one call posts at most once, and what it reports is true.
* **latest cache** - what it shows is committed, never gives way to an older message,
  and agrees with the table when no writer is at work.
* **listing and marking** - what leaves the triage list was shown to somebody, and what
  is handled stays handled.
* **paging, searching, threads** - a walk reads everything once; a message that spells a
  query out is found, and a loose answer comes last; a thread that is not flagged as cut is
  whole, a cut one surrounds its anchor.
* **file cache and links** - what is cached or read is whole, a valid link leads to its file.
* **chat map and addresses** - every accepted group can be addressed by the name it is shown
  under, and a reply goes to the group its message was seen in or nowhere.
* **tghtml** - tags are balanced and stand for the stars that were typed.

## Modules

| Module | Models | Depends on |
|---|---|---|
| `Delivery` | abstract: at-least-once consumption of the queue | |
| `Ingest` | `Service.Run` and what it calls, the two tables, the Bot API's queue | implements `Delivery` |
| `IngestProofs` | theorems about `Ingest` | `Ingest`, `Traces` |
| `Gateway` | the process around the loop: start, chat map, sweep, shutdown | `Ingest` |
| `GatewayProofs` | theorems about `Gateway` | `Gateway`, `IngestProofs` |
| `AtomicStore` | abstract: tables that change in one step each | |
| `Buffer` | `replayChat`, `replayOne`, `upsertTx`, `UpsertBatch` statement by statement | implements `AtomicStore` |
| `BufferProofs` | theorems about `Buffer` | `Buffer`, TLAPS |
| `Replies` | `send_reply`, the 429 retry under it, `noteLatest` and `TrackLatest` | |
| `RepliesProofs` | theorems about `Replies` | `Replies`, `Traces` |
| `Log` | the messages table as its readers see it: time, group, links, surrogate id | |
| `Triage` | `list_new`, `mark_handled`, `SetCursor` | `Log` |
| `History` | `get_history` and its cursor | `Log` |
| `Search` | query parsing and the three passes of `Search` | `Log` |
| `Thread` | `Thread`: chain, replies, span, cut | `Log` |
| `FileCache` | `SaveFile`, `Cached`, `get_file`, links and the file endpoint | |
| `ChatMap` | `validate`, names and addresses, `SyncChats`, `replyTarget` | |
| `Render` | the inline pass of tghtml | |
| `ReadingProofs` | theorems about `Triage`, `History`, `Search` and `Thread` | these, `Traces` |
| `FileCacheProofs` | theorems about `FileCache` | `FileCache`, TLAPS |
| `SendProofs` | theorems about `Render` and `ChatMap` | these, `Traces` |
| `Traces` | lemmas the proofs share: least elements, induction up to a number, reading a sequence item by item | TLAPS |
| `MC...` | instances for TLC; `MCReading` composes `Triage`, `History` and `Search` over one `Log`, `MCSend` puts `Render` and `ChatMap` side by side | |

### Ingest

An update is its position in `stream`, which is its update_id. A row of `messages` or
`pending` is the update_id that wrote it (0: no row), which is all the properties need of
its columns and makes "older text" a comparison. `body` says whether `convert` keeps the
message; `bad` names the tables that reject its row (a constraint, a type, a size), which
the code sees as `ErrBadMessage`. `pc` follows `Run`: `webhook`, `poll`, the two writes
of `persist` (`pending`, `messages`), `skip` for `skipPoison`, `down` without a process.

| Action | Code |
|---|---|
| `DeleteWebhook`, `PollNothing`, `PollBatch` | `ingest.go:105-146`. The poll confirms everything below the offset as soon as it reaches Telegram, also if its answer is lost |
| `UpsertPendingBatch`, `UpsertBatch` | `persist`, `ingest.go:171-189`: two transactions. `UpsertBatch` ends the round, so it advances the offset |
| `BatchRejected` | a transaction fails with `ErrBadMessage`: counted, retried, or, from the `storeRetries`th failure of a batch that begins with the same id, taken apart |
| `BatchUnstorable` | any other failure: counted and retried, never taken apart |
| `SkipRecord`, `SkipAborted`, `SkipDone` | `skipPoison`, one transaction per message; the offset advances only if it ran to the end |
| `Start`, `Exit` | a run begins with fresh locals; it may end anywhere, by a kill, by its context or by a fatal answer |
| `Arrive`, `Expire` | the Bot API (external): an update is queued, or ages out unconfirmed |

`PollNothing` is also a failed poll and an empty answer; a poll that never reached
Telegram changes nothing and is a stutter.

### Gateway

Extends `Ingest` with the stages of a start and a map that is chosen anew at every boot.
`aged` stands for the clock: the buffered rows past the TTL. A replayed chat is one step
here because `Buffer` shows that it is. The history variables `expired` and `refused`
record which updates a sweep removed and which the history refused at replay.

### Buffer

The tables hold a version per message. `work` is what the open transaction sees, `save`
what it saw when the savepoint was opened. A version is what a row holds, and `fault` gives
each version the place where it is refused, if any: when it is read back from the buffer, or
by one of the three statements of `upsertTx`. An edit may be refused where the original was
stored, and a batch may hold sound rows and refused ones. `Fail` is any other error and any kill: the transaction is gone.

### Replies

Several `send_reply` calls and the poll loop in one public group. A message is its
position in `group`, a text its version. `wire` is the request a call has made and what
became of it; it outlives the caller, so a request may be carried out after its answer
was given up. `pc` follows `sendReply`: `html`, `plain`, `log`, `note`, `done`; `result`
is what the caller was told.

| Action | Code |
|---|---|
| `Write`, `Edit`, `Deliver`, `Decline` | members and the Bot API (external) |
| `TrackLatest`, `Crash` | `trackPublic` before any writer runs, `main.go:168-181`; a chat that does not load stays tracked with nothing cached |
| `StoreBatch`, `NoteBatch` | `UpsertBatch` and then `noteLatest`, two steps, `store.go:190-212`, `latest.go:40-58` |
| `SendReply`, `FallBack`, `Answered`, `GiveUp` | `tools.go:206-276`: html first, plain text after a 400 and only then |
| `SendAgain` | `client.go:211-241`: the one retry after a 429 |
| `LogReply`, `NoteReply`, `LogFailed` | the reply's own `UpsertMessage`; its failure is a warning |

The poll loop is reduced to "any texts that members ever wrote", since a batch may be
delivered again at any time (`Ingest` has the whole loop). It does not store the bot's
own messages: getUpdates never echoes them, so the calls log them (`tools.go:240`).

### Log, and its readers

A message is its message id, the position in `written`; ids follow the dates, which have
whole seconds. `row` is the surrogate id, given when the message is first stored, which may
be long after it was written: a replay of the buffer, an edit of a dropped message, or a
late log of `send_reply`. An upsert of a stored message changes nothing a reader orders or
filters by, so edits appear only in `Search`, where the text matters.

* **Triage** - `ListNew` is one query; `mark_handled` is two steps, `LookUp`
  (`tools.go:367`) and `SetCursor` (`store.go:341-351`), with those of other agents between
  them. `shown` and `told` are history variables: what anybody was listed, and the highest
  position anybody was told. Agents mark what they were shown. `Late` names the exception
  that remains: a message stored after a later one of its group.
* **History** - one walk of a client that follows `next_cursor`, with any range, limit and
  the default window of the first page. `due` is what the range held at the first page.
* **Search** - texts are short sequences of letters, marks and blanks; queries hold quotes as
  well. `splitTerms`, `ftsQuery` and `literalTerms` are translated as operators; what fts5
  does with a text (`Words`, `Match`) is external. A pass is a step; an error of the first
  is swallowed, as in the code (`search.go:43-48`), and remembered in `swallowed`.
  `SpelledFound` speaks of queries that read alike without their quotes (`ReadsAlike`).
  What it leaves out is real: the inner quote of `say"what` makes two terms, and a phrase
  keeps a blank at its edge, of which the substring of the LIKE pass is trimmed. A query
  `" a%` (the quote is not closed) is answered by the first pass with an older message that
  holds ` a%`, and a newer one that begins with `a%` is not among the hits.
* **Thread** - one group; every query is a step, so rows are stored between them. `Root`
  leaves the chain at a message that is not stored, `Descend` reads one level with the limit
  that counts rows already seen, `Exhausted` is the loop's condition. `Conversation` is the
  reference: the messages of a set whose reply chains meet the anchor's.

### FileCache

Files on disk are inodes with so many chunks; `entries` is the cache path of each file,
`temps` the temporary directory. `calls` holds where each call is in `get_file`,
`get_thread`'s images or the file endpoint. `SaveFile` is cut into the steps another call
or a kill can come between: create, write chunk by chunk, close, rename, the deferred
remove. `Restart` kills everything and may change the token, and with it the link key.
Whether a call inlines a file or hands out a link is a free choice.

### ChatMap

A map gives a chat its customer, label and alias; every map of the constants is tried at
every start, and only `validate` decides. `table` is the chats table. A reply is to a
message the agent was shown in this process, with the label it was shown under or without;
`Ask` is one `MessageByID` of `chatOfMessage`, and messages are stored between two of them.
Replies that answer no message need an unambiguous address and are the case of one
candidate.

### Render

A token is a word, a mark, a blank, a run of stars, a code span or an end of a link; what
`tokenize` leaves literal is a mark. The tokens of a line are chosen one ahead, because
`canOpen` and `canClose` look at the next character. `outer` keeps the line around a link
text, which gets a renderer of its own. `Heading` is the bold line with its bold stripped. Its
text is cut first, `TrimRight`, and rendered after, so the lines a heading can have for its
text are those `TrimRight` leaves alone (`AsHeading`), the empty one among them: what is left
of a heading of blanks. `Balanced` says of each that its tags nest, and that the only empty
entity is the `<b></b>` of that heading.

## Runs

| Run | Bounds | Shows |
|---|---|---|
| `ingest` | 3 chats (one private), 2 message ids, 5 kinds of update, 3 arrivals, batches of 3, 3 attempts | `TypeOK`, `NothingLost`, `PoisonOnly`, `RedeliveryAbsorbed`, `CountSurvivesGrowth`, `ImplementsDelivery` |
| `ingest_live` | 3 kinds of update, 2 arrivals | `Drains` under fairness |
| `ingest_edits` | as `ingest`, one message and its edits | `EditsNeverUndone` is violated |
| `gateway` | 2 groups, one message id, an edit only the history refuses, 2 arrivals, any number of restarts and map changes | `GTypeOK`, `BacklogRecovered`, `NothingLostAcrossMaps`, `SweepSparesMapped`, and `BufferBounded` under fairness |
| `buffer` | 2 messages, 2 versions, each sound or refused in any of the four ways | `TypeOK`, `IndexInStep`, `ImplementsAtomicStore`, `Boots` |
| `replies` | 2 symmetric calls, 3 messages, 2 versions, any number of restarts | `TypeOK`, `AtMostOnce`, `ReportHonest`, `ShownIsStored`, `NewestShown`, `LatestNeverBack` |
| `replies_latest` | 1 call, 2 messages | `NewestAlways` is violated |
| `reading` | 2 groups, 3 messages in 2 seconds, 2 agents, pages of up to 2; for a search 2 messages, 5 texts, queries of up to 3 characters and two longer phrases, one hit | `NothingHidden`, `HandledStays`, `NothingSkipped`, `PagesGoBack`, `SpelledFound`, `LooseLast` |
| `thread` | every shape of replies of 4 messages in 3 seconds, of 3 with topics, and 5 messages in one second; cap 3, pad 1 | `WholeConversation`, `CutAroundAnchor` |
| `thread_cap` | 3 messages, cap 2, pad 1 | `CutIsFlagged` is violated |
| `files` | 3 symmetric calls, 2 files of 2 chunks, 2 keys, 3 temporary files, one link | `CachedWhole`, `ReadsWhole`, `LinksHonoured`, `TempsAccounted` |
| `send` | lines of up to 7 of 8 tokens; maps of 3 chats with 2 customers, 2 labels, one alias, 2 message ids | `Balanced`, `NothingRewritten`, `NeverInsideItself`, `NamesLeadBack`, `LandsWhereSeen`, `HistoryKeepsCustomer` |

The bounds. `MaxUpdates` arrivals: three positions are an update in front of, in and behind
a batch that fails, and a failing batch of one or two grows while it is retried. `Limit`
stands for getUpdates' 100, `Retries` for `storeRetries`, 3 as in the code in `ingest`; in
`gateway`, whose questions are about maps and sweeps, one attempt is enough to have an
update dropped. `storeFails` stops one above `Retries`, since only the comparison with
`retries` reads it. In `replies`, three messages are the fewest where two calls and a
member's message can be committed in one order and noted in another. In `reading`, three
messages and pages of two are the fewest where a page ends inside a second and a third
message is stored behind, in or before it; `Window` 0 puts the boundary of the default
window inside the two seconds; the two phrases hold a blank at the edge and a blank inside.
In `thread`, the cap of 3 is passed by the walk (4 messages
that reply to each other) as well as by the span fill (5 in a second, 4 on one side of the
anchor). In `files`, three calls are two writers of one file and a reader. In `send`, seven
tokens hold two nested runs with content and a token on either side, or a link with a run
inside it; with three chats a customer may have one, two or three groups. Restarts,
failures, redeliveries and map changes are unbounded in every run.

`MCReading` gives an instance to one kind of client at a time, because none of them writes
what another reads, and `MCSend` steps one of its two parts; running them side by side would
only multiply states.

Deadlock is checked in all runs but `reading`, `thread`, `thread_cap` and `send`, where a walk,
a search, a thread or a line comes to its end and the log is full.

### The three violations

* `EditsNeverUndone`: README.md:365-366 has the idempotent upserts absorb duplicates.
  They do within a transaction, since a batch is written in update order. The per-message
  replay has a transaction per message, so when it is fed a batch with an original and an
  edit that an earlier delivery has already stored (the pending half of `persist`, or an
  earlier replay that was cut short), it stores the original over the edit, and readers see it until
  the replay reaches the edit again - after a crash, until the next delivery.
* `NewestAlways`: latest.go:9-12 and :31 promise the newest message, the same after a
  restart. When the load at start fails, the chat is tracked with nothing cached, and the
  next batch, an edit of an old message included, is taken for the newest until
  something newer arrives.
* `CutIsFlagged`: thread.go:12 and :19 and README.md:60-61 flag a thread the cap has cut.
  The walk down ends when the collected messages reach the cap (thread.go:105), and the flag
  is set only if core and span together exceed it (thread.go:60). A conversation of more than
  500 messages whose first 500 the walk has collected, and whose other replies came more
  than five minutes later, is answered with 500 messages and without the flag.

### Noticed while modelling, without a run

* `storeFails` counts the first delivery (ingest.go:149-157), so a batch is taken apart after two
  redeliveries; README.md:373 speaks of three.
* An error of the first search pass is dropped (search.go:43-48), so when the LIKE pass finds
  nothing either, the loose pass answers, although a message may carry the punctuation
  (README.md:74-79). `LooseLast` excepts this case.
* `lone` keeps a star literal when a mark stands on the side it would open or close at; the
  other side is not asked. In `ls *foo*.log` the second star closes before a mark, so both
  stars are lost to italics, while tghtml.go:393-394 speaks of both flanks and of globs.
* A heading of blanks only (`#` and two blanks) matches the heading pattern, has no text left
  after `TrimRight` (tghtml.go:55) and is sent as `<b></b>`, an entity around nothing. No doc,
  comment or test speaks of it; `Balanced` names it as the one exception.
* A link text is rendered with a stack of its own, so in `**[**a**](u)**` bold stands inside
  bold. The tags nest all the same; `NeverInsideItself` speaks of each stack alone.
* A reply outside a forum may carry a thread id its root does not have; get_thread of the
  reply then keeps the span fill to that id (thread.go:136-139).

## Fairness

* `Ingest!Fairness`: the process is restarted when it ends, and from some point on stays
  up (`<>[][~Exit]_vars`: the statement is about a system that is not killed for ever). The
  calls the loop repeats without bound - polls, transactions - have strong fairness: the
  loop backs off and repeats them until they work, and both Telegram and the disk work
  again and again. Nothing is assumed about `Arrive`, `Expire`, or the failing actions.
* `Gateway!GFairness`: boot, replay, sweep and ticker get through again and again, time
  passes for every row. Nothing is assumed of Telegram, the loop or `Shutdown`, so the
  buffer is bounded even if polling never works.
  The replay is strongly fair per chat: `drainPending` (main.go:187-203) goes through the mapped
  chats in turn, and a chat that is unmapped and mapped again gets its turn again.
* `Buffer!Fairness`: the database is usable in the end, and a replay of a chat with
  buffered rows is attempted again and again (a start replays every mapped chat, and a
  process that failed is started again).

## Proofs

`IngestProofs` proves for every value of the constants allowed by `IngestAssumption`
(groups are chats, positive batch size and retry count - any set of updates, any bound):

* `TypeCorrect`: `Spec => []TypeOK`;
* `NothingIsLost`: `Spec => []NothingLost`;
* `OnlyPoisonIsDropped`: `Spec => []PoisonOnly`;
* `Implements`: `Spec => ImplementsDelivery`.

`NothingLost` speaks of confirmed updates only and is not inductive: a poll confirms what
is below `offset`, so everything behind the offset has to be settled already
(`SettledBehind`); the offset jumps over a whole batch, so what earlier steps of the round
have settled is kept (`SettledInBatch`: after the first transaction the buffered records,
within the replay everything before `at`); the batch has to start where the confirmed
updates end, except for those that aged out meanwhile (`BatchOK`); and a message of a
mapped chat must not sit in the buffer, where it would hide what the history holds
(`NoBacklog`). Together with `TypeOK` that is `IngestInv`, which TLC checked on the
`ingest` instance before it was proved. The lemmas: what an upsert leaves in a row (`UpsertedRows`,
from `MaxOfBounded` by well-founded choice of a largest write), that a later upsert of a
larger set keeps what is settled (`SettledKept`, `HeldAfterWrite`, `SettledAfterWrite`), and
one step lemma per group of actions (`InvStep`).

`PoisonOnly` is inductive
next to the type invariant, because the replay works on a batch of the stream and drops a
message only when a table rejects it (`PoisonStep`). For `Implements`,
`Spec => ImplementsDelivery`, a poll that confirms is `Confirm` (by `SettledBehind`), an
arrival or an expiry is its namesake, and every other step leaves `gone` alone and is
`Settle` or a stutter, for which the invariant of the next state, `NothingLost'`, is all
that is needed (`QueueStep`).

Two action properties follow. `RedeliveryIsAbsorbed`, `Spec => RedeliveryAbsorbed`, needs
`AbsorbInv`: a row was written by an update of its own message (`OwnWrites`), and none by an
update behind the batch Telegram answers next (`WithinReach`), so a batch that is repeated
reaches every update a row was written by. `CountOutlivesGrowth`, `Spec =>
CountSurvivesGrowth`, follows from the invariants proved before it.

`GatewayProofs` proves `GatewayTypeCorrect`, `NothingIsLostAcrossMaps`, `BacklogIsRecovered`
and the action property `SweepsSpareMapped`. `GatewayInv` adds to what a round of `Ingest` needs
what a start owes the loop: a mapped chat with buffered rows is still to be replayed
(`ReplayOwed`). What a sweep or a replay takes away counts as dropped for `Ingest`, so the steps
of the loop are not proved again: `Loop` is `IngestProofs` with `dropped` replaced by all that is
lost, its lemma `InvStep` covers every step made while the process serves, and `RoundSafe` is
its `SettledBehind` and `SettledInBatch` in the words of `Gateway`.

`RepliesProofs` proves, for any number of calls and messages:

* `PostedAtMostOnce`, `Spec => []AtMostOnce`. `OnceInv` adds what makes it inductive: a message of
  a call is in the group only if the call's last request is the one that was carried out
  (`wire[c] = "posted"`), and every action that sends requires a request that was declined or
  none at all (`SendStep`).
* `ReportsAreHonest`, `Spec => []ReportHonest`: by `CallInv` a call that was answered knows its own
  message, and no two calls share one (`AtMostOnce`), so another call's `Log` cannot store it.
* `ShownAlwaysStored`, `NewestAlwaysShown` and the action property `LatestOnlyForward`. What the
  cache lacks of the table is on its way to it, in the loop's queue or in a call about to
  note its row (`Pending`, `CacheInv`); a step preserves that when it adds to the table
  only what it adds to `Pending`. The load at start-up takes a largest row, which exists
  because the rows are bounded.
* `RepliesTypeCorrect`. `MaxVersions` is assumed positive: a message has the version it is
  written with.

`BufferProofs` proves `BufferTypeCorrect` and `IndexAlwaysInStep`, `Spec => []IndexInStep`,
for any messages and texts. `IndexInStep` is about committed tables, so `BufferInv` says
what an open transaction would commit: between messages index and rows agree, within
`upsertTx` they agree but for the message in hand, and the savepoint holds tables that
agree, which is what a refused row goes back to. `WritersAreAtomic`, `Spec =>
ImplementsAtomicStore`, is the refinement: the abstract tables are the committed ones, so a
commit has to be one step of `AtomicStore` and every other step a stutter. `AtomicInv` carries
through the transaction what it would leave in the history if it were committed now, the
messages still open left out (`Moved`), for the working tables and for the savepoint alike.

`ReadingProofs` is about the four readers of the log.

* `TriageTypeCorrect`, `NothingIsHidden` and `HandledStaysHandled`.
  Listings are cut by (time, row), cursors compare message ids, so `NothingHidden` needs the
  fact that connects them: ids follow the dates (`InOrder`). With it, a message that is stored
  in order and sorts after a listed one has a larger id. `TriageInv` adds that cursors and
  marks under way are messages of their group that were stored (`CursorsStored`), and that
  what nobody has been shown lies above every cursor, mark and page (`UnseenAbove`), unless it
  came late. `TriageTypeOK` is proved and not a run's property: the proof covers what a run
  would.
* `WalkSkipsNothing` and `WalkGoesBack` from `HistoryInv`: a cursor splits the
  table, so that nothing read lies before it and what is still due does (`CursorFits`). That a
  page keeps this is `CursorSplits`; that rows stored meanwhile do not disturb it is `LogKeeps`,
  for a stored message never changes its time or its row.
* `LooseIsLast`, `SearchSpec => []LooseLast`, for any texts and queries. `SearchInv` says what the
  passes that found nothing have ruled out for the messages that were there all along
  (`steady`): no page that is empty leaves a match behind, since a page of a positive limit
  takes at least one.
* `SpelledIsFound`, `SearchSpec => []SpelledFound`, for any texts and queries. `SpelledInv` adds that
  the loose pass is reached only when the LIKE pass found nothing, whatever became of the first
  one, and that the hits are stored, so that no writer moves them in the order. That the first
  pass finds what spells the query out is `WordsWhole`: where a string occurs without cutting a
  word, its words are a run of the words of what it occurs in, since the piece in hand is
  empty, or ends, where the string begins and where it ends. An attempt to prove the property
  for every query failed at the phrase with a blank at its edge, a case the run had no room
  for until its queries were made longer; hence `ReadsAlike`.
* `ConversationIsWhole` and `CutsAreAroundAnchor`, for any number of messages and any shape of
  replies.

`ThreadInv` follows the walk: below the message in hand the core is
closed under what it answers (`Collecting`, `Climbed`), it misses no reply to a member that was
visited, unless it reached the cap (`Descended`), and a span fill leaves out only what has
Cap + 1 nearer messages before it (`FilledBefore`, `FilledAfter`). `Chain` is the least closed set
of the messages, not a recursion, so `ConversationIsWhole` needs no induction: the core is a
closed set that holds the anchor, hence the whole chain of it, and a conversation that left
it would leave a closed set. For the cut, `CapAround` keeps Cap consecutive places of the
sorted messages: counting those before a message is a bijection onto 0..n-1 (`Place`),
so the places kept are exactly Cap, the anchor's among them, and unbroken.

`FileCacheProofs` proves the four properties of the cache from one invariant, `CacheInv`: the
inode at a cache path is whole; a descriptor about to be closed, renamed or sent is whole
(`Sound`); a call past its look-up, and every link, names a file that is cached, for nothing ever
removes an entry. A step preserves what the other calls rely on when it takes nothing out of
the cache and truncates nothing (`Grows`, `SoundStays`); `CreateTemp` never reuses an inode
(`lastInode`).

`SendProofs` is about what a reply goes through before it is posted.

* `NamesAlwaysLeadBack`, `RepliesLandWhereSeen` and `HistoryAlwaysKeepsCustomer` from `MapInv`: the
  map in use was validated and is in the table; a message that was seen is stored and its name
  leads back to its group (`IsSeen`); a call that asks the groups has found only groups that
  hold the message and has not dropped the one it was seen in (`Resolving`, `Resolved`).
* `NeverOpenTwice`, `Spec => []NeverInsideItself`, for lines of any length and each stack, that of
  the line and that of a link text: a context is pushed
  only when `isOpen` denies it, and closing and spilling only shorten the stack (`Distinct` is
  kept by `SubSeq` and by replacing a frame's buffer).
* `NothingIsRewritten`, `Spec => []NothingRewritten`, for lines of any length. `WrittenBack`
  accounts for what is still open: output, then each context with its stars in front, turned
  back, is the line up to the token in hand, in a link text and in the line around it. By
  `NeverInsideItself` no more than two contexts are open (`Shallow`), so it needs no sum over a
  stack, and a run of three that closes two closes a ** and a * (`AsTypedFused`).
* `AlwaysBalanced`, `Spec => []Balanced`, for lines of any length. `BalanceInv`: the output and
  the buffer of every context open are pieces that leave open what they found open,
  whatever that is, with no entity in them empty and, in a link, no code (`Proper`, `Fine`),
  and so are they without their bold, which is what a heading takes. Pieces put together or
  set in tags are such pieces again (`FineAround`, `FineTags`). No context closes empty, since a
  star run finds something written in the innermost one: it never follows the run that
  opened it (`TopFull`). A link that ends has a text, and a line with any token has an output
  (`NotEmpty`), so a heading is the bold of nothing (`BoldOfNothing`) exactly when no text is
  left of it.

What the recursive functions of `Render` and `Search` compute (`Replaced`, which turns output
back and takes bold out, `OpenTags`, `Pieces`, which cuts a text into words and a query into
terms, and `Unquoted`) is established without an induction theorem. `Traces` shows that a
function that meets such equations exists and is unique, since no number is the least at which
that fails (`SmallestExists`, `Induction`, `TraceExists`, `TraceUnique`), and that it reads a
concatenation as one part after the other (`TraceOfConcat`).

Every inductive invariant named here is written in the module it is about (or, where its
parts are the properties themselves, in the proof module) and held on that module's TLC
instance before it was proved; `BalanceInv`, which speaks of every sequence of open tags, with
at most one tag open. All assumptions are the named ASSUMEs of the modules,
which TLC evaluates in the runs.

Only model-checked: the three violations, and all liveness (`Drains`, `BufferBounded`, `Boots`),
which depends on fairness and ENABLED. Every safety property of a passing run is a theorem.

## Not modelled, and the plan

Left out for good: vendored code, JSON and HTTP plumbing, option parsing, logging, excerpts,
views and schemas, image scaling, forwarded hosts, `list_customers` and the other counts. Of
tghtml the fences, the splitting of a line into tokens and the escaping of characters: they
are string processing without a state that outlives a line, and their unit tests list
the cases. SQLite is its transactions; that a commit survives a power loss is taken for
granted, although `synchronous(NORMAL)` (store.go:75) allows the last commits to be undone,
and so is the rename of a downloaded file, which is not followed by an fsync. A row of the
history whose time does not parse (store.go:481) is in no model: Telegram sends no such
dates; the buffer's rows may have them (`fault` "decode", pending.go:112-115). Case is
left out of `Search`: LIKE folds ASCII letters only, the full-text passes fold the others too.

Planned:

1. `Render` with fences, as lines that switch between two states.
2. Power loss under `synchronous(NORMAL)`, as a log that may lose its tail.
