# A specification of the real-estate assistant's backend

TLA+ specifications, TLC models and TLAPS proofs of `realestate-ai-assistant`: a
FastAPI backend whose chat agent and REST surface let clients find listings, book, move
and cancel viewings and reach a human, and let staff edit listings and accounts. Paths
below are relative to `src/backend/app/` unless they start with `src/`.

## 1. The system

| Part | State | Operations | Talks to |
| --- | --- | --- | --- |
| Booking core, `booking/slots.py` | `availability_slots.status`, `bookings` | `create_booking`, `reschedule_booking`, `cancel_booking`, `find_alternative_slots` | database |
| REST bookings, `api/bookings.py` | none | cancel, reschedule, list, read | booking core, notifier |
| Chat tools, `agent/tools/` | none between calls | book, move, escalate, search | booking core, database, notifier, FAQ index |
| Escalation, `agent/tools/escalate_to_human.py` | `escalations` | log for a human, at most three an hour per conversation, one retry | database, notifier |
| Chat turn, `api/chat.py` | `conversations.history_json`, `messages`, `retrieval_logs` | one turn: load history, run the model and its tools, store | model, tools, background checks |
| Authentication, `core/security.py`, `core/revocation.py`, `api/auth.py`, `api/deps.py` | JWTs, Redis denylist | login, logout, check a request | Redis, users |
| Users, `api/users.py` | `users` | create, edit, disable, demote | database |
| Listings, `api/properties.py`, `property/queries.py` | `properties` | create, replace, deactivate, scoped reads | database |
| FAQ index, `rag/` | `faq_embeddings` | reindex at start-up, search | embedding model, database |
| Observability, `observability/`, `api/observability.py` | `faithfulness_checks`, `faithfulness_claims` | background check of an answer, metrics | model, database |
| Pagination, `api/pagination.py` | none | count, sort and slice a list | database |
| Browser application, `src/frontend/admin/src` | session, CSRF token, query cache | login, logout, requests, screens | the REST surface |

Each request runs in a worker thread with a database session of its own
(`db/session.py`). Nothing is shared in memory: requests meet in the database, Postgres
at READ COMMITTED. They publish events to a notifier that never raises.

What is hard, and the property that each part owes:

- **Booking.** A handler loads a row, decides on the copy and writes later; two handlers
  may do so at once, and any statement may fail. Two bookings must not hold one slot, no
  slot may be booked for nobody, a cancelled booking must stay cancelled, a notification
  must be sent only for what was committed and for every success, and row locks taken in different orders
  must not stop anybody for good.
- **Escalation.** The limit is counted before the insert, the insert is tried twice and
  may have committed the first time. A conversation must not flood the staff, each event
  must stand for a row that exists, the assignee must be able to act.
- **Chat turn.** The history is read before a long await and overwritten after it; tools
  commit inside a turn that may fail. What the agent remembers must be what the transcript
  shows, a turn that failed must leave nothing, and every turn must be answered.
- **Background checks.** They queue at a gate of a few places. A score must be over the
  claims there are, only answers with context are scored, no check may wait for ever.
- **Authentication.** The clock, Redis and the database are asked one after the other, and
  Redis may be away. A revoked token must stay refused as long as the code can know.
- **Users.** Edits work on copies. Some active administrator must remain, an address must
  identify an account, an edit must not take another one back.
- **Listings.** What a caller sees, what she may write and to whom she may give it are
  three rules in three places, while accounts and listings change under them. Lists are
  read page by page in separate requests.
- **FAQ index.** Instances of different releases reindex at once while searches go on; the
  vector of a row must be that of its text, and no entry may vanish meanwhile.
- **Evaluation.** The numbers of a run must follow from the cases it stored.
- **Browser.** A late 401 must not tear down the session of a later login.

## 2. The modules

| Module | What it is |
| --- | --- |
| `ViewingLedger` | The promise: slots are free or occupied by one viewing; Book, Move and Cancel are atomic. |
| `Bookings` | The program: `slots.py`, the REST handlers and the chat tools that call it, statement by statement. |
| `BookingInvariants` | The inductive invariants of `Bookings`. |
| `BookingProofs` | Theorems about every behaviour. |
| `SerialProofs` | Theorems about behaviours with one writer per booking, refinement included. |
| `ConversationInvariants`, `ConversationProofs` | The inductive invariants of `Conversations`, and its theorems. |
| `AccessInvariants`, `AccessProofs` | The inductive invariants of `Listings`; theorems about sessions and accounts. |
| `PagingProofs`, `ListingProofs` | Lemmas about slices of an ordered list; theorems about listings. |
| `IndexInvariants`, `IndexProofs` | The inductive invariants of the index and of runs, and the theorems of the index. |
| `EvaluationProofs` | Lemmas about sums, selections and quotients; theorems about the numbers of a run. |
| `ChatTurns` | A chat turn: conversation, history, tool budget, its transaction, storing. |
| `Escalations` | Extends it with the escalation tool. |
| `Conversations` | Extends it with the answer and the background check of the answer; the whole. |
| `Sessions` | Tokens, denylist, clock, and how a request comes in: login, checks, logout. |
| `Accounts` | Extends it with administrators who create and edit accounts. |
| `Paging` | Orders, slices and numbers of pages, as operators. |
| `Listings` | Extends `Accounts` and `Paging` with the listing endpoints; the whole. |
| `FaqIndex` | The table of vectors and concurrent reindexes. |
| `Evaluations` | Extends it with evaluation runs that search it; the whole. |
| `MCBookings`, `MCBookingRoles`, `MCConversations`, `MCAccess`, `MCKnowledge` | Small instances for TLC. |

There are four systems that share only the database and can be read on their own:
bookings, conversations, access (sessions, accounts, listings) and knowledge (index and
evaluations). In each the last module of the chain has `Next` and `Spec`.

### How `Bookings` corresponds to the code

The tables `slotStatus` and `bookings` hold committed rows. An open transaction is the
`phase` of its request and the rows it has locked (`slotLock`): other requests see its
writes at its commit. A request's program counter is `phase`; `seen` is the ORM copy of
the booking it loaded, `target` the slot it found, `agentId` the agent a create read off
the listing, `reply` what it answered, `event` what it published.

| Action | Code |
| --- | --- |
| `SubmitCreate`, `SubmitReschedule`, `SubmitCancel` | the tool or handler is entered, the booking is loaded, `utcnow()` is read |
| `CreateRefused`, `RescheduleRefused`, `CancelRefused` | the checks in their order, and a cancelled booking returned as it is |
| `CreateFindSlot`, `RescheduleResolveSlot` | `_find_slot`, `resolve_slot` |
| `CreateDeduplicated`, `CreateAssertClaimable` | `_find_own_confirmed_booking`, then `_assert_claimable` on the status read before |
| `ClaimSlot`, `ClaimLost` | the conditional UPDATE of `_claim_slot`, and its rowcount of zero |
| `ReleaseSlot` | the unconditional UPDATE of `_release_slot` |
| `CommitCreate`, `CommitReschedule`, `CommitCancel` | INSERT or UPDATE of the booking, and COMMIT |
| `RefreshAndPublish` | `db.refresh`, then the event built from what it read; nothing is read in between, so both are one step |
| `Respond` | the names the answer shows are read (`resolve_booking_names`), and the answer is sent |
| `Fault` | a statement raises or the process dies before COMMIT: rollback |
| `FaultAfterCommit` | the same after it: the write stands; nothing is published if the refresh fails, and the event is out if the answer fails |
| `EditListing`, `Tick` | `PUT` and `DELETE` of a listing; the clock |

Three facts of the database and the ORM decide what can happen, and the actions have
them. An UPDATE waits for the transaction that holds its row and evaluates its WHERE on
the committed row, so `ClaimSlot` needs an open slot nobody has locked and `ClaimLost` a
slot committed as booked. Only columns that changed are written, so a reschedule does not
write the status (`MovedRow`). A circle of waits is found by Postgres, which aborts one
member (`DeadlockVictim`).

**Serial callers.** `SerialSpec` is `Spec` restricted so that no request cancels or
reschedules a booking while another request cancels or reschedules that same booking.
Creates stay unrestricted. It is the condition under which the code keeps its promises;
nothing in the program enforces it.

**Abstracted.** The texts and details of refusals, suggested alternatives included; ids
(a new booking is named after its request); who may see which booking; `updated_at`. A
property that is missing altogether cannot arise, since nothing deletes one.

### How `ChatTurns`, `Escalations` and `Conversations` correspond to the code

`phase` is where a turn is in `post_message` or in the escalation tool; `loaded` is the
history it gave its agent, `history` and `transcript` are what is committed, `sink` is
`retrieval_sink`, and `aborted` holds the turns whose Postgres transaction has failed and
was not rolled back.

| Action | Code |
| --- | --- |
| `StartConversation`, `ResumeConversation`, `ConversationNotFound` | `_resolve_conversation` and `_load_history`, which drops a history that does not parse |
| `SearchFaq`, `CallTool`, `ToolBreaks` | tool calls within the budget; a failed query is reported to the model and not rolled back |
| `AgentFails` | the model raises or exceeds its limits |
| `EscalateLimited`, `EscalateCounted` | the count of the last hour |
| `EscalateAssign`, `EscalateAssignBreaks` | `_resolve_assignment_safely`, which swallows what the lookup raises |
| `EscalateInsert`, `EscalateRefreshed` | INSERT and COMMIT; refresh and event |
| `EscalateRetry`, `EscalateDegrades` | the two ends of the retry loop |
| `StoreTurn`, `Respond`, `TurnBreaks` | the commit of a turn, its answer, and any other exception or crash |
| `EnterGate` .. `Persist`, `CheckLost` | the background check: gate, context, claims, verdicts, row; cancelled with its process |

Turns may run on several instances, so the statements of two escalations interleave; the
tools of one event loop do not, which makes this more than one instance can do. The gate
is that of one instance. Tools that book use the session of their turn (`api/chat.py:247`),
but leave nothing pending in it: each ends its transaction with COMMIT, ROLLBACK or an
exception. What they do to bookings is `Bookings`, where each call is a request of its own.
`contested` is a history variable: conversations that ever had two turns at once.

### How `Sessions`, `Accounts` and `Listings` correspond to the code

A request is checked in three steps at three moments, and then becomes the step sequence
of its handler.

| Action | Code |
| --- | --- |
| `Present` | credential read, token decoded against the clock |
| `TokenDenied`, `TokenNotDenied` | the denylist, which fails open |
| `CallerInactive`, `CallerRefused`, `CallerAdmitted` | the account as it is now; CSRF; the role of the account, not of the token |
| `LoginRefused`, `LoginVerified`, `IssueToken` | password before status; expiry in whole seconds |
| `Read`, `Logout` | `/auth/me`; a key for the whole seconds that remain |
| `SelfLockout` .. `UpdateLoad`, `CreateStart` | the tests and the load of the copy; one's own account is not read again |
| `EmailExists`, `EmailFree` | the lookup of the address |
| `WriteUpdate`, `WriteCreate`, `WriteClashes` | the columns that differ from the copy; the unique index |
| `BrowseCount`, `BrowsePage`, `Open`, `NotOpened` | scope and filters, count, one page; a listing through the scope |
| `RowNotFound`, `RowLoaded`, `ListStart` | the narrower scope of the writes |
| `OwnerSettled`, `OwnerRefused` | `_owner_for` |
| `SaveRow`, `SaveNewRow` | the columns that differ from the row as loaded |
| `RequestBreaks` | the catch-all for exceptions, or a crash |
| `Tick`, `StoreFails`, `StoreReturns` | the clock; Redis away, and back with or without its keys |

`Calls` is what clients send. History variables: `revoked` (tokens logged out while Redis
could record it), `expelled` (requests whose caller had no standing ever since), `overlapped`
(an edit of an account was committed while another was under way), `outrun` (requests since
which something was written). In a logout the read of the clock and the call of Redis are
one step; tokens always have a `jti`, and an explicit null for a role is an omitted one.
Malformed requests (422) are not sent. The columns of a listing that only describe it are
one number, by which it is also sorted.

### How `FaqIndex` and `Evaluations` correspond to the code

| Action | Code |
| --- | --- |
| `Load` | file and rows are read, the reference width is taken from some row, what changed is selected |
| `Embed` | the provider, whose vectors have the width it gives now |
| `Save` | update in place, insert, delete what is stale, commit |
| `ReindexFails` | provider, clash of rows, deadlock or crash; start-up serves all the same |
| `ModelChanges` | external: a new build of the model under the same name |
| `AskRefused`, `Begin`, `EmptyIndex`, `EvalSetUnavailable`, `SelectCases` | the request, the state of the index, the file, the identity cases |
| `LookUp`, `Query`, `LookUpFails`, `QueryBreaks` | one case: vector of the query, ranking, and its failures |
| `FailRun`, `EndSearch`, `SaveRun`, `Respond`, `RunBreaks` | the failed or completed run and its cases |

Row locks make the writes of a reindex take effect at its commit; waits and deadlock
victims are part of `ReindexFails`. A reindex writes the columns that differ from its copy,
so two of them may mix a row (`UpdatedRow`). Rankings are arbitrary. A fraction is a whole
number of `Scale` parts, a mean a sum and a count. There is one embedding model, and what
is indexed of an entry is its text: a change of its category alone is not hashed, and not
modelled. History variables: `disturbed` (who has read the table before it or the model
changed), `crossed` (reindexes of different releases or widths overlapped).

## 3. The runs

| Run | Instance | Question |
| --- | --- | --- |
| `contended` | 3 requests, 2 slots, 1 seeded booking | What holds however callers behave: a slot is claimed by one transaction and only while open; a terminal status stays; a slot is booked in the commit of its booking; what is announced is durable, a refused request announced nothing, a success was announced. |
| `edited_listing` | 2 requests, 3 slots of 2 agents, 3 states of the listing, clock 0..1 | Types, and that time, agent and property of a booking are its slot's whatever an editor does meanwhile. |
| `serial` | 3 requests, 2 slots, 2 seeded bookings, `SerialSpec` | No double booking; slots booked exactly when held; the reschedule count; one cancellation notice; truthful move notices; no circular wait; `ViewingLedger` is implemented. |
| `served` | 4 requests, 2 slots, 2 seeded bookings of which one is confirmed, fairness | Every request is answered: two that may be anything and may fail, or two moves crossed with two cancels, which wait for row locks in a circle. |
| `double_booking` | 4 requests, 1 seeded booking | Violated: two cancels in flight and two creates leave two bookings on one slot, against `booking/slots.py:278`. |
| `double_notice` | as `contended` | Violated: two cancels in flight both notify, against `src/backend/tests/test_bookings_api.py:582`. |
| `own_conflict` | as `contended` | Violated: a create sent twice at once is refused over its own booking, against `booking/slots.py:325`. |
| `failed_create` | as `contended` | Violated: a refresh that fails after COMMIT is reported as "nothing was booked", against `agent/tools/schedule_viewing.py:186`. |
| `conversations` | 2 turns, 1 existing conversation, 2 tool calls a turn, limit 1, window 1, clock 0..2, gate of 1, 2 claims | What conversations, escalations and scores contain after any interleaving and failure; under fairness every turn is answered and every check settled. |
| `access` | 3 accounts, 2 tokens, 2 requests, 3 listings, 3 addresses; 2 moments a second, tokens of 2 seconds, clock 0..4 | What a revoked token, a disabled or demoted account, a stale copy and a concurrent edit can still do; who sees, writes and owns listings; pages of a list. |
| `knowledge` | 2 entries of 2 texts, 2 widths, 4 releases, 2 reindexes, 1 run; 3 files of cases and 9 requests | What the index holds after concurrent reindexes, and what an evaluation reports of it. |
| `width_drift` | as `knowledge`, no run | Violated: after the model's vectors grew wider a reindex embeds nothing again, against `rag/reindex.py:17`. |

What the properties of the three new systems say, by name:

- `InStep`, `HistoryIsTranscribed`, `FailedTurnLeavesNothing`: the agent's memory is a part
  of the transcript, all of it unless two turns of the conversation were open at once (one
  of them is then forgotten, `api/chat.py:304`), and nothing of a turn that failed.
- `WithinLimit`: in any hour at most one escalation over the limit where turns follow each
  other; the one is the retry after a commit that took effect. `AnnouncedOnce`: an event
  stands for one row that is there.
- `ScoresAreWhole`: a score is over the claims there are, of a stored answer whose turn found
  something. `ChecksSettle`, `TurnsAnswered`: neither checks nor turns are stuck.
- `RevokedStaysOut`: a revoked token passes only where Redis cannot be asked or in the
  token's last second. `OthersStayIn`: only that token is turned away.
- `NoStandingNoEffect`, `SomeAdmin`, `AddressesIdentify`, `OnlyRequestedChanges`. Without
  its condition `SomeAdmin` is false: two administrators who demote each other both pass.
- `WithinScope`, `ReassignmentStands`, `OwnersMayServe`: filters never widen a scope. The
  stored listing a caller replaces or withdraws is hers as an agent, or she is an
  administrator, except where it was handed to somebody else between her load and her save:
  the UPDATE names it by its id only (`api/properties.py:202`) and there is no version check,
  so her late form still writes its other columns, but does not take the listing back. No
  listing goes to a client unless accounts changed under the request.
- `PagesPartition`: pages follow each other without gap or repetition while nothing is
  written, if no two listings are equal in the sort column. Without that condition it is
  false, since `paginate` has no second column to order by.
- `VectorsMatchTexts`, `FoundThroughout`, `FreshAfterReindex`, and for runs
  `NumbersFollowFromCases` (against reference definitions of recall and reciprocal rank) and
  `RunsLeaveATrace`.

Met on the way and recorded in the conditions above: a failed SQL statement whose exception
a tool swallows leaves the transaction aborted, so the turn cannot be stored; an evaluation
that fails on an SQL error cannot store its failed row either (`QueryBreaks`); the identity
canary reads 0 when 1 is not among the k values, which is why `NumbersFollowFromCases` asks for it.

`double_booking` and `double_notice` have one cause: `cancel_booking` tests the status of
the copy it loaded and `_release_slot` has no condition. The same cause makes
`MovesCounted` and `SlotsMatchBookings` fail for concurrent reschedules (the count is the
copy's plus one, and the first one's new slot is left booked for nobody), which is why
they are checked under `SerialSpec`.

**Bounds.** Two slots at different times are enough for a move, for a conflict and for a
slot given back and taken again; a third, of another agent at the same time, for a
handed-over listing. Seeded bookings have any status, so short behaviours start from the
ends of long ones. Three requests suffice for a writer with a stale copy and somebody who
took its slot meanwhile; the double booking and the crossed locks need four, which
`MCBookingRoles` affords by giving each request its operation. `Requests` are one-shot,
so every instance stops: deadlock in TLC's sense is not checked, waiting for ever is
(`Answered`). `MaxNow` bounds the clock; with 0 the slots are in the future, with 1 the
first is past. In `conversations` two turns meet in every pair of steps, a limit of 1 with
a window of 1 is reached and passed and forgotten again, and a gate of 1 makes a check wait
for another. In `access` a token of two seconds with two moments each can be logged out
before, in and after its last whole second; two administrators and a free id are what the
edits need, and three listings make full, partial and empty pages. In `knowledge` two
reindexes of releases that add, change, drop and empty entries overlap in every way.
`MaxTime`, `Widths`, `MaxCases`, `MaxK`, `MaxClaims` and `MaxToolCalls` are the other bounds.
The `MC` modules of these three draw a plan at the start and keep to it: the parts of a
system that do not share a variable beyond what a plan fixes need not be multiplied with
each other. Symmetry is over requests, clients and seeded bookings, never in a run
with fairness.

**Fairness.** `FairSpec` has weak fairness of each request's own steps, because threads
keep running and the database answers, and of breaking a deadlock, because Postgres looks
for one once a second. In `Conversations` it has weak fairness of what a turn or a check
does once begun: the event loop keeps running and every model call returns or raises.
Submitting, editing, ticking and failing are never forced. `served`
and `MCConversations` state the same fairness for their restricted next-state relations.

## 4. The proofs

Every invariant and every action property that a passing run checks is also a theorem, for
all values of the constants; so is the refinement. Each theorem names the property of the
run. The inductive invariants are in modules of their own, and TLC checked each of them on
the instance of its system before it was proved.

**Assumptions.** Sets are of any size, infinite ones included, unless said otherwise.

- `Bookings`: `None` is no row and no identifier, a new booking's name is no seeded one, the
  columns of slots have their types.
- `Conversations`: `None` and `Unreadable` are no value they stand in for (a score is a pair
  of numbers, so `None` is no such pair); limit, window and gate are positive.
- `Listings`: the like for `None`; what clients send is well-formed; a second and the life
  of a token are some moments long. `Properties` is finite, because `paginate` counts them.
- `Evaluations`: the like; `Entries` is finite, for a corpus is a file, and a request has
  sequences of strings and of integers. `Reindexers` is finite, because the moments at which texts are
  embedded are numbered, and no name of one is that of a run: both are members of
  `disturbed`.

**`BookingProofs`**, for `Spec`: `TypeCorrect`, `ColumnsAlwaysAgree`, `StatusStaysTerminal`,
`ClaimsAreExclusive`, `AnnouncementsFollowCommits`, `ClaimsCommitWithBookings`, the properties
of `contended` and `edited_listing`. The invariant is built in layers. `TypeInv` says of each
phase what the request has loaded: the booking it loaded still exists with the same agent and
property, and the slot it wants is one its call or its booking asks for. Without it a commit
could write a slot of somebody else's. `ColumnInv` adds `ColumnsAgree`, which a newly loaded
copy needs. `LockInv` adds `LocksOK`: a claimed slot is locked by its claimer and still open,
and no lock is held by anybody else; that two claims exclude each other follows. `OutcomeInv`
adds that a request has written exactly from its commit on, announces before it answers and
answers when it is done. `AnnouncementsFollowCommits` claims nothing of a request answered
with an error: the names for the answer are read after the event went out
(`api/bookings.py:218`), so what is reported as failed may have been announced.

**`SerialProofs`**, for `SerialSpec`: all safety properties of `serial`.

- `SerialInv` adds to `LockInv` that a writer's copy is the committed row until it commits
  (`SeenIsCurrent`), from which a commit releases exactly the slot its booking holds. For
  deadlock: the only waits are for a slot claimed, and a slot being released is booked, so
  nobody in a circle could have claimed it. For the refinement, each commit is one of
  `Book`, `Move` and `Cancel` and all other steps stutter.
- `MoveInv` carries `SerialMovesCounted`, `SerialCancelNotifiedOnce` and
  `SerialMovesAnnouncedTruly`. A count is the copy's plus one and the copy is current, so it
  is the size of the set of committed moves, which grows by one (`CommitKeepsOthers`,
  `RescheduleMoves`). A second cancellation would have read a cancelled row (`CancelsOnce`).
  Announcements come later than commits, with the row as it is then: `MovedLast` says that a
  committed move not yet announced is still the booking's latest, because its request counts
  as a writer until it has announced, so its count is above all announced ones (`EventOK`).

**`ConversationProofs`**: all safety properties of `conversations`.

- `TurnInv` says what a turn knows at each phase, and that the gate has lent out one place to
  each check inside it; so a check that is cancelled with its process gives back a place, and
  no check gives back two.
- `HistoryInv` adds to `HistoryIsTranscribed` that what a turn *loaded* names no turn twice,
  for that is what it will write. `StepInv`: in a conversation whose turns never overlapped
  the open turn has loaded all there is. Both are about the copy, not the row: the overwrite
  after the await is harmless exactly as long as they hold.
- `AnnounceInv` ties a call to its row and to the events sent before it. `LimitInv` counts the
  rows of the last hour at each phase of a call: below the limit when counted, at most at the
  limit when the insert is tried again after a commit that took effect, so one over it at
  most. The conversation must be uncontested, since otherwise two calls count the same rows.
- `CheckInv` follows claims and verdicts. A reply of the judge with one verdict per index
  covers all claims: a map of a finite set onto itself is one-to-one (`OneVerdictEach`).

**`AccessProofs`, `ListingProofs`**: all properties of `access`.

- `RequestInv` is what the steps of a request rest on: a token is of an account that exists,
  whoever is served was admitted in a role allowed for what she asks, an edit has its copy,
  a listing to be written was its caller's to edit when loaded; `ScopesHold` follows for the
  stored listing as long as that still has the owner it was loaded with.
- `DenylistOK` for `RevocationHolds`: a revoked token's key lives until the token's last
  second begins, since lifetimes are cut to whole seconds. `StandingOK` for
  `StandingDecides`. `AdminOK` for `AdministratorRemains`: unless edits overlapped, each
  caller of an edit under way can still act when it is written, and cannot have edited
  herself away. `AddressOK` for `AddressesAreUnique`.
- `OwnerOK` for `OwnersServe`, and `BrowseOK` for `PagesFitTogether`: as long as nothing is
  written, a page shown before is a page of the listings as they are now. `PagingProofs` has
  what that needs: places in a sorted list are a bijection, equal sort keys are the only
  freedom, so without ties two orders are one and slices of it partition the list.

**`IndexProofs`**: `EntriesStayFound`, `ReindexesAreThorough`, `VectorsBelong` and
`EveryRunLeavesATrace`, for `Spec` of `Evaluations`. `IndexInv` says of a reindex at work why
it embeds what it embeds, and that what it has read is still so unless it is `disturbed`.
`MatchInv` is what mixing of rows needs: a row that is no longer as a reindex has read it was
written whole by one that ended meanwhile, from the same release and model, hence what is
written column by column on top of it agrees with it.

**`EvaluationProofs`**: `EvaluationTypes`, `NumbersAreOfCases` and `RatesLieInRange`. The code
adds up as it searches and stores the cases at the end; that both tell the same is no
invariant by itself, since most of a run has no stored case yet. `SearchInv` says it of the
rows *found* so far (`Tallied`): every count is the size of a set of rows, every rate a sum
over them, and a case more adds to both alike (`CountedCases`, `TalliedAppend`), because what
the code computes from the ranking is what the reference definitions read off the row
(`RecallIsShare`, `ReciprocalIsByRank`, `CanaryShare`). The canary needs that an identity case
expects exactly one entry, so `SelectedType` follows that through the selection of cases. A
run stores when nothing is left to search (`StoredOK`). `RatesInv` bounds each sum by `Scale`
times its count, which is the mean's denominator; the identity rate is left to the canary.

Sums and selections are recursive functions, so these are facts about data of any length. A
set of natural numbers that contains 0 and the successor of each member contains them all,
since otherwise there were a least one it misses (`NatSetInduction`, from well-foundedness);
from it follow that a function defined by recursion exists and is unique, hence what `Sum`
of a longer sequence is (`SumAppend`) and what a flattened sequence holds (`FlattenType`).

**Only model-checked.**

- Liveness under fairness: `Answered`, `TurnsAnswered`, `ChecksSettle`. The proof system has no
  rules for `ENABLED`, which fairness is made of.
- The five violated runs, which are counterexamples.

## 5. Not modelled

- **The browser application.** Its steps are scheduled by libraries outside the repository
  (router, query cache, fetch). One hazard stays open: `handleUnauthorized` in
  `src/frontend/admin/src/lib/api/session.ts` cannot tell a late 401 of the previous session
  from one of the current session once the login page is left.
- **Which booking a hint means, and whose bookings a caller finds**
  (`agent/tools/booking_common.py`, `booking/queries.py`), and `find_alternative_slots`:
  they read and change nothing.
- **Read endpoints** of bookings, users and observability: scoped queries and the paging
  that `Listings` has already.
- **Prompt texts, model construction, logging, configuration, migrations, rendering**: no
  state that a property here could be about. What a model answers is always a
  nondeterministic choice.
