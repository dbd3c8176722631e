# A TLA+ verification of Soup.net's backend

Soup.net (the code calls it claimnet) stores *recipes* (traces: a claim with its evidence) in
*books* (groups), and answers an agent's question with the recipes nearest to it.  Everything a
search can find is a vector in Postgres; everything that may be searched is decided by who is a
member of which book.  The backend is a Hono HTTP server with a pg-boss worker in the same
process, and several such processes ("tasks") share one Postgres database.  Two things make it
hard: every invariant that matters is spread over several rows and several autocommitted
statements, and every statement can be interleaved with those of another request, of another
task, or of the worker.

This directory is the TLA+ model of that behaviour: modules, TLC configurations, and proofs
checked by TLAPS.  The source is the reference; a comment in a module names the function it
translates, and `PROJECT.json` names the lines.

## 1. Inventory of the system

Paths are relative to `src/apps/backend/src` unless they say otherwise.

| part | state it keeps | operations | what is hard |
|---|---|---|---|
| Embedding pipeline (`embedding-worker/jobs/strategy-sweep.ts`, `strategy-check.ts`, `vector-check.ts`, `vector-api-call.ts`, `load-vector-items.ts`, `lib/embeddings/enqueue.ts`) | `embedding_vectors` (status, vector, vector_source, retry_count), `vector_cache`, pg-boss jobs | sweep: recover and discover; check: claim and send; vector-check: cache lookup; api-call: provider batch, split, release; sync deposit; admin retry; repair | at-least-once jobs, expired leases, rows claimed before the send, batches refused and split, deletes during a provider call |
| Strategy backfill (`strategy-check.ts` step 1) against `services/trace-delete.service.ts` and `services/trace-move.service.ts` | `traces`, `embedding_sources`, `_chunk_strategies`, `_chunks`, `_vectors` | discover, guarded insert, chain of inserts; cascade delete; move | no foreign key on the source; each insert commits by itself; two checks at once |
| Provider cooldown (`lib/embeddings/provider-cooldown.ts`, `errors.ts`) | one `system_settings` row per model | read remaining, record pushback | read, compute, upsert without a lock, from every task |
| Model switch (`jobs/model-rebuild.ts`, `services/embedding-model-status.service.ts`, `services/read-model-resolve.ts`, `read-model-watch.ts`, `cli/embedding-model.ts`) | rows of the target model, heartbeats, the read model each task runs | rebuild tick, flip, prune, heartbeat | a deploy runs two read models at once; prune decides on heartbeats it read before |
| Deposit and search (`routes/check.ts`, `services/trace.service.ts`, `services/search-pipeline.ts`, `vector-search.service.ts`) | traces, evidence, references, audit log | check, deposit, idempotent resend, search | one transaction around some of it, work after commit outside it |
| Drafts (`services/draft-queue.service.ts`, `draft-dispatch.service.ts`, `draft-verify.service.ts`, `authz/draft-resolution.ts`) | draft status on the trace | queue, approve, edit, reject | two reviewers, a move or delete meanwhile |
| Trace move and delete (`services/trace-move.service.ts`, `trace-delete.service.ts`) | a trace and its evidence, references, links, embedding chain | move to book, delete cascade | the book the caller was authorised for may change before the lock |
| Books and membership (`authz/memberships.ts`, `book-succession.ts`, `routes/groups.ts`, `routes/invitations.ts`) | groups, group_members, invitations | add, remove, change role, leave, invite, accept | at least one owner, under concurrent departures |
| Account deletion (`services/user-delete.service.ts`) | everything of a user | hand over, delete each trace, final transaction | three phases, each its own transactions; writes in between |
| Organizations (`authz/organizations.ts`, `authz/account-state.ts`, `services/org-domains.service.ts`) | organizations, members, seats, home books, claimed domains | create, join, move books, suspend, domain check, migrate accounts | seat limit, one organization per account, lock order |
| Directory check (`authz/directory-check.ts`) | per-member directory status, claim of the check | claim, ask, record, take over | a slow answer against a takeover |
| Sessions and sign-in (`authz/session-state.ts`, `services/google-sign-in.service.ts`, `auth.ts`, `routes/auth.ts`) | sessions, sign-in requests, handoffs | begin, complete, hand off, invalidate | one-time values, order of statements in an invalidation |
| OAuth server (`services/oauth.service.ts`, `oauth-cimd.service.ts`, `routes/oauth.ts`) | codes, access and refresh tokens, clients | authorize, exchange, rotate, revoke | compare-and-set on `consumed_at`, replay |
| API keys (`services/api-key.service.ts`, `authz/key-auth.ts`, `routes/keys.ts`) | keys, scopes, last use | create, revoke, resolve | effective scope is an intersection computed per request |
| Ephemeral workspaces (`services/ephemeral-workspace.service.ts`, `jobs/ephemeral-reap.ts`) | books with an expiry | create under a cap, extend, reap | extend against reap, reap restarted half-way |
| Rate limits (`middleware/rate-limit.ts`) | in-memory windows; audit rows per key | admit, count | check then act across tasks |
| Import, intents, feedback, waitlist, clustering | their own tables | bulk insert, read models | mostly single statements or pure |
| Ranking and rendering (`packages/domain/src`) | none | MMR, query parsing, response text | pure functions |
| Web app, MCP proxy, SDK, generated client, configuration (`src/apps/frontend`, `src/apps/mcp-server`, `src/packages/...`) | none of the shared state | calls to the API | not modelled: no state of the system lives there |

### How the parts interact

A *deposit* inserts the trace, its evidence and, for each text, the chain
source → strategy → chunk → vector row.  A row that has no vector yet is `pending`; from there it
is the *embedding pipeline*'s.  The sweep runs every minute on one task; it sends one
strategy-check per strategy that has pending rows; that job claims rows (`processing`) and sends
them in batches to vector-check, which answers from `vector_cache` and forwards the misses to
vector-api-call, which calls the provider.  A *pushback* of the provider is recorded as a
*cooldown* that every task reads.  A *delete* removes the chain under the trace's row lock and
leaves the cache; a *move* rewrites `group_id` along the chain.  A *model rebuild* adds rows of a
second model to the same chunks.  Jobs carry row ids only, so each handler sees what is in the
database when it runs, and nothing else tells it that the world changed since the job was queued.

## 2. The plan

In order of how much of the system's behaviour hangs on it:

1. **`EmbeddingPipeline`** (done, proved): the four tiers of the worker over the rows of
   `embedding_vectors`; **`EmbeddingRows`** (done, refinement proved): the life of one row, which
   is what the pipeline promises to its readers.
2. **`TraceIndex`** (done, proved): who writes the chains of rows that make a recipe searchable;
   **`RecipeIndex`** (done, refinement proved): what the index promises to search.
3. **`BookOwnership`** (done, proved): books, memberships, invitations and the three phases of account
   deletion.
4. **`OrganizationAccounts`** (done, proved): seats, the move of books into a company,
   org-wide books, roles; **`SerialAccounts`** (done, refinement proved): the same requests, each
   alone.
5. **`OrganizationDomains`** (done, proved): claims on an email domain, their checks, and the
   accounts that join by them.
6. **`DirectoryCheck`** (done, proved): the check of members against the company's directory.
7. **`Credentials`** (done, proved): sessions and their cut-off, handoffs, authorization codes, refresh
   rotation.
8. **`ModelSwitch`** with **`ProviderCooldown`** (open): rebuild, flip, heartbeats and prune.
   Properties: no task reads a model whose rows are gone; a rebuild completes; a burst of
   pushbacks is one event, and a cooldown is never shorter than the provider asked for.
9. **`EphemeralWorkspaces`**, **`DraftReview`**, the rate limits (open): reaping against
   extending, one-way resolutions, check-then-act across tasks.
10. Pure operators, checked against reference definitions (open): the selection by marginal
    relevance and the strategy texts.

`TraceIndex`, `BookOwnership` and `OrganizationAccounts` meet at the book: each has the part of
`groups`, `group_members` and `traces` that its properties tell apart, and takes what the others
decide (who may delete, which organization a book is in) as a free choice.  `DirectoryCheck`
takes from `OrganizationDomains` only whether the claim is current, and lets it change at any
time.

## 3. What is modelled

### `EmbeddingPipeline`

| variable | in the code |
|---|---|
| `status`, `vector`, `retries` | columns of `claimnet.embedding_vectors`; `vector` keeps which model computed it, and of what: the hashed content, an image's re-cued bytes, or the text standing in for an image |
| `stale` | the row has been `processing` for more than `STALE_PROCESSING_MINUTES` |
| `cache` | `claimnet.vector_cache` |
| `cooling` | models whose cooldown has not ended |
| `after` | the request's own provider call that runs after the commit of a deposit |
| `job` | live pg-boss jobs, with the point their handler has reached |
| `faults`, `calm` | the fault budget; `calm` is a history variable that turns false at the first step that lets two jobs answer for one row (a killed or expired handler, a stale recovery) |

An action is one autocommitted statement of a handler, or several with no reader of the state
between them.  `SweepRecover` and `SweepDiscover` are `strategy-sweep.ts`; `StrategyList`,
`StrategyClaim`, `StrategySend` and `StrategyEnd` are step 2 of `strategy-check.ts`; `CheckLoad`,
`CheckLookup`, `CheckForward` and `CheckEnd` are `vector-check.ts`; the `Api…` actions are
`vector-api-call.ts`: cooldown check, real images one by one, the text batch, the fallback batch,
the row write, the cache write, the split of a refused batch.  `StubRow`, `SyncEmbed`, `SyncRow`
and the `AfterCommit…` actions are `enqueue.ts`; `DeleteRow` is the end of the delete cascade as
the pipeline sees it; `RetryFailed` and `RepairImageFallbacks` are an operator's.
`Crash`, `Expire`, `ApiPushback` and `ApiWriteError` are what can go wrong.

pg-boss itself is modelled from how the code uses it: a job is delivered at least once, a failed
or expired one again up to its retry limit, and a handler that outlives its lease runs on beside
the retry.

### `TraceIndex`

| variable | in the code |
|---|---|
| `book` | `traces.group_id`; `Absent` before the deposit, `Gone` after the delete |
| `draft` | `draft_state = 'unverified'` |
| `link` | `claimnet.trace_evidence` |
| `home` | the `group_id` of the embedding source of an evidence entry |
| `src` | the chains of a trace: `embedding_sources` with, in `rows`, how many of strategy row, chunk and vector row exist below it, and in `text` which evidence the source text quotes |
| `check` | strategy-check handlers in their step 1 |
| `del` | the delete of each trace: the last statement it ran, the book it was authorised for, the rows it holds |
| `move`, `look` | the book a mover, or a draft's verifier, read before its transaction |

Postgres runs at READ COMMITTED, and this module is about what that leaves open.  A delete is a
transaction of six statements (`DeleteLock` to `DeleteCommit`); the backfill's inserts commit one
by one between them.  An insert under a parent that an uncommitted transaction has locked or
deleted waits (`Waits`), and fails if that commits; a delete of a row that has a child the
transaction has not deleted fails (`DeleteLevel`).  A move inserts no child and holds the trace's
row lock throughout, so it is one step.  The evidence of a trace is inserted and deleted inside one
transaction, so its chain is one fact (`home`).  Deposits, imports, verified drafts, moves with
redaction and deletes by users and by system cascades are all there.

### `RecipeIndex`

What `TraceIndex` promises to search: a recipe, its evidence and its searchable entries change
together.  There are no handlers, no locks, no rows held by a delete and no books read beforehand:
`Delete` takes everything in one step, `Move` takes everything along, `AddEntry` files an entry
where the recipe is at that moment.  `TraceIndex` implements it (`ImplementsRecipes`), with the
live chains as entries (`Index`); of a delete only the commit is a step of `RecipeIndex`, of the
backfill only the inserts.  What the code does not promise is left open there too: the book that a
verified draft's evidence is filed in may not be the recipe's, and an entry shared by two recipes
that go at once may stay behind.


### `EmbeddingRows`

What the pipeline promises to those who read `embedding_vectors`: a row is waiting, complete or
failed, a complete row has a vector of its own model, and only a failed row is put back.  Jobs,
leases, the cache and the provider do not appear.  `EmbeddingPipeline` implements it
(`ImplementsRows`): `pending` and `processing` are both *waiting*, and of a vector only its model
is kept.  One statement of the pipeline may move many rows, so a step of `EmbeddingRows` moves
each row in its way.

### `BookOwnership`

| variable | in the code |
|---|---|
| `org`, `role` | `groups.organization_id`, `group_members.role` |
| `recipe` | of each trace its author, whom an unverified draft is about, and its book |
| `pending` | `invitations` neither answered nor expired |
| `request` | the request a user's client has in flight: authorised, not yet written |
| `leaving` | `deleteUserCascade` of an account: its phase, its list of recipes, the books it holds locked, and who takes which book |
| `gone` | accounts whose `users` row is deleted |
| `asked` | bound on requests |

`AskAdd` … `AskFile` are the authorisation of a request by a route (`routes/groups.ts`,
`routes/invitations.ts`), `AddMember`, `RemoveMember`, `Invite`, `MarkAccepted` and `JoinAccepted`,
`File` its write; `CloseInvitation`, `CreateBook` and `Resolve` are one statement.  An account
deletion is `AskDelete`, `HandOver` of the books they share, `CollectRecipes`, `DeleteRecipe` for each, and
the last transaction: `LockBooks`, `PlanTeardown`, `FindEmptyBooks`, then `Commit` or `RollBack`.
A membership write waits for a book the last transaction has locked; the filing of a recipe does
not, because it locks no row of the book that conflicts.

### `OrganizationAccounts`

| variable | in the code |
|---|---|
| `member`, `ownerOf` | `organization_members`, `organizations.owner_id` |
| `place`, `wide` | `groups.organization_id`, `groups.org_wide` |
| `row` | `group_members` with `via` |
| `tx` | open transactions: the rows they hold and what they have read |
| `begun` | bound on transactions |

`JoinBegin`/`JoinCommit` are `joinOrganizationInTx`, `SwitchBegin`/`SwitchCommit`
`setBookOrgWide`, `ImportBegin`/`ImportCommit` an import that creates a book, `ActBegin` with
`DisableCommit` and `RoleCommit` `actOnMember`, `RemoveBegin`/`RemoveCommit` `removeMember`;
`CreateOrganization`, `CreateBook` and `AddDirect` hold their locks for one statement.  A
transaction is open from its locks and reads to its commit; who waits for whom is in the guards,
and where two transactions wait for each other Postgres ends one (`DeadlockVictim`).  The rows, and
what the code computes from them (`FreeSeat`, `Home`, `MayAct`, `NextOwner` and the like), are in
**`AccountState`**.

**`SerialAccounts`** is the same requests without transactions: each reads, decides and writes in
one step.  `OrganizationAccounts` implements it (`ImplementsSerial`) with its commits as the steps;
the refinement mapping is the identity on the five tables.  A `Make` does not ask whether its
account is disabled, because an import does so only when it begins.  `MakeOrgWide`, `Add` and
their like need somebody who may manage the book: the route's check of the caller is one step with
the begin of the transaction in `OrganizationAccounts`, and rows are not locked by it.

### `OrganizationDomains`

| variable | in the code |
|---|---|
| `claim` | `organization_domains`: status, age of the token, of the last check, of the first failed one, auto-join |
| `dns` | what the TXT record holds: the current token, an old one, none |
| `checks` | checks between reading the claim and applying the answer |
| `job` | the daily run: due, checking, migrating, done, and the claims left |
| `runs` | migrations in progress and the accounts each has yet to try |
| `member`, `disabled`, `proven` | `organization_members`; `users.email_verified_at` |
| `errors` | bound on failed joins and lost runs |
| `shown`, `seen` | history: whether, and how long ago, the record held a token of this claim |

`AddDomain`, `DeleteDomain`, `Rotate`, `SwitchAutoJoin`, `CheckNow` are a manager's routes;
`Ask` and `Apply` the two halves of a check (DNS is asked without a lock); `JobStart`,
`JobChecked`, `JobNext` and `JobLost` the daily run and its crash; `MigrationReads`, `MigrateOne`,
`JoinFails` and `MigrationEnds` the migration of waiting accounts, one transaction each;
`ProofStep` a person who verifies the address; `Publish` and `Withdraw` the company's DNS;
`NextDay` the clock.  Times are ages in days that saturate.

### `DirectoryCheck`

| variable | in the code |
|---|---|
| `google` | is the account active in the company's directory |
| `domain` | is the domain claim current (`domainClaimCurrentAt`); free to change |
| `conn` | `organization_directory_connections`: ages of the connection, the last success, the warning, and whether a run of failures is open |
| `row` | the directory columns of `organization_members`: status, age of the check, the claim |
| `task` | requests that hold a check |
| `off` | history: how long the account has been switched off |

`Claim` is the one statement of `runCheck` that takes a due member; `ManagerAsks` is
`askDirectoryAboutActor`, on the way to disconnect or replace the connection; `Answer` is Google,
without a lock; `Answered` writes the member's row and `Recorded` the connection's, in two
statements; `HoldOver`, `SaveConnection`, `DeleteConnection`, `OperatorDeletes` and
`NewCredentialSays` are the manager's and the operator's way to the connection.  `Hour`,
`ClaimEnds` and `TaskDies` are time and crashes, `Suspend`, `Restore` and `DomainTurns` the world.

### `Credentials`

| variable | in the code |
|---|---|
| `now` | the time; the clock of a task shows it or up to `Skew` seconds more |
| `account` | of the user: has a password, `email_verified_at`, `sessions_valid_after` |
| `linked` | `user_identities` of the account, over the Google accounts that have its address |
| `sso` | `sso_login_requests`: where the callback that works on each row is, whom Google named, the handoff |
| `sessions` | the JWTs signed: date, how the person was proved, by which handoff |
| `doing` | what a request carries between its statements: a proved person whose session is not signed, a verification before its transaction, an open rotation |
| `code`, `bundle` | `oauth_authorization_codes` and the grant on its way there; `api_keys` rows of type `oauth` |
| `begun` | bound on sign-ins and verifications |
| `cuts`, `apart`, `dropped` | history: cut-offs so far, whether each is later than the one before, consents pending at one |

`Login` reads password and cut-off, `Sign` is `signInProved` or a refusal; `Callback`, `Resolve`,
`IssueHandoff` and `Exchange` are the Google sign-in, with the takeover of an address nobody had
proved; `VerifyRead` and `VerifyCommit` are `POST /auth/verify`, `Reset` is
`POST /auth/reset-password`; `GrantJudge`, `GrantMint`, `Redeem`, `RedeemedInVain` and
`MintBundle` lead from a consent to a connection, `RefreshConsume` and `RefreshEnds` rotate it,
`BundleEnds` ends it.  `CutOff` is `invalidateSessions`, part of every action that calls it.  A
session records how many cut-offs there had been when the person was *proved*, which is what its
date has to express.

## 4. What the runs check

| run | instance | distinct states | shows |
|---|---|---|---|
| `pipe_rows` | two rows of one content under two models, two job slots, two strategy checks, one fault, one recovery, one manual retry | 485 747 | `TypeOK`, `OneJobPerRow`, `CompleteIsFinalForText`, the refinement `ImplementsRows` |
| `pipe_image` | a text row and an image row of one rebuild model, so that batches hold two rows and are split; one fault | 919 245 | `CacheHoldsWhatItHashes`, `CachedOnlyIfWritten`, `NoRowStranded` |
| `pipe_live` | one row, three slots, one fault of any kind, one recovery, fair scheduling | 392 869 | `EveryRowSettles` |
| `idx_chain` | one recipe with two strategies, two strategy checks, two books, three chains, one crash | 360 019 | `TypeOK`, `NoOrphans`, `ActsWhereAuthorised` |
| `idx_live` | the same with one check, one evidence entry and a verifier, no crash, fair scheduling | 191 869 | `EveryTraceIndexed`, `EvidenceInItsBook`, `EvidencePruned`, the refinement `ImplementsRecipes` |
| `idx_gap` | `idx_live` with one crash | – | `EveryTraceIndexed` fails (§6) |
| `own_books` | three people and one book, two of whom delete their accounts, two requests | 1 055 442 | `TypeOK`, `LastOwnerLeavesNobody`, `TakesOnlyTheirs`, `GoneLeavesNothing`, `SharedBooksSurvive` |
| `org_join` | three people, a company of two seats with its default book and one more book, two transactions open at once, eight in all | 271 037 | `TypeOK`, `SeatsRespected`, `NoBookLeftBehind`, `OwnersAgree`, `OrgRowsFollow`, `OrgWideReachesEveryone`, the refinement `ImplementsSerial` |
| `dom_claims` | two organizations that claim one domain, one account, a request beside the daily run | 2 627 862 | `TypeOK`, `VerifiedByItsRecord`, `JoinsAreAuthorised` |
| `dom_daily` | one organization of one seat, two accounts, one error or lost run, fair days and jobs | 248 629 | `NobodyWaitsForever`, `FailingEnds` |
| `dir_check` | one manager, two requests at once, periods of one and two hours | 3 206 378 | `TypeOK`, `OneAskAtATime`, `OutWithinTheDay`, `RefusalHolds`, `OthersHadTheirTime` |
| `sign_in` | one account, two Google identities of which Google vouches for one, two handoffs, one consent with three bundles, two requests, two cut-offs, clocks one second apart and a margin of two | 853 581 | `TypeOK`, `CutOffDecides`, `EachUsedOnce` |

**Bounds.**  Each is named in its module.  *Pipeline*: two rows are the least that share a batch,
are split, or compete in the cache; two slots are the least with a sender and a receiver, or two
claimants, and the liveness run has a third so that a job waiting to send never fills the last
place.  pg-boss's queue has no limit, so a full set of slots is not a state of the program.  One
fault reaches every recovery path once; the automatic retry limit is 1 in the runs instead of its
real value, so that both sides of it are reached.  *Index*: three chains are one more than two
strategies need: the third is the duplicate a redelivered check inserts.  *Books*: two departing
people and one who stays are the least for a hand-over whose heir leaves too; two requests are the
least for an authorisation that two others' writes make stale.  *Organizations*: two seats and
three people are the least for a race for the last seat, eight transactions the least for a
company, two joins, a switch and a change of role in each order.  *Domains*: two organizations are
the least that contend for a domain; a day of grace and a day of a token's life reach both sides
of each limit, and `FreshDays` is two because a claim checked every day is never older than one.
*Directory*: with two hours for the day's stale limit and one for warning and hold, every order of
the three limits that the code's constants allow occurs; no request lasts two hours.
*Credentials*: two seconds of time with a skew of one and a margin of two give every order of a
date and a cut-off; two cut-offs are the least for one that cancels what followed the other.

**Deadlock** is checked where the system never rests (`dom_…`, `dir_check`).  The other cfgs say
`CHECK_DEADLOCK FALSE`: these systems rest when nobody asks for anything and every row is settled,
or when the bound on requests is spent.

**Symmetry** is used in safety runs only, over values no definition tells apart.

**Fairness.**  `FairSpec` of the pipeline: a handler pg-boss has started goes on; the sweep is a
cron schedule; rows age and cooldowns end with the clock.  `FairSpec` of the index: a started
handler and a started delete go on, and the sweep sends a check for every strategy it finds
missing.  `FairSpec` of the domains: days pass, the daily run goes on, its checks, those a day old
and its migrations end.  No request, operator, retry, person or fault is ever obliged to happen.

**Mutants.**  Every property is paired with a slip: an operator before the one it stands for,
marked `slip:` in the module, that is a plausible bug (a dropped guard, an off-by-one, a
`group_id` not rewritten, a lock not taken; where the code's comments name the bug they repair, as
F143 or F145, the slip is that bug).  With it in place TLC finds the property violated in the
same run.

## 5. What is proved

The theorems hold for every value of the constants that satisfies the module's one assumption: any
number of rows, models, jobs, recipes, books, people, organizations, requests and faults.

| theorem | states | how |
|---|---|---|
| `EmbeddingVectorProofs!RefinesRows` | `ImplementsRows` | initial states map to initial states, and each action of the pipeline moves each row by one of the moves of `EmbeddingRows`; needs `TypeOK` and what is known of the rows a handler holds |
| `EmbeddingPipelineProofs!TypeCorrect` | `TypeOK` | inductive as it stands; a lemma per group of actions |
| `EmbeddingPipelineProofs!OneJob` | `OneJobPerRow` | its two halves are inductive only together: a claim takes unclaimed rows, which are in nobody's hands by the second; a release puts back a job's own rows, which are in nobody else's by the first |
| `EmbeddingPipelineProofs!NoneStranded`, `TextStaysComplete` | `NoRowStranded`, `CompleteIsFinalForText` | from `Answered`, below, on top of the invariant of `OneJob` |
| `EmbeddingVectorProofs!OwnModel` | `VectorsOfOwnModel`, which `ImplementsRows` implies | from the same moves: a row gets a vector of its own model, from the cache by the key, from the provider by the guard of the row write |
| `EmbeddingVectorProofs!CacheIsExact`, `CachedIsWritten` | `CacheHoldsWhatItHashes`, `CachedOnlyIfWritten` | from `CacheSafe`: what a handler is about to cache is a vector of the hashed content, and some row has taken it; a row that has a vector is never without one again |
| `TraceIndexProofs!TypeCorrect`, `NoOrphanSources`, `FiledWithTheirTrace` | `TypeOK`, `NoOrphans`, `SourcesInTraceBook` | from `IndexInv`, below |
| `TraceIndexProofs!RecipesAreWhole` | `ImplementsRecipes` | a delete's commit, a move, a verification, a deposit, an import and the backfill's inserts each map to one action of `RecipeIndex`, all else to a stutter; from `IndexInv` and `RecipeInv`, below, and `EvidenceInv` where no entry is shared |
| `TraceIndexProofs!OnlyWhereAuthorised` | `ActsWhereAuthorised` | from `IndexInv` and `LockedAreAuthorised`: once a delete has the lock, what it was authorised for is still true, because a move needs the lock too |
| `TraceIndexProofs!PrunedWithLastLink`, `EvidenceFollows` | `EvidencePruned`, `EvidenceInItsBook` | from `EvidenceInv`, below, under `~MayShare`, the second also with one write book: without these the code does otherwise (section 6) |
| `TraceIndexProofs!LinkedStaysSearchable` | an entry is searchable, in some book, as long as a recipe is linked to it, shared or not | an invariant of `RecipeIndex`, where it is a few lines; `RecipesAreWhole` carries it over |
| `TraceIndexProofs!OnlyRedactionLeavesText` | `TextIsCurrent`, where no step drops evidence from a recipe that goes on to exist (`DropsNothing`) | with `ReadIsCurrent`: what a handler read is still the recipe's when it inserts, or the recipe is gone; that evidence only grows comes from `RecipesAreWhole` |
| `BookOwnershipProofs!OwnershipTypes`, `NothingIsLeft` | `TypeOK`, `GoneLeavesNothing` | from `OwnershipInv`, below |
| `BookOwnershipProofs!OwnerIsReplaced`, `BooksOfOthersSurvive` | `LastOwnerLeavesNobody`, `SharedBooksSurvive` | step by step from the same invariant; the commit of a deletion is the hard case: what it planned must still be right |
| `BookOwnershipProofs!OneDeletionReplacesOwners` | as `LastOwnerLeavesNobody`, of every book and not only of those the deletion holds, where accounts are deleted one at a time (`OneAtATime`) | with `OwnedAreLocked`: what the departing person owns after the locks is locked or their own new book, which blocks the commit or goes with it |
| `BookOwnershipProofs!OthersKeepTheirRecipes` | `TakesOnlyTheirs` | from `Listed`, under `~VerifyListed`: with it the code does otherwise (section 6) |
| `OrganizationAccountsProofs!NoSeatShared` | `SeatsRespected` | from `SeatInv`, below |
| `OrganizationAccountsProofs!TypeCorrect`, `JoinTakesEveryBook`, `OwnersOfDefaultBook`, `OrgRowsCorrect` | `TypeOK`, `NoBookLeftBehind`, `OwnersAgree`, `OrgRowsFollow` | from `BookInv`, below, on top of `SeatInv` |
| `OrganizationAccountsProofs!WideBooksReach` | `OrgWideReachesEveryone` | an action property, step by step from the same invariant: only a join, a creation and a switch bring a person and an org-wide book together |
| `OrganizationAccountsProofs!RequestsRunAlone` | `ImplementsSerial` | each commit maps to the request run alone, each begin to a stutter; from `ClaimInv`, below, on top of `SeatInv` and `BookInv` |
| `OrganizationDomainsProofs!TypeCorrect` | `TypeOK` | with it, that two organizations are never both verified |
| `OrganizationDomainsProofs!VerifiedByRecord` | `VerifiedByItsRecord` | with `ShownBefore`: an answer "found" on its way was found for a token of the claim it will be applied to |
| `OrganizationDomainsProofs!AuthorisedJoins` | `JoinsAreAuthorised` | with `SeenSince`: a claim that is not failing has been seen since its last check |
| `DirectoryCheckProofs!TypeCorrect` | `TypeOK` | with `Shape` and `WarnedSince`: a run of failures has its warning, none older than a success of this hour |
| `DirectoryCheckProofs!RefusedStay`, `OthersWereWarned` | `RefusalHolds`, `OthersHadTheirTime` | from the same invariant |
| `DirectoryCheckProofs!SwitchedOffAreOut` | `OutWithinTheDay` | with `TrueLately`: an answer "active" waits at most an hour for its record, so who is on record as active has been off for at most one hour more than the record is old |
| `DirectoryCheckProofs!OneAsk` | `OneAskAtATime` | with `Exclusive`: of the checks of a member under the present connection, one is fresh, and while it is, the member's claim is held |
| `CredentialsProofs!TypeCorrect` | `TypeOK` | with `Rotations`: a row whose refresh token is being rotated is live, and one request rotates it |
| `CredentialsProofs!CutOffsDecide` | `CutOffDecides` | with `Datings`, below, and `Lines`: a consent has no connection while its code is not over |
| `CredentialsProofs!UsedOnce` | `EachUsedOnce` | with `Lines` and `Handoffs`: nobody signs for a handoff before it is used, and then one request does or one session exists |

`Answered` says of each row in `processing` that some job has it `Ahead`: among what the job's phase
is still to handle, or has set aside for a later phase.  It needs the shape of a job (`Shaped`): a
batch is of one model, so the row write of the API tier, which asks for the batch's model, misses
only rows that are gone; what is left to the fallback are images; a text batch is refused before any
of its rows is written.  The last is why no complete row is failed without images.

`IndexInv` is `NoOrphans` and `SourcesInTraceBook` with what makes them inductive: `HoldsAll`, a
delete that is past its last statement holds every source of its trace, because the guarded insert
of the backfill waits for the lock; `DeletesExisting`, a delete is of a recipe that was there, so
a new recipe starts without one; `HandlerAims`, a handler in the middle of a chain is the only one
on it.

`RecipeInv` is what makes a delete's commit the delete of `RecipeIndex`: a delete past its last
statement holds only chains of its own recipe, so with `HoldsAll` exactly these, and the entries it
is about to prune still hang off nothing else (`HoldsItsOwn`: nobody links an entry that exists,
which is `LinkedAreBorn`); a recipe that is gone was deleted (`GoneByDelete`); a verifier's book is
one it writes in (`ReadersWrite`), a handler's strategy one there is (`HandlersHaveStrategy`).  The
mapping keeps of a chain only what search sees, so the proof first says what each step does to the
chains (`IndexAt`, `IndexAtNext`) and then that it is the abstract step.  `SourcesInTraceBook` is
proved as an invariant of its own, but no run lists it: `ImplementsRecipes` says more.

`EvidenceInv` says that an entry has one link, to a recipe that is there, and a home as long as it
has that link; and that a delete past its last statement still prunes all entries of its trace,
because whoever changes the links of a trace waits for the trace's lock.  `Filed` adds that the home
is the recipe's book.

`OwnershipInv` is the types and `GoneLeavesNothing` with what a deletion carries between its
statements.  Every book it will change or delete is held (`Held`), by no other deletion
(`HeldByOne`), and exists (`HeldExist`); memberships of held books do not change, since requests
wait for the book's row.  `PlanHolds` says that what it planned is still right: heirs and keepers
are accounts that are there, because they cannot commit their own deletion while their rows are
held (`OwnRowsFree`), and a held book of the departing person that has no heir has no other member.
`Listed` says whose a recipe on its list is, `InPhase` what belongs to which phase.  The run has one
book; the proof has any number, with books that go to an heir, a keeper and nobody in one commit.

`SeatInv` is the types of `member` and `ownerOf` with four facts of the open transactions: one of
them holds an organization's row (`OneHolder`), one joins a person (`OneJoin`), a company with a
member has an owner (`MembersOwned`), and a join or a re-enable that waits to commit still has its
free seat (`Ready`): the seat was counted under the organization's lock, and every other way to a
seat needs that lock.

`BookInv` is the three properties of books with what they rest on. `Aims` says that what a waiting
transaction has read is still so: a join has read all its person's own books and all the org-wide
ones (`JoinAims`, from the locks on the account and the organization); a book that an import brings
is not there yet and its company is (`ImportAims`); a switch to org-wide has read exactly the
members (`SwitchAims`); who is about to be removed from a default book is no owner of the company
(`RemoveAims`: a role change waits for the removal's lock on the book). `DefaultsPlaced`,
`WidesInCompanies`, `PlacesExist` and `NoRowsUnmade` say where books and rows can be.

`ClaimInv` says of every open transaction that what it was allowed by is still so, which is more
than that what it read is.  The manager who acts on a member may still do so (`ActAllowed`: roles
and disabled states of the company change under its row's lock, which the act holds); who switches
a book may still manage it (`SwitchReady`); a removal still leaves the book an owner (`RemoveReady`,
and with `RemoveAims` no org owner goes from the default book), because a role change beside it
rewrites none of the owner rows it has locked (`RoleBeside`) and a removal or a switch has its book
to itself (`OneOnBook`); an import begun in a company stays in it (`ImportHome`).  The commits disturb each
other's claims only through the rows of the book and the roles of the company, and each lemma shows
one lock that prevents it.

`Datings` says of a person proved and not yet signed in what `CutOffDecides` says of a session: the
clock had shown that second, the cut-off carried is the account's unless another has followed, and
then both lie before it.  A cut-off keeps it because it is dated `Margin` ahead of a clock, and
`Skew < Margin`; an ordinary step because only a cut-off removes an identity.

What only TLC checks: liveness and anything about fairness or ENABLED, which the prover does not
do, so `EveryRowSettles`, `EveryTraceIndexed` and the other liveness properties of section 4.  Every
invariant and action property of the passing runs has a theorem.

Three theorems state what no run lists; TLC shows them from an MC module that repeats their
definitions, since the proof modules are not for TLC.  `LinkedIsSearchable` is an `INVARIANT` with
`idx_live.cfg`, `SPECIFICATION Spec`, two traces, `MayShare = TRUE` and, so that it ends soon, one
strategy, `Src = {k1, k2}`, no deposit strategies and no worker.  `TextIsCurrent` is an `INVARIANT`
with `idx_live.cfg` and the specification `Init /\ [][Next /\ DropsNothing]_vars`.
`OwnersReplaced` is a `PROPERTY` with `own_books.cfg` and `CONSTRAINT OneAtATime`; without the
constraint TLC shows the two deletions of section 6.

## 6. Where the code and its documents differ

**A half-inserted strategy is never repaired** (`idx_gap`).
`docs/adr/0002-postgres-pgvector-pg-boss.md:78` says the next sweep finds the gap; discovery looks
at the strategy row only, and that row is committed before its chunk and vector.

The models hold more of these than there are runs.  Each is reproduced by changing a cfg as told.

- *A complete row can become failed.*  `docs/architecture/admin-dashboards.md:110` has
  `complete --> [*]`; `markFailed` has no status guard, and an error in the cache write after the
  row write takes the branch of a refused call.  `pipe_image.cfg` with `RetryLimit = 1`,
  `MaxRetries = 1` and `PROPERTY CompleteIsFinal`.
- *Redacted evidence stays in the recipe's own vectors*, against `docs/design-thinking.md:420`.
  `idx_live.cfg` with `SPECIFICATION Spec`; `Strategy`, `WithEvidence` and `DepositStrategies` all
  `{"full_recipe_context"}`, `WriteBooks = {}`, `Src = {k1, k2}`, `Worker = {}` and
  `INVARIANT TextIsCurrent`.
- *A verified draft's evidence may be filed in a book the draft has left*
  (`draft-verify.service.ts:183`, against the header of `trace-move.service.ts`).  The same with
  `WriteBooks = {b1, b2}` and `INVARIANT EvidenceInItsBook`.
- *A deletion takes a recipe that is no longer the departing person's*: its list is read once
  (`user-delete.service.ts:150`), and a draft on it may be resolved before its turn
  (`:218-219`).  `own_books.cfg` with `Departing = {ann}`, `VerifyListed = TRUE` and `TakesOnlyTheirs`.
- *A member is switched off by the old directory.*  `directory-check.ts:389-390` says that
  replacing the connection clears every status, "so nobody stays switched off by the old one"; a
  check in flight across the replacement writes the old directory's answer by the member's id
  afterwards.  `dir_check.cfg` with `PROPERTY NobodyOffByTheOld`.

Behaviours met while modelling that no run states:

- `releaseToPending` also takes a `failed` row back to `pending`, when the sweep has failed it
  while its job was alive.
- A delete can fail on its own foreign keys when a backfill that had inserted its source earlier
  adds the row below (`DeleteLevel`); it is rolled back whole and can be repeated.
- Two deliveries of one strategy check can give a recipe two sources of one strategy.
- An imported file can link one entry to two recipes.  With `MayShare = TRUE` and two traces,
  two moves leave the entry in a book neither recipe is in (`EvidenceInItsBook`), and a delete and
  a redacting move that run at once leave it behind for good (`EvidencePruned`).
- Two deletions at once: a book handed to an account whose last transaction already holds its
  locks can lose its last owner, or go with another member in it.  A book made during that
  transaction, and a recipe filed between its snapshot and its commit, are not seen by it either.
  `LastOwnerLeavesNobody` and `SharedBooksSurvive` therefore speak of the books the deletion holds
  locked.
- A person who is accepting an invitation joins the book although the inviter has just been
  removed; an invitation authorised before its sender's removal is inserted after it.
- `setBookOrgWide` to private, of a book that is still personal, locks the personal organization's
  row; if the book moves into a company and is made org-wide between its two reads, somebody
  joining at that moment can keep an `org` row on a private book (`organizations.ts:553-568`).
- A domain check carries the token it read before the lookup.  If the claim's token is replaced
  meanwhile, "found" for the old one verifies the claim, though the new token was never published,
  and though it may be applied after the claim has lapsed.
- A disconnect that the hold let through, or that an "active" answer allowed, deletes whatever
  connection is there by then.
- A consent is judged (`POST /oauth/authorize/grant`) and its code inserted in two statements, and a
  code is redeemed and its bundle minted in two more.  `invalidateSessions` deletes the codes there
  are, so a reset in either gap is followed by a connected app it did not count
  (`session-state.ts:130-131`).  `CutOffDecides` therefore speaks of codes pending at the cut-off.
- A spent bundle stays listed and counted while its refresh token would have lived
  (`credentialsStillRunning`), and to end it does not end the connection, which has a newer row
  (`api-key.service.ts:217-219`).
- Two cut-offs in one second, or the second by a task whose clock is behind, are not ordered: a
  session dated at the first one survives the second.  `CutOffDecides` claims refusal only when
  every cut-off is later than the one before (`apart`).

## 7. What is not modelled

The wording, layout and parsing of requests and answers; the providers' protocols; the numbers in
vectors; the browser, the MCP proxy and the clients, which are most of the repository's lines and
keep no state of the system.  References and `reference_source_cache` follow their evidence and
are left out of `TraceIndex`.  A provider's cooldown is only its outcome in the pipeline.

In the modules above: `OrganizationDomains` has one domain, and not the record of a failed
migration (the `migration_failed` audit row), which a run begun earlier can clear; its checks run in any
order, where the daily run makes them one after the other.  `DirectoryCheck` has members who are
all on the domain, a server that has a checker, and managers who stay managers.  `Credentials` has
one account, and neither the life of a reset token (the mailbox's owner can always ask for one)
nor a change of password; `Skew < Margin` is its assumption, as it is the code's, whose margin is
five seconds; and it has no fairness: nobody is obliged to sign in.

Every other part of the inventory is listed in `PROJECT.json` with the reason, and the plan above
says which come next.
