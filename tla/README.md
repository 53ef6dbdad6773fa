# Deliberate in TLA+

Deliberate puts people in the loop of LangGraph agents. An agent's gate submits an
interrupt to a server; the server's policies say who is to be asked; approvers
answer through a page or the API; a worker times out and escalates what nobody
answers; a ledger records, hash-chained and signed, what was decided. This directory holds
specifications of the parts whose correctness depends on several processes at once,
the TLC configurations that check them, and TLAPS proofs of their safety properties.
Paths below are relative to the repository root; `S/` stands for
`server/src/deliberate_server/` and `sdk/` for `sdk/src/deliberate/`.

Run `tlc -config MCApprovals_safety.cfg MCApprovals` for one of the runs (the cfg of a
run begins with the name of its module), and `tlapm ApprovalsProofs.tla` for the proofs.

## 1. The system

### Processes and what they share

Three kinds of process share one PostgreSQL database at its default isolation,
READ COMMITTED, through `S/db/session.py`:

* the **server** (FastAPI, any number of processes): each handler opens its own
  transactions, and between two `await`s any other handler may run;
* the **timeout worker** (`S/worker.py`, one process by the compose file, nothing
  prevents two): polls every 15 s and handles overdue rows one by one, by policies
  and approvers that it read from the YAML files at its start;
* the **agents** (`sdk/`): talk HTTP to the server only.

Nothing else is shared, except that in the server process the policy engine and the
approver directory are module-level caches of database tables. There are no queues
and no callbacks; agents poll.

### Components

| Component | State | Operations | Hard behaviour | What makes it correct |
|---|---|---|---|---|
| Approval life cycle (`S/api/routes/interrupts.py`, `approvals.py`) | rows of `interrupts`, `approvals`, `decisions` | submit, auto-approve, decide, status, resume-ack | decide checks a row it does not lock; flush, matching of siblings and commit interleave with other transactions | a pending row is untouched; rows follow a life cycle; any_of asks once; no lock cycles |
| Timeout worker (`S/worker.py`) | a batch of snapshots in memory | poll, time out, escalate, skip | stale snapshots, two workers, errors and restarts, depth counted outside the lock | acts once on a row; chains bounded; every group settles |
| Ledger, writing (three handlers above, `S/auth.py`) | `ledger_entries`: `prev_hash`, `content_hash`, `created_at` | append | the last entry is looked up with nothing to keep others from appending | forks only where writers overlap; entry and row agree |
| Ledger, reading (`S/api/routes/ledger.py`) | none | query by page, export | pages cut while entries commit | a client that pages sees every entry once |
| Group status (`S/api/routes/approval_groups.py`) | none | aggregate any_of / all_of | mixes of answers, escalated rows, rows with two decisions | the reported answer is somebody's, overrules nobody, stays |
| Gate and client (`sdk/decorator.py`, `client.py`) | where the gate is; the row or group it polls | submit, poll, give up, acknowledge | escalation under a polling gate, lost responses, late second decisions | resumes with the group's answer; ends |
| Policy engine, evaluator, parser (`S/policy/`) | list of loaded policies | load, evaluate, resolve plan | reloads that overtake each other | the copy in memory is the table's; first matching rule |
| Policy administration (`S/api/routes/policies.py`) | `policies`, `policy_versions` | create, update, soft delete, history | lost updates, delete racing update, trimming | true and complete history; deleted stays deleted |
| Approver directory (`S/policy/directory.py`, `S/api/routes/approvers_admin.py`) | `approvers`, `approver_groups` and a cache | create, update, delete, resolve | members deactivated while groups name them | what a policy names resolves |
| API keys (`S/api/deps.py`, `auth.py`, `S/api/routes/api_keys.py`, `auth.py`) | `api_keys` | create, revoke, authenticate | revocation racing use and creation; waits in a circle | nobody is locked out; calls end; a used key looks used |
| Start-up (`S/seeding.py`, `S/main.py`) | tables when empty | seed, bootstrap the admin key | servers that start at once | one seed, one bootstrap key, no lock-out |
| Notifications (`S/notify/`) | none | fan out, retry | partial failure, repeated delivery | each approver is told, a failing channel stops no other |
| Telemetry, metrics | counters | increment | none | read by no other part |
| MCP server (`mcp/`), approver UI (`ui/`) | none | translate to the API | none | stateless clients |

`PROJECT.json` lists the same components with their status, and under `hazards` what
in this code can go wrong in ways a test hardly reaches, line by line.

## 2. The modules

| Module | Models | Uses |
|---|---|---|
| `Approvals` | life cycle of rows: submit, decide, worker | INSTANCE `Handover` |
| `Handover` | abstract: what the rows promise together | |
| `ApprovalGate` | the SDK's gate, the status endpoints, resume-ack | EXTENDS `Approvals`, INSTANCE `GatePromise` |
| `GatePromise` | abstract: what a gate promises to the graph it guards | |
| `LedgerChain` | `prev_hash` and `created_at` of ledger entries | |
| `LedgerReader` | a client of the ledger's pages and exports | EXTENDS `LedgerChain` |
| `PolicyStore` | a policy's row, its history, and the server's copy of it | INSTANCE `PolicyRegister` |
| `PolicyRegister` | abstract: a register of versions with an audit trail | |
| `Directory` | approvers, groups, and the server's copy of them | |
| `Routing` | whom an interrupt asks, by the copies of policies and directory | EXTENDS `Directory` |
| `Escalation` | whom the worker hands a row to, by the files it has loaded | EXTENDS `Routing`, INSTANCEs it for the worker's copy |
| `Evaluator` | the evaluator of policy conditions | |
| `Expressions` | the parser of policy expressions | EXTENDS `Evaluator` |
| `Notify` | the notifications of one plan | |
| `ApiKeys` | authentication, creation and revocation of keys, the bootstrap key | |
| `MC...` | instances for TLC | each EXTENDS its module |
| `ApprovalsProofs`, `ApprovalGateProofs`, `PolicyStoreProofs`, `NotifyProofs`, `ApiKeysProofs` | theorems | EXTEND the module and TLAPS |
| `LedgerChainProofs` | theorems about `LedgerChain` and `LedgerReader` | EXTENDS `LedgerReader` and TLAPS |
| `RoutingProofs` | theorems about `Directory`, `Routing` and `Escalation` | EXTENDS `Escalation` and TLAPS |
| `ExpressionsProofs` | theorems about `Expressions` and `Evaluator` | EXTENDS `Expressions` and TLAPS |

Definitions named `Faulty...` are not part of any specification. Each is the form a
plausible bug would give to the definition below it, kept so that each property can be shown to
notice one. Of the type invariants only `EscalationTypeOK`, of which `RoutingTypeOK` is part, is checked by a run; the others (`TypeOK` as part of
`GateTypeOK`, `ReaderTypeOK`, `StoreTypeOK`, `NotifyTypeOK`, `KeysTypeOK`) are proved, and in no run.

### Approvals

The variables are the committed columns `status`, `group`, `mode`, `escalatedTo`, the
committed decisions (`decision[r]`: the row that call `r` decided), the number of ledger
entries of each kind about each row (`ledger`), and what the processes hold in
memory: for a decide call how far it is (`phase`), the row it read (`target`) and the siblings
it matched (`rivals`); for a worker the rest of its batch, the row it is at (`current`) and what its
policy told it (`plan`).

* **Submit.** `RequestHuman` is `_handle_request_human`: one commit creates one shared row for
  any_of, whatever the number of approvers, or one row per approver for all_of.
  `AutoApprove` writes a ledger entry and no row.
* **Decide** is a transaction, cut where another process can come between:
  `DecideRead` (`session.get`, which takes no lock, and the check of the status it found),
  `DecideFlush` (the first query after the assignment of the status flushes an UPDATE by primary
  key: it waits for the row and then holds it), `DecideMatch` (the SELECT of the pending siblings,
  any_of only), `DecideCommit`, or `DecideAbort` at any point. The UPDATE has no
  condition on the status, so it overwrites what it waited for. What is flushed and not
  committed is in no database variable: nobody else sees it at READ COMMITTED.
* **Worker.** `Poll` takes the snapshot; `Evaluate` takes one row of it and decides outside any
  transaction whether to escalate, with the policy as a free choice and the depth
  of the chain as committed at that time; `TimeOut`, `Escalate` and `Skip` are the
  transaction under `SELECT ... FOR UPDATE`, one step each because
  nothing another process does to the row can come between; `WorkerError` is the
  exception that the loop logs, `WorkerCrash` a restart that forgets the batch.
* **Time** is `Expire(a)`: `timeout_at` passes. No action depends on how late it is.

`Handover` is what this amounts to: questions are asked, may be handed over up to `MaxDepth`
times, are closed, and never open again. The mapping (at the end of `Approvals`) takes the pending rows
for the open questions, the other existing rows for the closed ones, and the number of rows above a row (`Depth`) for how often it was handed over. A decide that overwrites a
worker's outcome, or a skipped row, is a stutter there.

### ApprovalGate

Adds the answer of each decision, and per group where the gate is (`gate`), the row id it was
given (`first`), the answer it got (`outcome`), and the decisions whose ledger entry was
acknowledged (`acked`). An any_of gate polls the row (`RowAnswers`, `PollInvalid`,
`RowReadFails`), an all_of gate the group (`GroupAnswers`). Every way out of `wrapper` in
`sdk/decorator.py` is a value of `gate`. The status endpoints compute sets of
possible answers where the code's result depends on an order the database does not fix (rows
of equal `created_at`, the last of two decisions of one row). The two queries of an endpoint are one step; the
module's header says why that loses nothing.

`GatePromise` is what a gate promises to the graph it guards: it opens with an answer that somebody it asked has given, or if it need
not ask anybody; for no other reason, never with another answer later, and never after it has raised. The mapping takes every end of `wrapper` that raises for
one, the requests that wrote a row for the questions that were asked, and for the answers of a gate those of all committed decisions of its rows. Polls,
timeouts, hand-overs, aborted transactions and acknowledgements are stutters there, or end a gate.

### LedgerChain

One writer per entry: the decide endpoint and auto-approval begin a transaction and then look for
the last entry, the worker looks in a session of its own and then begins. `created_at` is
`NOW()`, fixed when the transaction begins. `place` and `beside` are history
variables: the order of commits, and which writers were at work at the same time.
Hashing and signing do not appear: the content of an entry holds its uuid, so its hash stands for it.

### LedgerReader

A client beside those writers: it follows the `next_cursor` of `GET /ledger` from page to page (`QueryLedger`), or asks for an
`Export`. A page is the newest `Limit` entries by `(created_at, id)` that the filters and the cursor let through, and
`HasNext` is the one row more that the code fetches. The cursor's condition is built inside a `try` whose `except` drops it;
whether the installed SQLAlchemy accepts the text `:cts::timestamptz` decides which, so `cursorApplies` is a choice made once
in `Init`. `present` is a history variable: what was committed when the client began.

### PolicyStore

One policy name: its row in `policies` (`row`), its rows in `policy_versions` (`history`), the definition that the server
process routes by (`cache`), and how far each call to `POST`, `PUT` or `DELETE /policies` is. A call goes through `Authenticate`, `Read` (or
`Refuse`: 404, 409), `Commit` (`Create`, `Update` with its snapshot and trim, or `Delete`), and then, in a session of its own,
the reload: `Query` and `Swap`, between which `load_from_db` awaits. `Boot` is the part of `lifespan` that seeds and loads; nothing is
served before it ends. `Stop` loses the copy and whatever was in progress; `Fail` is any exception.

Two locks matter. The row of the policy is locked by the UPDATE until the commit, which makes those two one step. The row of
the API key is locked from `authenticate_api_key`, which writes `last_used_at` in the caller's transaction, so that
calls with one key take turns (`KeyFree`); calls with different keys do not. A definition is the call that sent it; whether the engine accepts it
(`Loadable`) is a property of the definition, which the endpoints do not check. `ever`, `overtaken` and `stale` are
history variables: what the row was, which reloads ran while another call committed, and whether the last reload was one of those or failed.

`PolicyRegister` is the table and its history without keys, transactions, the copy and restarts: a change replaces some version the policy had by a
definition it never had, and leaves the replaced one in the trail. `ImplementsRegister` holds for any keys; that the version replaced is
one the policy *had*, not the one it has, is what two overlapping updates make of it. `UpdatesInTurn` is the stronger promise of one key:
each change replaces the version that is there, and the trail has the last `Depth` of those before.

### Directory and Routing

`Directory` has the tables `approvers` and `approver_groups` as functions from ids to a value, `Absent` or `Deleted`; the copy that
`ApproverDirectory` keeps; and per call of the six endpoints that change something how far it is: `Authenticate` (with the
key's row lock, as in `PolicyStore`), `Read` or `Refuse`, `Validate` (the SELECT of `_validate_members`, which locks nothing),
`Commit`, then the reload, whose queries for approvers and for groups are two steps (`QueryApprovers`, `QueryGroups`) and whose
assignment (`Swap`) is a third. `Boot` reads the file, seeds and loads. An UPDATE writes only what differs from what was read, and never
`is_active`. `overtaken` and `stale` record whether a reload ran while another call committed, or failed; `had` every membership a group had.

`Routing` adds the submission of interrupts. `Evaluate` is `PolicyEngine.evaluate` with `_build_plan`: one step, since it has no
`await`. It meets any of the lists of policies the server may have loaded (`PolicySets`; `PolicyStore` has their changes).
`RulesFor` is a set, because the policies are loaded without ORDER BY: any policy with a matching rule can be the first.
`Resolve` looks for an approver and then for a group of the id; an id or a member that is unknown raises (`RefuseInterrupt`); no matching rule
falls back to the default approver if there is one (`FallBack`). `Ask` is the commit of the rows in a later
transaction. `Administer` is any step of `Directory` in between.

### Escalation

The worker is another process, with an engine and a directory of its own. `WorkerStart` is `init_policy_system`, which fills them from
the YAML files; either load may raise, which the worker survives with an empty list and the outcome "fail" for every row.
Nothing reloads them, and nothing tells the worker of a change to the tables; only `WorkerStop` forgets them. `Escalate` is
what may become of a row that nobody answers: the worker evaluates the interrupt again, by the first of its policies, in the order of the file
names, that has a matching rule (`RuleOfFiles`), resolves whom it asks, and then `escalate_to` (`Escalates`, `Targets`). The row's status,
its depth, the transaction, and rows that fail by timeout are in `Approvals`. `Worker` and `Loaded` are `Routing` with the worker's copy, and
with what the file holds, in place of the server's. `heir` is whom a row was handed to last; `Route` is any step of the server.

### Expressions

The one sequential component: `tokens` grows token by token and `parsed` is what the parser makes of it. Each method of the recursive
descent is an operator that takes a position and returns the nodes it made and the position it has come to. The methods call each other
through `call`, one function from method and position to results, which `Calls` closes recursively; the two `while` loops are functions from the
number of turns (`Turns`). Of the loops and of the operators that do not chain one turn is the same, `Optional`. The syntax tree is its nodes in
the order in which they are made, operands before their operator, an operator saying how many nodes its right operand has. Against it stands `Derive`,
the set of all trees that the grammar in the parser's docstring has for a sequence of tokens, span by span (`Rule`, `Trees`);
`ParserReadsGrammar` also says that what is returned is a tree (`ParsesToTree`). `EndsOperand` and `Alternates` are no part of the
program: they only choose which sequences of tokens are tried.

`Evaluator` values the nodes, operands first. It follows Python where the code relies on it: what is true, what has an order, that a bool is a
number, that a `TypeError` is caught and means false. `==` and `<` of two values are constants (`Same`, `Less`), which `MCExpressions` defines as
Python does, lists and dictionaries among the values.

### Notify

One `dispatch`: a task per approver and channel, a sender per destination of the task (a channel has one, `webhook` all active
webhooks). A sender sends, is answered, retries after a 5xx, a timeout or a lost connection and not after a 4xx, up to `Tries` times. `slack.py` has no loop of its own, but builds its `AsyncWebClient`
(`S/notify/slack.py:40`) without `retry_handlers`: slack_sdk, from the version that `pyproject.toml` asks for, then repeats a request once whose connection broke, so
that Slack too can process a message twice. A timeout of Slack's client is no such error and ends the `send` (`Raise`). The network and the receivers are
external: a failed attempt may have been processed, one given up may arrive later (`late`, `Arrive`). `Raise` is the exception that a
`send` does not expect, which takes the other webhooks of the task with it. `Record` inserts the row of `notification_attempts` or fails to;
`Finish` is the end of `gather` and the answer of `POST /interrupts`, unless the client gave up (`GiveUp`) or the server stopped (`Crash`).

### ApiKeys

The rows of `api_keys` (`scopes`, `revoked`, `lastUsed`), the servers' start (`BootLook`, `BootEnds`: looking for a key and making one are
two statements) and calls. Authentication is two steps: `Select` (or `Refuse`) and `Touch`, the UPDATE of `last_used_at` by id, which waits
for the row and then holds it. What follows depends on the endpoint: `AnswerUse` closes a session that only read, and rolls back;
`CommitWrite`, `Create` and `Revoke` commit. `Revoke` waits for whoever holds the row it revokes, so that transactions can wait in
a circle; `Deadlock` is PostgreSQL ending one of them. `slipped` (calls whose key was revoked between the two statements), `selfRevoked`,
`answered` and `since` (what was done to keys since a starting server looked) are history variables.

## 3. What the runs check

| Run | Instance | Checks |
|---|---|---|
| `approvals_safety` | 4 rows, 1 group, 2 decide calls, 2 workers, depth 2 | `PendingIsUntouched`, `OnePendingPerAnyOf`, `WorkerActsOnce`, `EscalationBounded`, `LedgerExplains`, `NoLockCycle`, `Lifecycle`, and the refinement `ImplementsHandover` |
| `gate_answers` | 3 rows, 2 calls, 1 worker, amounts 1 and 2 | `AnswerStands`, `NobodyIsOverruled`, `LeastAmountWins`, `AckMatchesAnswer`, `LateIsNeverApproved`, and the refinement `ImplementsPromise` |
| `gate_ends` | 4 rows, 1 call, 1 worker, depth 1, with fairness | `GroupSettles`, `AnyOfGateEnds` |
| `ledger_pages` | 2 handlers' entries and a worker's, pages of 1, two content filters, two dates | `ForksAreOverlaps`, `WorkerLinksToItsPast`, `LastPageIsComplete`, `ExportIsAChain` |
| `policy_versions` | 3 calls, one with a definition the engine skips; 2 keys; history of 2 | `SnapshotsAreTrue`, `HistoryKeepsTheLast`, `CacheIsRow`, the refinement `ImplementsRegister`, and `UpdatesInTurn` |
| `routing_and_escalation` | 2 approvers, 2 groups (one with an approver's id), 2 calls, 1 key, 2 interrupts of which one is submitted, 2 policies in the files that can both decide; the server has both, in any order, or the second | `EscalationTypeOK`, `CopyIsTable`, `AsksWholeGroups`, `GroupsGetActiveMembers`, `RoutesByTheTable`, `HandsOverAsSeeded`, `HandsOverInFileOrder` |
| `expressions` | up to 7 tokens | `ParserReadsGrammar`, `MissingOnlyHides` |
| `notify` | 1 approver; 2 webhooks, Slack, and e-mail that is not configured; 2 attempts; with fairness | `SuccessMeansReceived`, `CopiesAreBounded`, `DispatchEnds` |
| `keys_calls` | 3 rows, 2 calls, 2 servers, with fairness | `SomebodyIsLeft`, `BootActsOnItsLook`, `CallsEnd` |

Three more runs each check one statement of the repository that the code does not keep; TLC's
counterexample is the evidence (`findings` in `PROJECT.json` quotes the line):

| Run | Statement | What happens |
|---|---|---|
| `approvals_double_decide` | a second decide returns 409, no duplicate rows (`server/tests/integration/test_validation.py:256`) | true when the calls follow each other; two that overlap both commit |
| `gate_backup` | auto-escalate to the backup or fail gracefully (`README.md:107`) | the gate polls the escalated row and raises a validation error |
| `keys_idle` | use `last_used_at` to confirm a key is idle (`docs/security.md:210`) | requests of agents, and all reads, roll its update back: a key in daily use has none |

`LateIsNeverApproved` is the same finding for all_of, where the code keeps no promise of its own: a row that the worker timed out or escalated, and that no
decide transaction is at, is never decided any more, while the status of the group waits for all its rows. Whatever the
row's successor and the other approvers answer, the group reports nothing but a rejection, and the gate runs into its own timeout.

`approvals_double_decide` has its cause in the read at `S/api/routes/approvals.py:186` without `with_for_update`. The same read lets a
decide overwrite what the worker made of the row meanwhile, although the worker's lock is there to serialise against decide
(`S/worker.py:84`), and lets an escalated row that is decided late change the answer of an any_of group (first decision wins,
`S/api/routes/approval_groups.py:4`). The safety properties above say what remains true in spite of it: a pending
row is untouched, a booked decision is only ever replaced by another answer, the ledger explains every row.

Four more statements are not kept, for reasons that show in the definitions and need no run. `docs/security.md:225` says
that `prev_hash` is that of the immediately preceding entry: two writers that look before either has committed name the same
predecessor (`Link` and `Commit` of `LedgerChain`; `ForksAreOverlaps` says where the chain can fork). `docs/quickstart.md:342` says that
all approvers must approve: `_aggregate_decisions` falls back to the first answer of a mix, so an `approve` next to an `escalate` may be
reported as `approve` (`Aggregate`). `docs/rbac.md:159` says that `ADMIN_BOOTSTRAP_KEY` is verified from the environment
on each request: authentication knows the table only (`LetsIn`), and the start makes a random key instead (`Bootstrap`). `docs/migration-guide.md:13` says that
approvers are managed by the API and YAML is seed-only, and its next line the same of policies: the worker fills its engine and its directory from the YAML files at each start
and from nothing else (`WorkerStart` of `Escalation`), so it goes on escalating to an approver who was deleted, at an address that was
changed, by a policy that was replaced.

Several properties carry a condition, which is part of their statement, and fail without it.

The first are `VersionsCountUp` and `CacheIsRow` of `PolicyStore`. With two
keys, two updates may read the same version: one of them is lost, from the table and from the history. When
a call commits between the query and the assignment of another's reload, that reload may assign last, and a deleted policy stays in
force until the next one; `CacheIsRow` excuses that case and a failed reload, and no other overlap of calls. Nor does `create_policy` write a snapshot, whatever `docs/migration-guide.md:156` says of each
create and update; the history begins with the first update.

`CopyIsTable` and `RoutesByTheTable` exclude copies whose reload was overtaken by another commit, or failed: such a copy may hold approvers and
groups of two moments until the next reload. `AsksWholeGroups` has no such condition. `GroupsGetActiveMembers` needs one
API key, and says nothing of members who are deleted later: they stay, and the group cannot be resolved until it is changed. `HandsOverAsSeeded` holds whatever has
become of the tables: the heir is whom the files name, at the address they give, and so whom the tables name where they still say the same of the reference and of that
approver. An administrator's change of either has no effect on escalation. `HandsOverInFileOrder` needs the server's policies to be among those of the files. If two of these have a
rule for an interrupt, the server asks by whichever its query returned first, and the worker escalates by the first file: the rule that hands a row over is the one that
asked it or one of an earlier file, never of a later. `ExportIsAChain` is about entries that were written while nobody else wrote, and `BootActsOnItsLook` excuses a
server for a key that was revoked, or made, between its look and its insert: servers that start at once leave a key each. `MissingOnlyHides` is
about conditions without `not`, since `not` of a false comparison is true. `SomebodyIsLeft` excludes keys that revoke
themselves and calls that slipped: two administrators, each past the SELECT of its authentication, can revoke each other, and the
next start makes a new key only if no key may change policies either. What notifications promise is bounded by a stop: what a
server had not sent is never sent.

### Bounds, and why they are enough

* Ids are never reused, so the number of rows bounds how much can be escalated. Three rows hold an
  all_of group of two with one escalation, or an any_of chain of three; four with depth 2 also a chain that
  reaches the limit and a row to escalate to beyond it. Where ids run out an escalation cannot happen, and the liveness runs therefore have room for every
  escalation that `MaxDepth` allows (2 rows x depth 1 = 4 ids).
* One group: no action or property relates rows of two groups, except by the ids they may not share.
* Two decide calls and two workers: every property is about a row and at most two processes
  that touch it. That a third brings nothing new is what the proofs show, for the properties that are proved.
* `MaxApprovers` 2 is the smallest all_of group with a disagreement.
* Amounts 1 and 2, and none: the least, a greater one, and an answer that has no number.
  `gate_ends` has no amounts: an amount never decides whether a gate ends.
* `LedgerChain`: each commit advances the clock, since a commit takes time; `MaxClock` bounds the
  ticks in between, so that begins at equal and at different times both occur.
* `PolicyStore`: with a history of 2 instead of 50, seeding and two updates already have something to trim, and
  two of the three entries have version 1. Three calls are a change, another that overlaps it, and a third that shows what
  became of the two; two keys, because what one key guarantees is lost with the second. One server process: a
  second would have a copy that nobody reloads, and no property is stated of it.
* `LedgerReader`: with pages of one entry, three entries make three pages, and entries can come in before, at and behind the cursor.
* `Routing` and `Escalation`: two calls are a change and one that overlaps its reload; one group has the id of an approver, so that what an id means
  changes with the tables. With one key only the reloads overlap; that two keys bring nothing new is what the proofs show, for all properties of
  this run. One interrupt is submitted: what it asks depends on no other. It is of one of two kinds. For one the first
  policy has a rule that asks all of a group and hides a second rule, and the second policy asks and escalates to somebody else; for the other the first rule does
  not hold, and one of the two policies decides, to ask an approver or nobody. The
  server may have either policy first, or have lost the first one.
* `Expressions`: seven tokens hold two operators of any two levels of precedence, negated or in parentheses, and three operands. What is wrong is tried
  as the last token only: an error does not depend on what follows it, since the parser reads from left to right. The proofs have no such bounds.
* `Notify`: webhooks and e-mail are tried three times by the code and twice in this instance: a first attempt, and a retry that may overtake it. Slack's two are the code's. Two webhooks are needed for one to fail alone. One
  approver: tasks share nothing but the end of the dispatch.
* `ApiKeys`: two servers that start at once make two administrators' keys, and two calls revoke each other's; the third row is one that
  a call creates, or a later start. When all ids are used up a call cannot
  create, which `CallsEnd` excludes.
* `CHECK_DEADLOCK FALSE` everywhere: each instance stops when its calls and ids are used up.
* Symmetry of ids is used in the runs of safety properties only; not of rows where an order matters.

### Fairness

`Fairness` in `Approvals` says: clocks run; an open transaction goes on to its end; the worker
polls (APScheduler fires every `worker_poll_interval_seconds`), and gets, time and again, to handle a row without an
exception or a restart in between (strong fairness: errors and crashes interrupt it any number of
times, but not always at the same point for ever). That holds if whoever operates the
system restarts the worker: the compose file has no restart policy, so the liveness
results are about a worker that somebody keeps running, and about errors that pass. Nobody is assumed
to decide, and no lock is assumed to be free. `GateFairness` adds that a waiting gate goes on polling; it assumes neither that
responses arrive (`Disconnect` may end any wait) nor that the gate's own timeout ever comes.

In `Notify` every attempt ends, because `WEBHOOK_TIMEOUT`, `SMTP_TIMEOUT` and the timeout of Slack's client are finite, and so does the backoff;
`asyncio.gather` runs every task. The timeout that `httpx` is given bounds how long nothing arrives, not how long an answer takes: `DispatchEnds` also assumes that no receiver
sends its answer bit by bit for ever. Nothing else is assumed of what receivers answer, or of requests that were given up. In `ApiKeys` statements end,
and PostgreSQL looks for deadlocks after `deadlock_timeout`; weak fairness is enough because calls are finite in number, so that a row is not
taken from a waiting call for ever.

## 4. What is proved

All theorems hold for every value of the constants, under the named assumptions of the
modules: null values are not ids, `MaxDepth \in 0..21` (`_count_escalation_depth` never counts
further, so a larger setting would be no limit), `MaxApprovers \in Nat`, amounts are numbers, the number of kept versions is one too, the limit of a page
is positive, the ledger's entries are finitely many, the comparison operators are among the six of the parser, fields and literals are no keywords, operators or marks, and no token is the end of the tokens. Of `Same` and `Less` nothing is assumed.

**Approvals.** `TypeOK` is inductive alone. `RowsOK` is the strengthening the others need: a row not
yet inserted has left no trace anywhere, a row belongs to a group that was asked,
and whatever transactions, workers and the clock refer to exists; its part about `rivals`
says that a matched sibling is another row of the same any_of group. Lemmas then describe each step that changes the tables by
what it does to rows and books (`DecidedStep`, `TimedOutStep`, `HandedOverStep`, ...), so that the
proofs of the properties about tables do not look at transactions again:
`PendingIsUntouched`, `OnePendingPerAnyOf`, `WorkerActsOnce`, `EscalationIsChain`, `LedgerExplains` and `Lifecycle`
are each inductive relative to `RowsOK` and those before. Two need invariants of
their own:

* `NoLockCycle`, from `LocksOK`: a transaction that matched siblings has a target that was no longer
  pending (the group's one pending row is the sibling), and no two transactions have
  each other's target among their siblings, since the second to look finds pending rows only.
* `EscalationBounded`, from `DepthsOK`: the depth a worker read is still the depth of the row
  when it escalates it, because rows are only ever added below a row that has none below. This is why
  counting outside the lock is harmless.

`ImplementsHandover` is proved from these: `Depth` is the cardinality of the levels at which a row has another above it, so that a
hand-over adds exactly one level below the row (`HandoverAddsOne`), and no other step changes the levels of a row that exists
(`DepthsRemain`). `DepthsOK` says that the row handed over had less than `MaxDepth` of them. Every other step asks, closes,
or leaves the mapped variables alone (`OtherStepsAskOrClose`).

**LedgerChain and LedgerReader.** `WritersOK` (who has looked, begun, ended) and `LinksOK` (a link is to an entry committed before
the present) give `WorkerLinksToItsPast`, and that links lead back (`LinksNeverCircle`). `OverlapsOK` follows the writers: two at work at once are beside each other; of two that were not, one began
after the other's commit, or had ended before; and nothing committed when a writer looked is younger than what it found. It gives
`ForksAreOverlaps`, and for entries with nobody beside them that the order of the export is that of the commits, hence `ExportIsAChain`.

A reader's steps are no steps of the writers (`ReadingIsNoWriting`), so all this holds beside it. `LastPageIsComplete` rests on `PagingOK`: while a client
pages and its cursor applies, what was committed when it began is received or older than the cursor; a page that has a next
one ends in a row that all the rows left out are older than, and a page without one leaves out none (`ThePageEnds`). If the cursor is dropped, every page is the
first one again, and one without a next is the whole. Pages are sets cut by counting (`FirstOf`, of any set with a strict total order: `Orders`); the theorems
about cardinality say that a page is full if it is cut (`FirstOfIsFull`) and that the one row more tells the end (`OneMoreTellsTheEnd`). In place of
induction over finite sets, their first element is that with the least number before it (`LeastNumber`). `ExportIsAChain` follows
from `TurnsOK`: entries sorted from new to old, none left out, are linked each to the next (`SortedIsLinked`).

**ApprovalGate.** `GateImplementsApprovals`: every step of the composition is a step of `Approvals` or leaves its
variables alone, so every theorem above holds of it too. `NobodyIsOverruled` then rests on
`Consented`: once an all_of group could be reported as decided without a
`reject`, each of its rows has an answer that is no `reject`, and that stays, since decisions are final
and no row joins a group whose rows are all decided.

Then what gates go on with. For any_of: the row that opened a group is its only one while it is pending
(`OpeningRowsAreSafe`), so no transaction ever matches it as a sibling; and a decided row changes only if one does. So the row that a gate polls,
which is the opening one (`FirstsOK`), stays decided with the answers it has, and once decided it is the first of its group.
That gives the any_of half of `AnswerStands`, and with `AckedOK` also `AckMatchesAnswer`. For all_of: a rejection stays reported, since decisions are final,
and a group in which every row is decided gets no more rows, so its picks of one decision per row stay picks (`GroupAnswersStay`).
`LeastAmountWins` follows from `AnswerStands`: what was answered is an aggregate of the decisions of this moment, too.

`LateIsNeverApproved` is about a row that the worker has closed and nobody is at (`Overslept`). Nobody begins to decide it, since `DecideRead`
wants a pending row, and no transaction matches it as a sibling, which only any_of groups have; so it stays that way (`OversleptStays`), its group is never
all decided, and what is reported of such a group is a rejection or nothing.

`ImplementsPromise` is proved step by step. Only a committed decision of a row of the group adds an answer (`GivenChangesByDecision`,
`DecisionAnswers`), and a row keeps its group (`DecidedRowsKeepTheirGroup`), so every step of the server answers one question or is a stutter
(`ServingIsAnswering`). What a poll returns is the answer of a decision, for all_of also after the aggregation, which never makes up an answer
(`PolledIsGiven`). The steps of the gate map one by one (`GateStepsAreKept`).

**PolicyStore.** `StoreOK` says that the history and what calls have read are versions the policy had; it
gives `SnapshotsAreTrue`. `DeletedStaysDeleted`, which no run checks since `ImplementsRegister` implies it, is one fact about `Commit`: an update never writes `is_active`, and a create
needs a name without a row. `VersionsCountUp` rests on `TurnsOK`: with one key, one call at a time is in a
transaction, and what it read is still the row. `CacheIsRow` rests on `CopyFollows`: what a reload has found is the
row's unless a commit has overtaken it. `HistoryKeepsTheLast` rests on
`VersionsAreTold`: with one key, each version was one definition, and versions above 1 have one entry each. A trim keeps as many entries as the history holds, the last ones by version; the entries above a
version that the trim would drop number no more than the versions do, which the theorems about cardinality bound (`AsManyAsVersions`, `TrimKeepsTheLast`).

For the register, `NothingTwice` keeps that a policy without a row has no past, and that what a call has yet to commit was never there (a
definition is the call that sent it). Then a commit is `Install`, `Change` or `Retire`, and seeding
`Install`, without any assumption about keys (`StoreImplementsRegister`); with one key, `TurnsOK` says that the version read is the row's, and
`HistoryKeepsTheLast` that the trail is long enough (`OneKeyUpdatesInTurn`).

**Directory and Routing.** `DirectoryOK` adds to the types that nothing runs while the server is down and that the row a call was
admitted to change does not vanish. `CopyIsTable` needs to know what every reload in progress found: as long as it was not overtaken, the
approvers it queried, and then the groups, are those of the tables (`Fresh`). `GroupsGetActiveMembers` rests on members that were
validated under one key still being active at the commit. `RoutesByTheTable` follows from `CopyIsTable` and what `Resolve` does with a
copy that is the table. `AsksWholeGroups` needs no condition: every membership in a table, in what a reload found, or in the
copy is one that the group had (`Remembered`), and a plan has whole ones.

**Escalation.** Every step is one of `Routing` or leaves its variables alone (`EscalationImplementsRouting`). `WorkerOK` is
all the worker needs: its copy is nothing or the file's, and its list is empty or that of the files. What an id resolves to in a copy of
the file is what the file names, and what the tables name where they say the same (`WorkerResolvesByTheFiles`), which gives `HandsOverAsSeeded`. For `HandsOverInFileOrder`,
`PlannedByARule` keeps that an interrupt was planned by a rule of one of the server's lists; the first rule that holds is the same of a policy and of its file
(`SameRulesDecideAlike`), so that file has a rule, and the worker's choice is not after it.

**Expressions.** `ParserReads` is `ParserReadsGrammar` for expressions of any length. `Calls`, `Turns` and `Trees` are recursive functions, and no theorem of the
library says that they exist or how they recur without an operator for a parameter. So that is proved first, by the least argument for which it would
fail (`LeastNumber`), in an order in which each one needs smaller ones only: a method calls others at later positions, or at its own position those of
higher precedence (`Depth`); a rule of the grammar needs shorter spans, or the same span as a lower kind (`Size`). That later calls are at
later positions is itself a result: a method that returns has taken a token (`MethodForward`), which is why the parser ends. This gives `CallsOfMethods` and
`TreesOfRules`; everything else follows from those two. The rest is two inductions of the same form:

* `ParserSound`: the nodes that a method returns are among the trees of its kind for the tokens it took. For the loops the invariant is that what there is
  after any turn is such a tree (`TurnsSound`), which is what groups chains to the left.
* `ParserComplete`: if the grammar has a tree for a span and the token behind it is none with which such an expression goes on (`Onward`), the
  method returns this tree and stops there. That needs the statement for the loops to be about every prefix: some turn is at the end of it (`TurnsComplete`), and the turns
  that remain do nothing once another token follows (`TurnsEnd`). The end of the tokens never goes on. Since a method returns one result, the grammar cannot have two trees:
  that it is unambiguous is a consequence.

`ParseReads` puts the two together, with `GrammarHasTrees` (operands come before their operators in whatever the grammar joins).
`MissingHides` is `MissingOnlyHides` of whatever has been parsed, every payload, and whatever `==` and `<` mean. `Eval` and `Resolve` exist for the same reason
as the parser's calls (`ValuationExists`, `WalkExists`). `PartsResolveAlike`: a field of a part
of a payload is missing or what it is in the whole. Then `PartsOnlyHide`, again by the least node: what is true of the part is true of the whole, since a comparison
is false if an operand is missing, and `and` and `or` only pass truth on.

**Notify.** `CopiesAreAttempts`: copies received, late, and in flight add up to no more than the attempts, which are no more than
`Tries`. With `DeliveredIsReceived` and `SuccessIsDelivered` this gives `CopiesAreBounded` and `SuccessMeansReceived`.

**ApiKeys.** `CallsOK`: a call that holds its key's row has a key that is not revoked, unless it slipped, because `Revoke` waits
for the row. So whoever revokes somebody else remains, which is `SomebodyIsLeft`, for any number of administrators. `ServersOK`: what a
starting server found, or missed, is still so unless it noted a key that was revoked, or made; this gives `BootActsOnItsLook`.

**Only model-checked.** Liveness (`GroupSettles`, `AnyOfGateEnds`, `DispatchEnds`, `CallsEnd`), since the prover has no rule for
fairness and ENABLED. Every invariant and action property that a run checks and expects to hold is a theorem.

## 5. What is left out

Within the modelled parts: authentication, payload schemas, signatures and hash values,
timestamps other than `created_at` of the ledger, wording, logging, metrics. An answer is its type and one
number. Deadlocks are modelled as waits; a statement that PostgreSQL aborts is `DecideAbort` or `WorkerError`.
The rows of other groups and the interrupts table play no part. In `Approvals` the worker's
policy is a free choice between fail and escalate: the properties hold whatever it says. What it does say is in `Escalation`, which in turn
lets rows of an asked interrupt be handed over any number of times. Files are constant: what changes when they are edited
between two starts is not modelled.

Of the policy engine: cutting the text of an expression into tokens, the checks that a YAML file has to pass, and durations, all of which are
conversions of text with no other process involved. Of the API: what a request model drops (a rule's `on_timeout` and `escalate_to`, sent by
`PUT /policies`, are lost before the handler sees them). Of the notifications: what they say, the link among it. Of authentication: expiry, which nothing sets, and the signed
tokens, which keep no state. Only one server process routes in `PolicyStore` and `Directory`; a second one's copies are as old as its
last start or own call, and no property could be stated of them.

Telemetry, the session factory, the MCP server and the UI are not modelled, as they keep no state that another part reads.

## 6. Plan

Done: all modules above with their runs, and the proofs of section 4. What would come next:

1. The composition of `PolicyStore` with `Routing`, so that an interrupt meets the list its server has; today
   `Routing` lets each interrupt meet any of a given set of lists.
2. An abstract specification of `Notify` (a dispatch delivers each task at least once, or records that it did not) and the refinement.
