# School Analytics Platform — formal models

TLA+ models of the parts of the School Analytics Platform (FastAPI, SQLAlchemy,
PostgreSQL or SQLite, optionally Redis) where the order of steps decides what is
true afterwards: imports from the school's ERP, the queues an administrator works
off, the follow-up of at-risk students, what a login, a link or a code is good for,
how often a password may be guessed, how often a webhook's request is admitted — and of
what the portals show: whose names and whose results are in an answer, and whether its
numbers fit. TLC checks every module on a small instance; TLAPS proves, for every instance, the
invariants of the six modules that write the database, of the throttle and the nonce
store, and of what the portals answer.

## 1. The system

One process serves a school's portals (administrators, teachers, parents, students)
from one database per deployment, tenants separated by `tenant_id` and row-level
security. Handlers are synchronous and run in a thread pool; there may be several
replicas, command-line jobs and a scheduler beside them. What all of them have in
common, and every model builds on:

* a session is `SessionLocal(autoflush=False, expire_on_commit=False)` (`db.py:42`):
  a query does not see what the session has added or changed and not flushed;
* PostgreSQL runs READ COMMITTED and no query locks a row (`with_for_update` occurs
  nowhere): what was read may be stale when the handler writes;
* an ORM `UPDATE` names the columns that differ from what was read, so two sessions
  that change different columns of a row both win;
* a request that fails rolls its session back (`get_db` closes it without commit).

| Component | State | Operations | What is hard |
| --- | --- | --- | --- |
| Import conflicts (`import_/conflicts.py`, `apply.py`, `routers/import_conflicts.py`) | `scores`, `attendance`, `remarks` with `source_system`; `import_conflicts` | import a file, resolve by keep local / accept ERP / per field | who owns a row is read at its line and used at the commit of the bundle; a decided conflict is reopened |
| Import mapping queue (`import_/mapping_queue.py`, `routers/import_mapping.py`) | `import_mapping_queue`, `assessments.external_id` | hold a line, map, reject | two administrators, an import between its lines and its commit |
| Delta sync (`connectors/runner.py`, `sync_state.py`, `history.py`, webhook import) | `import_sync_state` (fingerprint), `import_runs` | fetch, compare, validate, apply, record, save | three commits per import, crashes between them, overlapping imports, skipped exports |
| Bundle apply (`import_/apply.py`) | grades, sections, subjects, users, teachers, students, assignments, remarks | read five files in order, line by line | unflushed rows are invisible to the session's own lookups; one refused row loses the bundle |
| Interventions (`routers/interventions.py`, `intervention_events.py`) | `intervention_cases`, `action_tasks`, `intervention_events` | create, update, contact, create/update/complete task | check-then-act without locks, timestamps that must follow the status, a timeline that must explain it |
| ERP webhook (`routers/erp_webhook.py`, `erp_webhook_security.py`) | nonce store | verify, reserve nonce, import | nonce lifetime against timestamp skew, store unavailable |
| Accounts (`routers/auth.py`, `account_lifecycle.py`, `mfa.py`) | `session_version`, reset tokens, TOTP and recovery codes | set password, issue/consume reset token, enrol, reset MFA | double consumption, lost increments, crash between two commits |
| Login throttle (`throttle.py`) | attempt counters | check, count, clear | check-then-act, expiry set by a second command |
| Access scope (`deps.py`), policy and settings (`tenant/policy.py`, `config.py`) | none of their own | build a scope, narrow filters, switch charts and hide fields for families | every query brings its own predicates: a forgotten one names a stranger |
| Analytics (`analytics/metrics.py`, `queries.py`, `charts.py`) | none | pure functions, read-only queries, 38 charts | boundaries of grades and risk; one number computed by two queries; a benchmark in a field nobody hid |
| Portal pages (`portals.py`, `routers/{admin,teacher,parent,student,student_views,students,charts,exports,remarks}.py`, `static/js/filters.js`) | the filters in the page's form | render a page, fetch its cards, export, search, write a remark | a page and its cards are requests of their own: the school may change between them |
| Provisioning, backup, seed, CSRF, secrets, audit, templates | – | sequential, offline or stateless | – |

Interactions. The webhook, the admin upload, the CLI and the scheduled sync all end
in `apply_directory`; it calls the mapping queue for unknown assessment codes and
the conflict queue for disagreements; administrators resolve both
queues through their own sessions; the sync stores a fingerprint afterwards and
skips an unchanged export the next time. A portal page is rendered in one request and
each of its cards fetched in another; every request reads its scope anew
(`get_access_scope`), narrows the filters with it and hands both to the queries.
Interventions read the analytics' risk verdict and nothing else. Accounts, throttle and
nonce store meet in the login and webhook handlers only.

`PROJECT.json` lists every component with its status, and under `hazards` every
place in this code where a test would hardly reach what can go wrong.

## 2. The modules

| Module | Models | Correspondence |
| --- | --- | --- |
| `ImportConflicts` | upsert of one kind of row by owner, the conflict of a row, three resolutions | a session (`ses`) opens, reads lines or a verdict, commits; `MergeRow`/`MergeConflict` are the UPDATE of changed columns |
| `CodeLifecycle` | what the mapping queue promises of one code: unknown, held, mapped or rejected, never back | abstract specification |
| `MappingQueue` | `import_mapping_queue` and the administrators' map and reject, read and commit apart | `INSTANCE CodeLifecycle`; property `LifecycleSpec` |
| `DeltaSync` | syncs and pushes that fetch, compare, apply line by line, commit, record, save; composes `MappingQueue` | one action per step between two commits and per line of scores: `SkipLine`, `HoldLine`, `ScoreLine`, `DisputeLine`, `RepeatLine` are the ways a line can go; `RepeatLine`, `Clash` and `RefuseFiles` are what the database refuses |
| `BundleApply` | structure, users and remarks: what is flushed (`seen`) and what will be (`mem`) | one action per CSV line, `Flushed` where the code calls `flush` |
| `Interventions` | every writing handler in two halves, the columns it writes and the events it records | `Begin…` is the handler up to its last refusal, `Commit…` its writes; `racedCases` and `racedTasks` remember the rows whose status was set by a request that had read another |
| `ResetTokens` | what reset tokens promise: one open at a time, each sets the password at most once and stays closed | abstract specification |
| `Accounts` | one account: its row, reset tokens, second factor and recovery codes, the cookies and MFA tokens that name it | `Begin…` reads and refuses, `RevokeTokens` is the UPDATE of the tokens, `Finish…` writes and commits; every cookie and event remembers how many revocations were committed when its request read the account (`era`); `INSTANCE ResetTokens`; property `TokenPromise` |
| `LoginThrottle` | the attempts that share an endpoint's keys (account, address), the counters with the time they have left, in memory or in Redis | a request checks, verifies, counts or clears in steps of its own; a command of Redis may fail before or after it was executed, a process may die; `Tick` is the clock |
| `WebhookReplay` | verification of a signed push, the nonce store, what is imported | one action per step (signature and freshness, `SET NX EX`, import); ages of messages and lives of nonces in ticks |
| `Metrics` | `metrics.py` as functions, in hundredths of a percent | one operator per function |
| `AccessScope` | the tables the portals read, the scope of every role, its checks, the filters, the policy | `GetAccessScope`, `Narrow`, `ValidFilters`, `ChartAllowedForScope` |
| `Queries`, `Charts` | every query and every chart's handler, `sanitize_family_chart`, `get_chart`, `export_chart_csv`, filters and search | one operator per function; the answer says who is named (`who`) and the numbers (`data`) |
| `Pages` | the pages with their cards and what the filter form hands on | `GetPage`; `form` is what `filters.js` sends with each card |
| `Portal` | a request and a school that changes under it | `Open` reads the scope, `Answer`, `Browse` and `CreateRemark` use it; `Visit` and `Card` are a page and one of its cards; `Move`, `Retire`, `Reassign`, `Rehome`, `Reguard` are the school's changes |
| `MC…` | instances for TLC | small sets, symmetry |
| `…Proofs` | theorems and proofs about the module of that name | – |

Faulty variants of definitions (`Fault:` comments) stand beside the definitions they
vary; the runs' properties tell each of them from the code.

## 3. The runs

| Run | Shows | Bounds |
| --- | --- | --- |
| `conflicts_serial` | one session at a time: every disagreement nobody decided is pending, an ERP import changes an analytics-owned value only if its file first agreed with it, verdicts stand | one row, two columns, files of two lines: a second line for a row is the case that differs from the first |
| `conflicts_per_field` (violated) | a column kept as local is overwritten by the next ERP import | one session |
| `deltasync` | a sync, a push and an administrator overlap, imports die and are refused anywhere: fingerprints are of bundles that were applied, held codes stay held, scores come from a line about their student and code, the queue implements `CodeLifecycle`, and a valid export that stays is applied, unless its own lines or files are what the database refuses | three exports: one names two codes and a student it may create, one names a row twice and may be refused for its other files, one does not validate; two codes, two assessments of which one line fits only one; two exports or pushes after the first, one crash |
| `deltasync_mapping` (violated) | a held score does not land after its code is mapped, as every later sync skips the export | same exports, one sync and no push |
| `bundle_apply` | every pair of bundles of up to three lines, each applied up to four times: links fit roles, a users line lands or is reported, a bundle of n lines settles in n applications, and in three at most | three lines are enough for a row, a line that depends on it and one that overrides it |
| `interventions` | two requests at a time, five committed: the timeline explains a case's status, terminal tasks stay so and are reported once, except for rows whose status was set from a stale read | two cases of one student, one task; a case, a task and three more commits are enough to complete, cancel and complete again, and to overlap two of them |
| `accounts` | two requests at a time, one of which logs in, enrols or resets the second factor and the other is any of the others: a login that overlaps a revocation gets no session out of it, the trail counts the versions, recovery codes go with the second factor, except for what one revocation overtakes; codes open one session each, tokens implement `ResetTokens` | two revocations, two tokens, two codes issued one at a time: an old and a new one of each; without symmetry of requests, as their kinds differ. The split of kinds keeps the run small and still lets a reset of the second factor cross a password change and the making of codes |
| `logins` | two attempts that overlap: the limit is overrun by at most the attempts under way, no wrong answer goes uncounted but by a fault, a window only runs out, a lock ends unless the expiry was lost | one account, one address (their counters are separate keys), two requests, limit 2, lockout of 2 ticks, one fault: one attempt more than the limit, a tick inside the window and one past it |
| `lockout_forever` (violated) | `INCR` without the `EXPIRE` that follows it leaves a lock without an end | same |
| `webhook` | two messages, two nonces, any number of deliveries to two handlers, one fault: each message is imported at most once, only who knows the secret uses up nonces, what is refused as a replay is one | `Skew` 3, `TTL` 6, `MaxAhead` 1, `MaxDelay` 1 (ticks): a message from the future, a late one, and a nonce that has just been forgotten all occur |
| `portal` | every chart, list, search, page and remark, by every role, in two schools, with one change between the reading of the scope and the answer: nobody unknown is named, an answer does not depend on what its reader may not read, its numbers fit each other, a student's page and the class table agree up to a rounding, a card stays with its page's child | three students, three classes (one of an earlier year), two subjects, ten papers; one school compares, the other does not, they differ in every switch, and in one a student has moved and another left; seven filters, one of which names a year the school does not have; one change |
| `same_number` (violated) | after a classmate moves, the teacher reads another class average than principal and parents | same |

Each violated run refutes one sentence of the repository's own docs, comments or
messages; `findings` in `PROJECT.json` quotes it. What the code does not keep and
nobody claims is stated beside the modules without a run, for whoever adds the lock or
the key: `OneActiveCase` (two requests, or a reopened case, give a student two active
cases), `OneAssessmentPerCode` (two administrators map one code), the
`SingleSession` properties of `ImportConflicts` with two sessions, `RecoveryOpensOnce` and
`TokenPromise` with two requests that carry one code or one link, and
`DistinctStructureIsApplied` (a new section with two known subjects is refused and its
bundle lost, however often it is tried).

Where two requests overlap, the properties of `Interventions` and `Accounts` name the
damage instead of assuming it away. A handler that sets a status it had read otherwise
(`racedCases`, `racedTasks`), a revocation that another one overtook (`Overtaken`) and the
recovery codes of a request that a revocation overtook (`orphans`) are what the code,
without locks, cannot keep in order; the properties say that nothing else goes wrong, for
any number of overlapping requests. In the same way `StableExportIsApplied` excepts the
bundles that are refused each time they are tried: those that name one row of scores twice
(`Distinct`: the second line does not find the first, `apply.py:689-706`, and
`uq_score_per_student` refuses both) and those with such lines in their other files
(`Refusable`: whether a bundle is one is `BundleApply`'s matter).
`UnmappedCodesAreHeld` speaks of the lines whose student was there when the import came to
its scores: a line about anybody else is skipped with a warning before its code is looked
at (`apply.py:596-613`), and that code is known to nobody.

Bounds of the portal's model. The scope is read atomically, and so is a whole chart: a
change between two queries of one chart is left out, one between scope and chart is not.
Marks are in thousandths, percentages in hundredths, rounded half up (Python rounds half
to even: the results differ only where a value lies exactly between two hundredths); a
standard deviation is compared by its square. Six of the ten papers are of one subject and
class, so that the recent results can have dropped; one result is absent, one not marked
yet, one of weight zero, as these are what averages stumble over.

The webhook's assumption `MaxAhead + MaxDelay + Skew < TTL` is the one the defaults
satisfy (skew 300 s, TTL 600 s) as long as the clocks differ by less than the rest;
what happens at equality depends on which of two clocks ticks first and is not covered.

Fairness. `DeltaSync`'s `FairSpec`: weak fairness of starting a
scheduled sync (the scheduler calls it again and again) and of the steps of an import
that is running (a thread that is not dead goes on). Exports, pushes, forced syncs,
administrators and crashes have none. Crashes are bounded (`MaxFaults`), which is an
assumption as much as a bound: a sync that died every time would apply nothing, and
`StableExportIsApplied` says what happens once the crashes stop. `LoginThrottle`'s
`FairSpec`: weak fairness of `Tick` (time passes) and of the steps of a request that is
under way; nobody has to log in. The other modules are
checked for safety only; they may stop at any time, which is why their configurations
switch the deadlock check off: all requests are optional and the bounds end the
behaviour.

## 4. The proofs

| Module | Theorems | Assumption |
| --- | --- | --- |
| `ImportConflictsProofs` | `TypeCorrect` | – |
| | `ConflictsAreDisagreements`, `DisagreementsAreQueued`, `ErpPreservation`, `VerdictsStand` | `SingleSession` |
| `DeltaSyncProofs` (the queue alone, then the syncs) | `QueueTypeCorrect` | – |
| | `QueueAgrees`, `QueueImplementsLifecycle` | `SingleAdmin` |
| | `SyncTypeCorrect`, `NoCodeLost`, `SyncImplementsQueue` | – |
| | `SyncKeepsLifecycle`, `SyncQueueAgrees`, `ScoresSound` | `SingleAdmin` |
| | `FingerprintSound` | `~ Live`: the connector copies the export |
| `BundleApplyProofs` | `BundleTypeCorrect`, `LinksSound`, `LinksLand`, `BundlesConverge` | – |
| `InterventionsProofs` | `InterventionsTypeCorrect`, `ResolvedAtSound`, `TrailSound`, `CompletionSound`, `ReportedOnce`, `TerminalIsFinal` | – |
| `AccountsProofs` | `AccountsTypeCorrect`, `TrailSound`, `SessionsSound`, `CodesSound` | – |
| | `RecoverySound` | `SingleSpender` |
| | `TokensSound` | `SingleWriter` |
| `LoginThrottleProofs` | `ThrottleTypeCorrect`, `Answered`, `Overlap`, `Windows` | – |
| `WebhookReplayProofs` | `WebhookTypeCorrect`, `Once`, `SignedSpend`, `ReplaysSound` | `MaxAhead + MaxDelay + Skew < TTL` |
| `PortalProofs` | `PortalTypeCorrect`, `NamesSound`, `CardsSound`, `AnswersSound`, `NumbersSound`, `VerdictsAgree` | what the tables hold, below |

`SingleSession` (of `ImportConflicts`) and `SingleAdmin` say that one request is handled at
a time. `SingleSpender` says that one request at a time may spend recovery codes, while
any number of others replace and delete them, `SingleWriter` that one at a time may issue
or use reset tokens, with any number of others beside it. They are not facts about the
deployment: with two sessions TLC finds what is lost without them, so a lock or a key in
the code is what would discharge them.

What the portals' proofs assume of the tables is what the code that writes them sees to.
`PaperAssumption`: a paper's maximum is positive (`ck_assessment_max_marks_positive`,
`models.py:457`) and no weight is negative (no key says so; the only code that writes
papers, `seed/generate.py:575-590`, gives positive ones, and the run has a paper of weight
zero), and its term is one of the terms (a foreign key). `MarksAssumption`: marks lie
within the paper's maximum (`apply.py:674-688`; NaN passes that test and is left out).
`CurrentYearAssumption`: some term's year is marked current. `IdsAssumption`,
`NoneAssumption` and `InputsAssumption` only say of the model's values that ids are finite
in number, that students, classes and terms have numbers for ids (terms are sorted by
them), that `None` is none of them, and that the schools, filters and pages looked at are
well formed.

The argument begins the same way everywhere. The type invariant is strengthened with what
a running session has read (it exists, it has the right shape), which makes it
inductive for any number of sessions. In `ImportConflictsProofs` and for the queue, a
second invariant says, for one session, that what was read is still what the tables hold
(`Fresh`, and its kin); then each commit is an atomic update of one row and its queue
entry, and each property follows from one lemma per action. `QueueImplementsLifecycle` and
`SyncImplementsQueue` are step simulations; the second lets an import's whole commit stand
for the single step in which the queue holds its codes. `FingerprintSound` needs that a
saved fingerprint's bundle was recorded before; `NoCodeLost`, that an import owes the code
of a line only as long as the line is still to be read or the code is held or decided.

`InterventionsProofs` assumes nothing about who overlaps. What a request has read was in
order of itself when it was read, and a task it has read as over is over still (`Reads`).
A commit that sets a status either finds the row with the status its request had read, so
that timestamp, note and timeline follow from what was in order, or it races the row, which
leaves the properties with it (`RaceInv`); a commit that sets no status disturbs none of
them. `ReportedOnce` needs in addition that a reported task which is not raced is terminal
(`Reported`).

In `AccountsProofs` every cookie, event and running request carries the number of
revocations committed when it read the account. `ErasAgree` says that what it read has the
version which followed that many revocations (`VersionAfter`), and `CountsUp` that versions
rise from one revocation to the next that none overtook: from the two follow the trail and
the cookies. Recovery codes go with the factor because a request that hands them out has
read it enrolled, and either no revocation was committed since or its codes are orphans.
`TokensSound` is a step simulation: at most one token is open, and the UPDATE a request
is about to commit covers every unused one (`TokensKnown`).

`LoginThrottle` and `WebhookReplay` need no assumption about overlap either: any number of requests
overlap, commands fail, and time passes between any two steps. In
`LoginThrottleProofs` every request is somewhere on a walk along its keys (`Walk`): at
each stage, the keys checked, counted or cleared are the ones behind it, or all. From
that follows what an answer may say. For the bound on attempts, a counter is taken
together with the requests that have found it open and that it has yet to hear of
(`Pending`). The sum stays below the limit plus the number of requests (`Bounded`): a
request comes to be pending only below the limit, a recorded failure moves one from the
requests to the counter, and nothing else adds to either (`Settles`). `Windows` is the
same walk taken one step at a time. In `WebhookReplayProofs` the invariant ties a
nonce's remaining life to the age of the message that spent it (`Guarded`): by the time
the nonce is forgotten, the message is too old to be fresh, and a delivery that may
still reserve is signed and no older than that (`Prompt`); hence one admission each.

`LinksLand` needs to know when a users line counts (`LandedOrRelinked`): once its login,
its student or its teacher is what the line says it stands until a later line relinks it, and what is
found stands whatever is flushed or refused in between. The invariant
(`LandInv`) says so of every line read so far, in the rows the session will flush, and
the commit hands it to the tables.

`BundlesConverge` says how often an operator has to import the same files: a bundle settles in as
many applications as it has lines, and in three at most. Three are needed: a class is
not found before it is flushed, a student not created before its class is found, and the
guardian of an earlier line not linked before the student is there. The proof has three parts.
`Sums` tells what the first n lines have done to the tables the session began with: the
rows they ask for are there and nothing else is new, the last line that names a link has
set it if its row was there, a remark that was there has the note of the last line with
its external id, and a new one is a line's that found none. It is proved line by line
(`LineSums`), for all three files, with what the session finds and what is only pending
kept apart (`Finding`). `Levels` says what stands after r applications, and what may
still wait, always with the lines it waits for; `LevelsNext` takes it one application
further, and a settled file then changes nothing (`SettledStays`). For refused
applications nothing of this holds; there, what a file does up to its remarks is determined
(`Follows`: every trace of the file from these tables leads to this session) and a remark
is never refused, so a bundle that was refused once is refused by every later
application (`Stuck`, `NotStuck`), unless the tables change. Two remarks that share an
external id are excepted by the property and end the argument: which one a line finds is up
to the database.

`PortalProofs` rests on one observation: a request reads its scope from one school,
kept in the history variable `was`, and answers from another. `PortalInv` says
which scope and which answer the request holds at each stage, as functions of the two
schools; nothing the other users do disturbs it, so each theorem is about pure operators
from there on. For `NamesSound` every query is shown to name only students its scope
contains, and every scope only those its reader may know in `was`. For `CardsSound` the page
keeps its student in the form it hands on, and the policy's two decisions, about cards
and about charts, are compared key by key. For `AnswersSound` two schools that agree on
what the scope covers are followed through every query: each reads its rows through a
predicate of the scope, so it returns the same; where a benchmark reads more than
the scope covers, either the family may see it (`Compares`) or
`sanitize_family_chart` removes the field. Whether a chart has an answer at all must rest
on the same results: the table of a student's assessments prints the marks of everybody
who was not absent and ends in an error when there are none yet (`charts.py:408-410`,
`Unprintable`), which both schools see alike (`SameRefusal`).

`NumbersSound` needs facts about sums, means and counts over sets of any size. The
community modules sum by a recursive function; the proof solves its recursion by
well-founded induction over finite subsets (`FinInduction`, first-order: the statement is
about a set of subsets, so no operator has to be instantiated). From there:
the sum of parts is the whole (`SumOfParts`, for histograms and grade mixes, whose
buckets are shown to cover every result once), and a mean, plain or weighted, lies
between bounds of its terms, also after rounding (`SumBetween`, `RoundedBetween`).

`VerdictsAgree` compares two computations about one student: `PageFacts`, what
`student_overview` finds, and `TableFacts`, what `student_standings` finds. Where the
results are of one subject and one class (`OneClass`) both read the same results
(`OwnResults`), registers and remarks, the subject's average is the average, and the terms
are the same in the same order (`TermsListed`); what is left is rounding. Rounding a
term's average moves it by half a hundredth at most. A term in the middle of an odd number
does not weigh on the slope, every other lies half a step or more from the middle
(`OffsetFar`), so the distances add up to at most twice their squares, whose sum is the
slope's denominator (`TiltNear`): the slopes are within a hundredth of each other, and
stay so when rounded to thousandths (`SlopesNear`). The unit in which exact ratios are
fitted is a product over the terms, which every denominator divides (`UnitScales`). A fail
compares one average, rounded or not, with a limit in whole hundredths (`FailsBelow`). The
invariant needs one addition, about the filters a request holds and a page hands on: they
are records of the filters' fields with finitely many subjects (`FiltersPlain`).

The proof corrected the property. It used to put the scope's year into the filters of the
table, but for a year the school does not have the scope falls back to the current one
(`deps.py:289-303`) while `narrow` keeps the filter's (`deps.py:180`), so that page and
table were about different results. The table now goes by the narrowed filters, like the
page, and the run has such a year among its filters.

`ConflictsAreDisagreements`, `ResolvedAtSound` and `CompletionSound` are proved and
have no run of their own: a snapshot in the queue disagrees in exactly the fields it
lists, and `resolved_at` and `completed_at` follow the statuses.

Left to TLC: liveness (`StableExportIsApplied`, `HeldScoresLand`, `LocksEndUnlessFault`),
which is beyond the provers, and all violations. Every safety invariant and action
property of a passing run is stated by a theorem. In the other direction, the run of
`BundleApply` has bundles of at most three lines, so that three applications are enough
for longer ones is the theorem's alone.

`OneVerdict` is stated with `Near` because the code does not agree with itself to the
last digit, whatever `metrics.py:3-5` says of one source of truth:
`student_overview` (`queries.py:735-751`) fits the trend to rounded term averages and
counts fails among rounded subject averages, `student_standings` (`848-894`) uses
unrounded ones. Terms at 94 and 92.0033 have a slope of -2.000 on one page and -1.997 on the
other, and a student at a limit may get two verdicts. The property says what does hold:
the slopes are a hundredth apart at most, a fail is missed only at the
limit, and with the page's slope and fails the table's verdict is the page's.

## 5. What is not modelled

* Network and file transport of the connectors (REST, SFTP, drop directory); the cutting
  up of a multipart body and the signature itself.
* Names, texts, dates, priorities, titles, colours and layout, the format of exported
  files; the pages for imports and interventions, which have no cards.
* Which tenant a request belongs to, and row-level security inside PostgreSQL.
* CSRF tokens, secrets, the audit log (stateless checks and an append-only table; that an
  answer is audited is part of the portal's answers).
* Provisioning, backup, backfills, seed and migrations: sequential or offline.
* NaN marks pass the range test of an imported score (`apply.py:676`); values are
  abstract there.

Observations made while reading that no property is about: a page whose year is not
among the choices of its year control hands its cards the latest year
(`filters.js`: the control has no empty choice); the class a teacher's page opens with
may be one of an earlier year; several `section_ids` keep narrowing the class benchmark
of a student's charts (`queries.py:484` drops only `section_id`); a student with
results in two classes appears in the table of standings with the last group the
database returns (`queries.py:834`); `docs/` describe the throttle's key as one of
tenant, address and account together, the code counts accounts and addresses apart.

## 6. Plan

Done, in this order: `ImportConflicts`, `MappingQueue` with `CodeLifecycle`,
`DeltaSync`, `BundleApply`, `Interventions`, `Accounts` with `ResetTokens`,
`LoginThrottle`, `WebhookReplay`, `Metrics`, `AccessScope`, `Queries`, `Charts`,
`Pages`, `Portal`; proofs about each of them. Next:

1. `ImportConflicts` with overlapping sessions: properties that name what a stale read of
   the owner may cost, as in `Interventions`, in place of `SingleSession`.
2. Which tenant a request belongs to (`tenant/`), as a module `AccessScope` builds on.
3. The staff pages for imports and interventions.
