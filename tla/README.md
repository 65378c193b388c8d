# Verification of the Loadsmith Oracle plugins

TLA+ models of the two Oracle plugins of this repository, of the pipeline they
form, and of the workflow that releases them; what TLC checks about them on small
instances, and what TLAPS proves about them for all instances.

## 1. The system

The repository ships two programs, `loadsmith-source-oracle` and
`loadsmith-destination-oracle`. Each is a process that the Loadsmith engine
starts for one run and talks to through the plugin SDK. Engine and SDK are not
in this repository.

| Component | Source | State | Operations |
|---|---|---|---|
| Destination plugin | `connector/src/destination.rs` | `conn`, `columns`, `sql`, `staging_table`, `merge_sql`, `target_types`, `rows_written`; behind `conn` an Oracle session with an open transaction, locks and the session's rows of a global temporary table | `configure`, `prepare`, `write_batch`, `finalize`, `cancel` |
| Source plugin | `connector/src/source.rs` | `conn`, `schema`, `resume_value`, `last_cursor_value`, `rows`, `pos`, `loaded` | `configure`, `resume_from`, `schema`, `next_batch`, `current_watermark`, `cancel` |
| Type mapping, identifiers | `connector/src/types.rs` | none | `projected_select`, `rows_to_batch`, `cell_to_bind`, `typed_expr`, `quote_ident`, `fold_ident` |
| Connection | `connector/src/conn.rs` | none | `parse_duration`, `build_descriptor`, `connect` |
| Binaries, crate root | `connector/src/lib.rs`, `connector/src/bin/` | none | hand the plugin to the SDK |
| Release | `.github/workflows/release.yml`, `ci/release.py` | GitHub releases, `index.json` on `main`, image tags | jobs `meta`, `build`, `release`, `image` |
| Tests, lab, image | `connector/tests`, `lab`, `e2e.yml`, `image` | none | – |
| Engine, SDK (external) | – | the persisted watermark | calls the plugins |

How they interact. The engine calls the source's `next_batch` and passes each
batch to the destination's `write_batch`; after the last it calls `finalize`,
and then asks the source for `current_watermark`, which it persists and hands
to `resume_from` of the next run. The two plugins share no memory. Several
loads, of one or of several engines, share the Oracle target table, its locks
and, in `staged_merge`, the definition of one global temporary table (its rows
are private to a session). While a source reads, the application goes on
committing rows.

What is hard to get right, and the properties that make each component correct
(the full list, with lines, is `hazards` in `PROJECT.json`):

* **Destination.** A load is many calls and many statements, and must be one
  step for everybody else. Faults can come inside a batch (the rows before the
  failing one stay executed), between MERGE and COMMIT, and between COMMIT and
  its answer. Other sessions insert or merge the same keys meanwhile. A load
  must reach the table whole or not at all; what was reported must be durable;
  a repeated `staged_merge` must have the effect of one; no load may hang or
  keep locks.
* **Source.** What a run read, what landed, and what the watermark says must
  agree over many runs, although runs fail between batches, after the
  destination's commit, and although cursors tie, are NULL, or are finer than
  the text of the watermark. No row may be skipped; a row may be read again
  only when a run could not persist its watermark.
* **Pipeline.** A run is a load. Rows are updated at the source between runs,
  while they are read, and while a run that has landed waits to be persisted; a
  run that is repeated brings other versions of the rows than the first time.
  Up to the watermark the target must be the source's table.
* **Types and names.** A value is rendered, fetched, built, bound, parsed,
  assigned and merged, in two sessions whose environment the plugins do not
  control. It must arrive, or fail the load, and never become another value.
  Names come from a user, from Oracle's catalog and from other plugins, in
  different cases, and are compared in three different ways; the ways must agree.
* **Connection.** A timeout is multiplied in 64 bits and rounded; a session that
  could not be pinned must not be used.
* **Release.** Jobs of several tags, and developers, race for `index.json` on
  `main`, for `latest` and for `:slim`; jobs fail and are run again.

## 2. Modules

    MergeStatement          what INSERT and MERGE do to a table
      AtomicLoad            abstract: a load reaches the table in one step
      OracleDestination     the plugin processes, sessions, locks, faults;
                            refines AtomicLoad (Loads == INSTANCE ... WITH)
        MCOracleDestination     instances for TLC
        OracleDestinationProofs theorems
    OracleSource            runs of the source plugin, application, engine
      MCOracleSource            instances for TLC
      OracleSourceProofs        theorems
      WatermarkProofs           theorems on the order of watermarks
      Pipeline              the runs of OracleSource as loads into a target
                            (uses MergeStatement)
        MCPipeline              instances for TLC
        PipelineProofs          theorems, without orphans and with them
    ValueCrossing           one value from column to column
      MCValueCrossing           instances for TLC
      ValueCrossingProofs       theorems
    Identifiers             how names of columns are matched
      MCIdentifiers             instances for TLC
      IdentifiersProofs         theorems
    ConnectConfig           from the settings to a session
      MCConnectConfig           instances for TLC
      ConnectConfigProofs       theorems
    ReleaseWorkflow         tags, jobs, main, index.json, images
      MCReleaseWorkflow         instances for TLC
      ReleaseWorkflowProofs     theorems

### MergeStatement

A table is a bag of opaque rows, `[Rows -> Nat]`; `KeyOf` gives a row's
`merge_key` value. `MergeEffect` and `InsertEffect` are the statements of
`build_staged_merge_sql` and `build_insert_sql`. A NULL key is equal to nothing:
it is never matched, and no unique index holds it. `MergeKeyPresent` is the
check of lines 274-279, `UpdatesMatched` the branch of lines 288-300.
`MergeAccepted` is Oracle's own refusal of a MERGE whose staging rows repeat a
key (ORA-30926, ORA-00001).

### AtomicLoad

What `CommitMode` documents: the table changes by a whole load or not at all.
One action, `Load(l)`; its success may or may not be reported, because the
answer to COMMIT can be lost.

### OracleDestination

| Model | Code |
|---|---|
| `pc[l]` | the call the process is in; `configured` .. `done` |
| `conn[l]` | `conn`: `none`, `open`, or `lost` once the session is gone |
| `stagingTable`, `columns`, `mergeSql` | that `staging_table`, `columns`, `merge_sql` are set |
| `rowsWritten`, `nrows` | `rows_written`, `batch.num_rows()` |
| `left`, `pos` | how far Oracle is in the array DML, and in the input |
| `removes`, `adds`, `staging` | the uncommitted changes of the session |
| `snapshot`, `locks`, `wants` | its running MERGE: the table as it reads it, the keys it has locked, the key it is at |
| `tableColumns`, `gttColumns` | the shapes of target and staging table |
| `Configure`, `Prepare`, `PrepareFails` | `configure`, `prepare` |
| `WriteBatch`, `InsertRow`, `BatchWritten` | a `write_batch` that succeeds: the statements are built and sent, Oracle executes row after row, the count is taken |
| `WriteBatchFails`, `DmlFails` | a `write_batch` that fails before, or in, the array DML |
| `Finalize`, `MergeLocks`, `MergeRestarts`, `MergeEnds`, `Commit` | `finalize`: the MERGE is sent, runs, and may start again; then COMMIT |
| `MergeFails`, `CommitFails`, `CommitAnswerLost` | its errors, the last with the COMMIT applied |
| `Cancel` | `cancel` |
| `Exit`, `Crash`, `SessionLost`, `AlterTarget` | the environment |

`write_batch` and `finalize` are several actions each because other sessions,
crashes and lost connections come between the statements. The rows of an array
DML are executed one by one because a lock wait, a deadlock or an error can
stop at any of them. Oracle is modelled from the statements the plugin sends:
uncommitted rows are invisible to other sessions and lock their keys; a lost
session is rolled back; DDL is refused while the table has open changes.

A MERGE is several steps for the same reason. It reads the table as it was
committed when it started, and locks the keys of its rows one after the other, in
an order of Oracle's choice; it keeps what it has locked while it waits for the
next. Two MERGEs whose keys cross, or a MERGE and an atomic load, can so wait for
each other in `finalize`, until one gets ORA-00060 (`Deadlocked`). When it comes to
a row that another session has changed and committed since, it undoes its work and
starts again from the table as it is now (`MergeRestarts`); when it comes to insert
a key that has been committed meanwhile, it fails with ORA-00001 (`MergeDoomed`).
Its changes are given to the session when it has all its locks (`MergeEnds`): nobody
else sees them before COMMIT, and a MERGE that fails leaves none of them behind, so
when it makes them in between cannot be told apart.

### OracleSource

A row is its position in the application's commit order, and all that is known
of it is its cursor. `rows`, `pos`, `loaded`, `last`, `resume` are the fields of
`OracleSourcePlugin`; `Text` is `TO_CHAR` (`FF6` cuts a TIMESTAMP(9)), `Tick` how
coarse it is. `Selected` and `Results` are the query (`> bound`, `ORDER BY
cursor ASC`, NULLs last, ties in any order). `NextBatch`, `Exhausted` and
`NextBatchFails` are the outcomes of `next_batch`; in the last the watermark may
have moved already, as in lines 251-259. `Land`, `LandUnanswered` and `Persist` are
the engine's and the destination's.

An update is a further position with the same `RowKey`: it supersedes the older
one, which no query finds any more. `InOrder` says whether transactions commit
cursors above all committed ones; without it, `late` remembers those that did
not. `SortRank` is the order of `ORDER BY`, which for a text cursor is that of
`NLS_SORT` and need not be that of `>`.

### Pipeline

`Pipeline` extends `OracleSource` by `table`, the target, as a bag of versions.
The step in which a run lands is the destination's commit: the destination is
taken as `AtomicLoad`, which `OracleDestination` is proved to implement, so its
own steps need not be repeated here. `TargetLoaded` is the effect of the load,
MERGE by primary key or INSERT. `RunLandsUnanswered` is a commit whose answer is
lost: the run fails, its watermark is not persisted, and the next run brings the
rows again, or later versions of them.

`orphan` is a destination whose engine has died during `finalize`.
`block_in_place` is not interrupted by the end of the engine: the process may
execute its MERGE and COMMIT at any later time, after the next run has started
or landed. Only with `Orphans` are there two loads at a time; otherwise the
engine runs a pipeline one run after the other (E7).

### ValueCrossing

The state is where one value is (`pc`) and what it is there (`at`). A text is a
sequence of pieces, because what matters is what a format says of a value, and
what a reader with another format, decimal character or time zone makes of it.
`OfType` says what values a type has; the named ASSUMEs say that `Values` gives
each type values of its own, and that no value is `NULL` or `Failed`.

| Model | Code |
|---|---|
| `Pinned` | `ALTER SESSION SET NLS_NUMERIC_CHARACTERS` in `connect` |
| `FormatOf`, `Rendered`, `CutToMicro` | `FMT_*` in `to_char_expr`: no era, `FF6` |
| `Fetch` / `CellOf` | `projected_select`, and the cells of `load_rows` |
| `BuildColumn` / `OracleToArrow`, `Built` | `oracle_to_arrow`, `build_column` |
| `CellToBind` / `BindOf`, `ChronoText` | `cell_to_bind` |
| `Insert` / `Converted`, `TypedExpr` | `bind_expr`, `typed_expr`, the INSERT |
| `Merge` | the assignment from the staging column to the target's |
| `Parsed`, `Fits`, `Assigned`, `ToNumber`, `SeenIn` | Oracle's `TO_*`, which take no more digits than `FF6`; conversions and time zones (external) |

A path is the type of the value, of the target's column when `prepare` described
it, of the staging column, and of the target's column at the MERGE; they differ
when the target was altered in between. Types that the code treats alike share a
name. The implicit conversion of text to a date under `NLS_DATE_FORMAT`, which
happens when a column becomes temporal after it was described, is taken as an
error; a bind without length is NULL to Oracle. `Supported` says on which paths
`SameMeaning` is about the value: bytes go only into a `RAW`, and of the columns
that are altered only a DATE that becomes a TIMESTAMP, or was one, is followed.

### Identifiers

A name is a value with an upper-case form, and is simple or not. `QuoteIdent`
and `FoldIdent` are the functions of `types.rs`; a quoted name means to Oracle
exactly what is written. `Configure` finds the cursor (`cursor_idx` and
`cursor_type` are found by the same comparison), `Prepare` is the map of types by
`to_uppercase()`, in which the last of two columns wins, `BindExpr` the look-up
in it, `StatementsBuilt` the INSERT and the MERGE with their check of
`merge_key`. `QueryAccepted` and `InsertAccepted` are Oracle's refusals.
`NamesAssumption` takes it that a name is simple exactly if its upper-case form is, which
holds of all but a few names with letters outside ASCII (`ı`, whose upper-case form
is `I`).

### ConnectConfig

All settings at once, and then `BuildDescriptor`, `Connect`, `Pin` with their
failures. A timeout is a number and a unit; it is multiplied modulo `U64`, in
a debug build with a panic. `U64` is 2^64 in the code and 2^17 in the run, where a
day of seconds fits and two do not.

### ReleaseWorkflow

Versions are numbered; a tag is the number of its version. `main` has a head, the
version in `Cargo.toml`, and `index.json`'s entries and `latest`. `tagged[t]` is
the version in the tree that tag `t` was put on, rightly or wrongly.

| Model | Code |
|---|---|
| `Gate`, `CheckPasses` | jobs `meta` (`release.py check`) and `build`, which may fail |
| `PushImage` | job `image`: the versioned tag and `:slim` |
| `Queue`, `Start` | `concurrency: index-commit` (one runs, one waits, a third cancels the one that waits), checkout of `main` |
| `CreateRelease` | `release.py manifest` and `gh release create` |
| `UpdateIndex`, `IndexCommit`, `PushAccepted` | `release.py index`, commit, push |
| `JobFails`, `Rerun` | the runner; "re-run failed jobs" |
| `CommitToMain`, `PushTag` | the developers |

A tag may be put on any commit, of `main` or of a branch, in any order
of versions, and developers may commit any version to `main`, also an earlier one.

`overlapped` and `ahead` are history variables, on which no action depends.
`overlapped`: a tag was pushed while the run of another was not over, or after a
newer one, or the jobs of an older one were run again. `ahead`: a tag was of a later
version than `main` was then, because it was pushed before `main` or on a branch, or
because `main` went back.
`git commit` of line 110 always has a change here, because a version is indexed
once.

### Assumptions about what is not in the repository

* E1. After an error the engine calls nothing but `cancel`, or ends the process.
* E2. The engine persists `current_watermark` only after the destination's
  `finalize`, and keeps the old one if there is none.
* E3. A plugin process is configured once and serves one run.
* E4. Oracle rolls a lost session back, and has done so before anyone sees it.
* E5. The application's transactions commit cursors above all committed ones;
  within a transaction they may tie. With a sequence and concurrent
  transactions this does not hold, and `>` passes the late row over: the code
  cannot know, so this is a condition on the use of `cursor_column`. Run
  `pipeline_atomic` drops it, and shows that nothing else is lost with the late
  row.
* E6. `merge_key` is unique on the target (`destination.rs` lines 40-41). A key
  of several columns is NULL as soon as one column is; rows with one NULL part
  are modelled as having no key.
* E7. The engine runs one pipeline one run at a time, unless it died (`Orphans`).
  Its source and its target are for nobody else to write. An update gives a row a
  new cursor; rows are not deleted at the source (the query would not show it).
* E8. GitHub starts a run per pushed tag, on the tag's commit; `git push` without
  force is refused if `main` is not where it was; somebody repeats failed jobs.
  A tag is pushed once and neither moved nor deleted, and so are releases; `main` is
  not force-pushed, and only release jobs write `index.json`. Nothing is assumed about
  which commits are tagged, in which order, and which versions `main` goes through.

## 3. What the runs check

All runs take a minute or less; `names` is the largest with 2.7 million states,
then `release` with 1.9 and `pipeline_staged` with 0.5.
In the destination runs a load is started at most `MaxAttempts` times and then stays
off, and the runs of `ValueCrossing`, `Identifiers`, `ConnectConfig` and
`ReleaseWorkflow` come to an end, hence `CHECK_DEADLOCK FALSE`; source and
pipeline runs can always go on and check deadlock.

| Run | Instance | Shows |
|---|---|---|
| `dest_staged` | one staged load that updates, inserts, and has a row without a key, three starts, a target that gets a column in between | `TypeOK`, `TxnIsInputPrefix`, `FinalizeReportsWholeLoad`, `ReportedLoadIsDurable`, `ExactlyOnceEffective`, refinement of `AtomicLoad` (`EachLoadIsAtomic`) |
| `dest_two_staged` | two staged loads, the same two keys in opposite order, and a row without a key | `NoStandstill`, refinement, `WorkShrinks`, `EveryLoadSettles`, through ORA-00060, ORA-00001 and restarts of the MERGEs |
| `dest_deadlock` | the same of two atomic loads, on a unique target | `TxnIsInputPrefix`, refinement, `NoStandstill`, `EveryLoadSettles` through ORA-00060 |
| `source_reads` | four rows, exact cursors, ties, an update, an initial value, batches of two, two faults, runs for ever | `TypeOK`, `BatchesArePrefix`, `WatermarkIsHighest`, `ReadOnce`, `QueryFindsTheRest`, `EveryRowLands` |
| `pipeline_staged` | four versions of three rows, cursors finer than their text, NULL cursors (which only a run without a bound reads, so there is no initial value), two faults, runs for ever | `MergeNeverRefused`, `TargetIsCurrent`, `NoRowSkipped`, `WatermarkNeverBack`, `Converges` |
| `pipeline_atomic` | exact cursors, rows that commit below what was read, orphans, two faults | `NoRowSkipped`, `CopiesAreRepeats` |
| `values` | all `Supported` paths, columns altered meanwhile, nanoseconds, years before Christ, texts that are empty, long, a number, a truth value or a time, all sessions | `RoundTrip`, `SameMeaning` |
| `names` | six names in three pairs of cases; all queries, incoming and target tables of up to two columns; four cursors, four merge keys | `CursorIsTheWatermark`, `BindsFitTheirColumns`, `MergeWellFormed` |
| `connect_config` | all settings, both builds | `SessionsArePinned`, `WaitsNoLonger`, `TimeoutAsWritten` |
| `release` | three tags, of any commit and in any order, at once or one after the other, commits to `main` while its head is below `MaxCommits` = 2, one fault | `IndexNamesReleases`, `ManifestNotOlder`, `LatestIsNewest`, `SlimIsNewest`, `EntriesStay` |
| `values_stale_staging` | a staging table of the old type | violation of `RoundTrip`: finding 1 |
| `release_rerun` | one tag, commits on `main`, repeated jobs | violation of `ReleasedIsIndexed`: finding 2 |

Why the bounds are enough to be interesting. Batches are cut in every way,
empty ones included, so two or three rows give every position of a fault in a
batch. Two loads with two keys in opposite order are the smallest deadlock, of
INSERTs and of MERGEs, and the smallest overlapping MERGEs. Two or three starts let a load be repeated
after its COMMIT was applied and the answer lost. Four rows in batches of two,
committed one or two at a time, give short, full and several chunks, ties
inside and across chunks, and runs that read nothing. In the pipeline a row has
two versions, and two faults suffice for a commit without an answer followed by a
run that fails with the newer version in its hands. Three tags are the fewest of
which one cancels another that waits; two commits let `main` rise above a tag and go back
below it, and move between the checkout and the push of a job. (Beyond two only
release jobs commit.) A value needs no more than the two sides
of what is distinguished: a fraction that is, and one that is not, a whole number
of microseconds; two decimal characters, two time zones. The proofs (section 5)
remove the bounds for the safety properties and the action properties.

Each property has a mutant: a variant of one mapped definition, kept next to it
and marked `Mutant`, that makes the property fail.

### Findings

1. *Staging of the old type* (`values_stale_staging`). `destination.rs:145-146`
   says that the staging table "mirrors the target's shape". It is created once
   and reused for ever: a staging column that is still a DATE drops the fractions
   of a target that has become a TIMESTAMP, without an error. (A column that was
   added since makes the load fail instead; `dest_staged` has that case.)
2. *A release that cannot be indexed* (`release_rerun`). `release.yml:5-6`: "publish
   a GitHub Release ... and update index.json". After a rejected push the repeated
   job stops at `gh release create`, each time.

### Conditions of the properties

Each property is checked under the conditions that the code needs for it. Some of
these are narrower than what a comment of the code says, and worth knowing:

* `ExactlyOnceEffective`: of a row with a NULL key it says the contrary, that it is there
  once more with each commit. `destination.rs:24` says of `StagedMerge` "Idempotent by
  the key ⇒ exactly-once effective", but `t.k = s.k` is never true of NULL, so a
  repeated load inserts such rows again.
* `WatermarkIsHighest`: no NULL cursors, and `ORDER BY` sorts as `>` compares.
  `source.rs:249` says "the last row of this chunk carries the largest cursor value
  seen so far", but NULLs sort last and leave the watermark behind; and text is
  sorted by `NLS_SORT` and compared in binary, neither of which `connect` pins.
  Rows are read again then, and not lost: `NoRowSkipped` needs neither.
* `ReadOnce`, `CopiesAreRepeats`: the text of a cursor is exact (`Tick = 1`), and
  cursors are not NULL. `source.rs:17` says the source "resumes reading strictly
  after" the watermark, but a cursor finer than microseconds is above its own text.
* `TargetIsCurrent`, `Converges`: no orphans. The MERGE of a destination that
  outlives its engine can replace a newer version of a row by an older one, below
  the watermark. It cannot lose a row or double it (`NoRowLostOrDoubled`), nor does
  it make a later MERGE fail (`MergeRuns`). `Converges` needs E5 as well.
* `RoundTrip`: what the formats can hold (`Representable`). `types.rs:3-4` says
  that "precision is never lost", but `FF6` cuts TIMESTAMP(9), as the comment at
  `conn.rs:32` admits, `YYYY` makes a date before Christ one after, and Oracle
  takes an empty CLOB or RAW for NULL.
* `SameMeaning`: `Supported` paths, years after Christ (in the time zone of the
  session that reads the value), and no Arrow timestamp in UTC into a column
  with a time zone. That one is bound without an offset, and `TO_TIMESTAMP_TZ`
  takes the session's for it, although `types.rs:97-99` says that conversions
  never rely on the session. Such timestamps only come from other source
  plugins; this one reads such columns as text with an offset.
* `CursorIsTheWatermark`, `BindsFitTheirColumns`: of what Oracle accepts, and where
  no two columns differ in case only. `types.rs:305-307` says that catalog names
  "already arrive upper-cased", but `"id"` does not; it is read as `ID`, which fails
  or, if there is an `ID`, silently takes that.
* `TimeoutAsWritten`: to the second, and unless the multiplication of minutes, hours
  or days wraps in a release build. The documented "500ms" waits a second.
* `WaitsNoLonger`: a timeout that wraps may be shorter than was written, and one below
  a second is a second.
* `ManifestNotOlder`: not "of its tag's version", and only if no tag was ever ahead of
  `main`. The tag is checked against the tag's `Cargo.toml`, the manifest is made from
  that of `main`, which may be at a later version already; or still at an earlier one,
  if the tag was pushed before `main`, or on a branch, or `main` was reverted.
* `LatestIsNewest`, `SlimIsNewest`: the tags came in order, each after the runs of those
  before, and only the newest was run again. Otherwise the slower one wins, and nothing
  in the workflow orders them.
* `AtLeastOnce` (a theorem): a row with a key counts until a staged load that brings the
  same key is committed, which replaces it; the key stays.

## 4. Fairness

`OracleDestination`: weak fairness, per load, of `Progress`: the engine goes on
with a load it has started, the blocking client call returns once Oracle can
execute or has to refuse the statement, and the engine cancels a load that
failed. Faults, cancelling, crashing and starting a load are never fair. An
action is in `Progress` only with the condition under which it must come (a
statement that is doomed fails; it does not fail because it might).

`OracleSource`: weak fairness of `Run`, the engine's schedule, and of `Cancel`
after an error. Application commits and faults are not fair. `EveryRowLands`
relies on `MaxFaults`: a run is only finished if it is not disturbed for ever.

`Pipeline`: the same, of the steps of the pipeline (`PipelineFairness`); the
destination's commit is fair because `OracleDestination` shows that every load
settles. Application commits, faults and orphans are not.

`ReleaseWorkflow` (only for `release_rerun`): GitHub runs the jobs that are due,
with strong fairness for the release job, which waits for others again and again,
and somebody repeats what failed. That makes the finding stronger: even so
the version never gets into the index.

## 5. What is proved

TLAPS proves, for any number of loads, rows, keys, attempts and faults, and from
the named ASSUMEs of the modules alone:

| Theorem | Statement |
|---|---|
| `OracleDestinationProofs!TypeCorrect` | `Spec => []TypeOK` |
| `HoldsWhatItWrote` | `Spec => []TxnIsInputPrefix` |
| `ReportsWholeLoad` | `Spec => []FinalizeReportsWholeLoad` |
| `LoadIsAtomic` | `Spec => EachLoadIsAtomic`, the refinement of `AtomicLoad` |
| `ReportedIsDurable` | `Spec => []ReportedLoadIsDurable` |
| `NeverAtStandstill` | `Spec => []NoStandstill` |
| `LessToDo` | `Spec => WorkShrinks` |
| `MergeIdempotent` | a MERGE of the same rows a second time changes no row with a key |
| `ExactlyOnce` | `Spec => []ExactlyOnceEffective` |
| `AtLeastOnce` | `Spec => []EveryCommitCounts`: a row is there at least as often as it was brought by commits, exactly so often if one load brought it, until a staged load of the same key was committed; the keys of a committed load stay |
| `AtMostOnce` | `Spec => []NoSecondCommit`: on a unique target an atomic load with a key commits once |
| `KeysStayUnique` | `Spec => []UniqueRows(table)`, if there is a unique index and the keys are unique to begin with |
| `OracleSourceProofs!TypeCorrect` | `Spec => []TypeOK` |
| `BatchesAreTheResult` | `Spec => []BatchesArePrefix` |
| `SkipsNothing` | `Spec => []NoRowSkipped` |
| `QueryMissesNothing` | `Spec => QueryFindsTheRest` |
| `WatermarkProofs!NeverBack` | `Spec => WatermarkNeverBack` |
| `HighestIsLast` | `SortedAsCompared => (Spec => []WatermarkIsHighest)` |
| `ReadsOnce` | `SortedAsCompared /\ Tick = 1 => (Spec => []ReadOnce)` |
| `PipelineProofs!RunsAreTheSources` | `~Orphans => (PipelineSpec => Spec)`: each step is one of `OracleSource`, or changes none of its variables |
| `TargetFollows` | `~Orphans => (PipelineSpec => []TargetIsCurrent)` |
| `TargetMovesForward` | `~Orphans => (PipelineSpec => NeverOlder)`: in the merged target no row gets older or goes away |
| `MergeRuns` | `PipelineSpec => []MergeNeverRefused` |
| `NoRowLostOrDoubled` | `PipelineSpec => []OneVersionPerRow`: the merged target has each row that landed, once, in a version that landed, and nothing else |
| `OrphansHideNothing` | `PipelineSpec => QueryFindsTheRest` |
| `OrphansSkipNothing` | `PipelineSpec => []NoRowSkipped` |
| `OrphansNeverMoveBack` | `PipelineSpec => WatermarkNeverBack` |
| `CopiesAreOfRepeats` | `SortedAsCompared /\ Tick = 1 => (PipelineSpec => []CopiesAreRepeats)` |
| `ValueCrossingProofs!MeaningIsKept` | `(\A p \in Paths : Supported(p)) => (Spec => []SameMeaning)` |
| `ValuesRoundTrip` | `Spec => []RoundTrip`, if the staging column is as the target's wherever the column is of the value's type and was described so |
| `IdentifiersProofs!CursorFound` | `Spec => []CursorIsTheWatermark` |
| `BindsFit` | `Spec => []BindsFitTheirColumns` |
| `MergeFormed` | `Spec => []MergeWellFormed` |
| `ConnectConfigProofs!SessionsPinned` | `Spec => []SessionsArePinned` |
| `WaitBounded` | `Spec => []WaitsNoLonger` |
| `TimeoutKept` | `Spec => []TimeoutAsWritten` |
| `ReleaseWorkflowProofs!IndexIsPublished` | `Spec => []IndexNamesReleases` |
| `NoManifestIsOlder` | `Spec => []ManifestNotOlder` |
| `EntriesKept` | `Spec => EntriesStay` |
| `NewestIsLatest`, `NewestIsSlim` | `Spec => []LatestIsNewest`, `Spec => []SlimIsNewest` |

`EveryCommitCounts`, `NoSecondCommit`, `UniqueRows`, `OneVersionPerRow` and
`NeverOlder` are stated in the modules of the proofs, next to the invariants they
need, and are not among the properties of the runs.

*Destination.* The inductive invariant is `LoadInv`. `TxnIsInputPrefix` says what
an open session holds, and is nearly enough; refinement also needs to know that
what COMMIT applies is still right when it is applied. `CommitsWholeLoad` says
so for a load in `committing`: its `removes` and `adds` are the effect of the
whole load on the table as it is *now*. Another load's commit preserves it
because sessions never hold the same key (`LocksExclusive`, of uncommitted rows and of
what a running MERGE has locked) and because the rows
a MERGE removes have keys it adds (`RemovedAreReplaced`). `LockedAsRead` is the same of
a MERGE at work: the rows of the keys it has locked are still as it read them, so
that with its last lock its effect is that on the table as it is now. `ProcessInv` ties the
plugin's fields to its phase, above all that `mergeSql` is set whenever rows are
staged. Durability follows because no step removes a key from the table without
adding it; exactly-once from `MergeIdempotent` along the refinement.

*How often a load counts.* An atomic load is "at-least-once" (`destination.rs:22`),
and `EveryCommitCounts` says how much more than once: each commit, with or without an
answer, adds all its rows, and they stay until a staged load that brings the same key
is committed and replaces them; the key is there even then. A row without a key is
never replaced, and those of a staged load are no better off than an atomic load's. A unique index makes it once:
what an open session has inserted is new to the table, and stays so until its COMMIT,
because every other session with one of its keys waits (`HeldKeysAreNew`); but what
was committed once stays (`DurableInv`), so a load that is repeated cannot insert its
first key, and `NoSecondCommit` follows. The same invariant, `UniqueInv`, says of
a staged load about to commit that its MERGE would be accepted by the table as it is
now. An accepted MERGE and an insert of new keys both leave one row per key, so that
E6, which the MERGE relies on, is not undone by the loads themselves.

*No standstill.* `EveryLoadSettles` is beyond the prover, but what it rests on is
not. `NoStandstill` says that of loads that wait for none but each other one can go
on. A load that cannot go on waits in its array DML or in its MERGE (`StuckWaits`),
and whoever it waits for holds a key. A settled load holds nothing any more
(`SettledInv`), so that one is not settled either (`HolderWorks`). If none of the group
could go on, they would all be part of one circle, each holding what another needs,
which is what ORA-00060 breaks (`SomeCanGo`). `WorkShrinks` gives each load a bound on
the steps that it still takes, at most 5 + 4 * Len(Input) to begin with: three for a row
that has yet to be sent, one for a key that has yet to be locked. No fault raises it,
and another load only by a COMMIT that changes a row that a running MERGE has read
(`NeverMore`); it then starts again once, which `StepsLeft` has counted as soon as the
row was changed (`MergeStepsFall`). As a load commits once per start, restarts come to
an end. What is left to TLC is fairness: that a load that can go on does
(`EveryLoadSettles`).

*Source.* `NoRowSkipped` speaks of the persisted watermark, but what makes it
true happens earlier: `QueryInv` says of every committed row that it is in the
buffer, at or below the bound of the query, without a cursor, or above all rows
of the buffer; it is established by the query and preserved by the
application's commits. `WatermarkInv` says that a watermark is at or below the
cursor of a row that is there, since text is cut down and never up. At
`Persist` the two leave no room for a row at or below the new watermark that
has not landed. `QueryFindsTheRest` is the converse, and the part of `EveryRowLands`
that is no matter of fairness: what a query leaves out is at or below its bound, which
is the persisted watermark, so that `NoRowSkipped` applies; with `BatchesArePrefix`
a run that ends without a fault leaves nothing behind that its query could see.

*Watermarks.* `ForwardInv` says that what a run buffers lies above the watermark it
resumed from, and that this watermark is itself a text, so that the text of
anything above it is not below it (`TextFollows`): `last` cannot fall behind
`resume`, which is what is persisted. This needs no order of the buffer. The other
two do: `SortedAsCompared` says that no cursor is NULL and that ORDER BY ranks
cursors as `>` compares them. Then the watermark is the text of the highest row
handed out, and with exact text (`Tick = 1`) everything that landed in a run
that persisted is at or below the persisted watermark (`LandedIsBelow`), where no
later query looks. Section 3 says what happens without these conditions.

*Pipeline.* With orphans, the pipeline takes steps that no source takes: a commit
that nobody waits for. It only adds to what landed, and reports nothing, so that the
invariants of the source survive it (`OrphanCommits`); an engine that dies is a
`Crash` to the source. `OrphanInv` collects them, and adds that neither the buffer
nor the orphan holds two versions of a row, because a query finds each row once.
That is all that a MERGE needs to be accepted (`MergeIsAccepted`), and to leave of
each row it brings that version alone (`MergeReplaces`). `VersionInv` follows: the
target holds, of each row that landed, exactly one version, which landed, and nothing
else. `CopiesAreRepeats`, of atomic loads, survives as well, since what an orphan
lands is never taken for persisted.

`TargetIsCurrent` does not: an orphan's MERGE can put an older version back. Without
orphans a pipeline takes only steps of `OracleSource` (`RunsAreTheSources`), and
`PipelineInv` adds that the version in the target is the newest that landed. A MERGE
preserves it because a query finds a row in its newest version as of the query, which
is at least as new as what landed before (`QueryIsNewest`). With `NoRowSkipped`
the newest version of a row up to the watermark has landed; and above the watermark
too the target only moves forward (`NeverOlder`).

*Values.* `CrossInv` says of each place on the way that the value is there what the
definitions make of the value that was read, the path and the two sessions, and
that each of them is a value of the type it should have there. Both properties are
then facts about functions. They rest on what becomes of a text: what `Rendered`
writes in a format `Fits` that format and is `Parsed` back to the same time, up to
microseconds (`TimeIsKept`), and a text that came as a text is stored as it is, or
as the number, truth value or time that it says (`TextIsKept`). One lemma per Arrow
type says what its bind is. `MeaningIsKept` is about `Supported` paths.
`ValuesRoundTrip` assumes what `prepare` claims, that the staging table mirrors the
target; finding 1 is a state that the theorem excludes by that hypothesis alone.

*Identifiers.* The state of each phase is a function of what was given, and
the invariant says which. The theorems then rest on two facts about names: two
names are folded alike exactly if they are quoted alike, and names that are
quoted alike have the same upper-case form.

*Connection.* A descriptor's timeout is that of an accepted setting (`Described`), and
the case 0 is taken care of after the multiplication, so that a product that wraps
to 0 is 1 too.

*Release.* `JobsInOrder` says what a job that has come so far has behind it;
`TreeIsBehind`, that a job's checkout is `main`, or older than `main`. A push
is accepted only in the first case, so that it replaces what it was made from.
`VersionsRise` follows a version from a tag's commit over `main` to a checkout, if no
tag was ahead of `main`.
`NewestWorks` says that without overlap a job at work is that of the newest tag.

Only model-checked: liveness (`EveryLoadSettles`, `EveryRowLands`, `Converges`), since
fairness is beyond the prover.

## 6. Not modelled, and the plan

Done: `MergeStatement`, `AtomicLoad`, `OracleDestination`; `OracleSource`;
`Pipeline`; `ValueCrossing`; `Identifiers`; `ConnectConfig`; `ReleaseWorkflow`.

Nothing of the plan is left but what is left out for good: two target tables with
one staging table's name, which takes a collision of 32-bit hashes
(`destination.rs:251-259`). To a load it is a staging table of a foreign shape,
and that is modelled: `dest_staged` has one that lacks a column, and
`values_stale_staging` one of another type (finding 1).

Also left out: SQL text, Arrow buffers, logging. The binaries, the image, lab and
tests, which have no behaviour of their own. A source without `incremental`, which is
`OracleSource` with one run and no watermark. Calls that the engine does not make: a
plugin object configured twice (E3), a `write_batch` after a failed one (E1). An
empty `initial_value`, which Oracle takes for NULL, so that no row is ever selected.
In `ValueCrossing`: INTERVAL columns, the texts of special and of very long floats,
rows shorter than their schema, dates outside chrono's range, conversions under
`NLS_DATE_FORMAT`. In `ReleaseWorkflow`: the artifacts that expire after a day, the
contents of archives and checksums.
