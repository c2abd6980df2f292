----------------------------- MODULE Migrations -----------------------------
(* persistence/migrationRunner.ts over withTransaction of persistence/db.ts:
   several runs of `npm run migrate`, some of them of an older image, against
   one database. A migration is its number; its statements create tables and
   indexes IF NOT EXISTS. *)
EXTENDS Naturals, Sequences, Functions

CONSTANTS Runners,
    MigrationLists,     \* the MIGRATIONS an image may hold, and ill-formed ones
    MaxQueryFailures, MaxRunnerCrashes

\* assertWellFormedMigrations: no duplicates, ascending.
WellFormed(list) == \A i, j \in DOMAIN list : i < j => list[i] < list[j]

\* A migration once released is never changed or removed: newer images append.
ASSUME MigrationsAssumption ==
    /\ MigrationLists \subseteq Seq(Nat)
    /\ \A one, other \in MigrationLists : WellFormed(one) /\ WellFormed(other) =>
           \A i \in (DOMAIN one) \intersect (DOMAIN other) : one[i] = other[i]
    /\ MaxQueryFailures \in Nat /\ MaxRunnerCrashes \in Nat

VARIABLES
    schema,         \* the migrations whose statements are committed
    recorded,       \* the committed rows of schema_migrations
    runners,
    mishaps         \* counts that only bound the model

migrationVars == << schema, recorded, runners, mishaps >>

\* appliedIds: the rows read; position: the place in the list the loop is at;
\* reported: newlyApplied; executed: the statements the open transaction has executed.
Runner(phase, list) ==
    [phase |-> phase, list |-> list, appliedIds |-> {}, position |-> 1, reported |-> {},
     executed |-> {}]

NotStarted == Runner("idle", << >>)

\* The migration a run is at.
Current(runner) == runner.list[runner.position]

MigrationsInit ==
    /\ schema = {}
    /\ recorded = {}
    /\ runners = [r \in Runners |-> NotStarted]
    /\ mishaps = [failures |-> 0, crashes |-> 0]

Become(r, runner) == runners' = [runners EXCEPT ![r] = runner]

\* npm run migrate, also again after a failure: an ill-formed list is refused
\* before the database is touched.
RunMigrations(r, list) ==
    /\ runners[r].phase \in { "idle", "failed" }
    /\ Become(r, Runner(IF WellFormed(list) THEN "reading" ELSE "failed", list))
    /\ UNCHANGED << schema, recorded, mishaps >>

\* SELECT id FROM schema_migrations, after CREATE TABLE IF NOT EXISTS.
ReadApplied(r) ==
    /\ runners[r].phase = "reading"
    /\ Become(r, [runners[r] EXCEPT !.phase = "next", !.appliedIds = recorded])
    /\ UNCHANGED << schema, recorded, mishaps >>

\* The end of the run, a migration that is not pending, or BEGIN.
BeginNext(r) ==
    LET runner == runners[r] IN
    /\ runner.phase = "next"
    /\ \/ /\ runner.position > Len(runner.list)
          /\ Become(r, [runner EXCEPT !.phase = "done"])
       \/ /\ runner.position <= Len(runner.list)
          /\ Current(runner) \in runner.appliedIds
          /\ Become(r, [runner EXCEPT !.position = @ + 1])
       \/ /\ runner.position <= Len(runner.list)
          /\ Current(runner) \notin runner.appliedIds
          /\ Become(r, [runner EXCEPT !.phase = "open"])
    /\ UNCHANGED << schema, recorded, mishaps >>

\* The new table's and the new row's unique keys make a second transaction on
\* the same migration wait for the first one's end.
Blocked(r) ==
    \E other \in Runners \ {r} :
        runners[other].executed # {} /\ Current(runners[other]) = Current(runners[r])

\* The statements outside the transaction.
ExecuteSqlAtOnce(r) ==
    /\ runners[r].phase = "open" /\ runners[r].executed = {} /\ ~Blocked(r)
    /\ Become(r, [runners[r] EXCEPT !.executed = {"sql"}])
    /\ schema' = schema \union { Current(runners[r]) }
    /\ UNCHANGED << recorded, mishaps >>

\* up runs in the transaction.
ExecuteSql(r) ==
    /\ runners[r].phase = "open" /\ runners[r].executed = {} /\ ~Blocked(r)
    /\ Become(r, [runners[r] EXCEPT !.executed = {"sql"}])
    /\ UNCHANGED << schema, recorded, mishaps >>

\* INSERT INTO schema_migrations: a row that another run has committed since
\* the list was read violates the primary key, and the transaction rolls back.
InsertRow(r) ==
    LET runner == runners[r] IN
    /\ runner.phase = "open" /\ runner.executed = {"sql"}
    /\ Become(r, IF Current(runner) \in recorded
                 THEN [runner EXCEPT !.phase = "failed", !.executed = {}]
                 ELSE [runner EXCEPT !.executed = {"sql", "row"}])
    /\ UNCHANGED << schema, recorded, mishaps >>

CommitEffect(r) ==
    /\ runners[r].phase = "open" /\ runners[r].executed = {"sql", "row"}
    /\ schema' = schema \union { Current(runners[r]) }
    /\ recorded' = recorded \union { Current(runners[r]) }

Applied(runner) ==
    [runner EXCEPT !.phase = "next", !.position = @ + 1, !.executed = {},
                   !.reported = @ \union { Current(runner) }]

Commit(r) ==
    /\ CommitEffect(r)
    /\ Become(r, Applied(runners[r]))
    /\ UNCHANGED mishaps

Mishap(count, limit) ==
    /\ mishaps[count] < limit
    /\ mishaps' = [mishaps EXCEPT ![count] = @ + 1]

\* COMMIT has executed, but its reply is lost: ROLLBACK finds nothing to undo
\* and the run reports failure.
CommitReplyLost(r) ==
    /\ CommitEffect(r)
    /\ Become(r, [runners[r] EXCEPT !.phase = "failed", !.executed = {}])
    /\ Mishap("failures", MaxQueryFailures)

\* The transaction is left open on its connection.
QueryFailsOpen(r) ==
    /\ runners[r].phase \in { "reading", "open" }
    /\ Become(r, [runners[r] EXCEPT !.phase = "failed"])
    /\ Mishap("failures", MaxQueryFailures)
    /\ UNCHANGED << schema, recorded >>

\* Any query is refused, COMMIT included, or two CREATE TABLE collide in the
\* catalog: withTransaction rolls back and rethrows, main sets the exit code.
QueryFails(r) ==
    /\ runners[r].phase \in { "reading", "open" }
    /\ Become(r, [runners[r] EXCEPT !.phase = "failed", !.executed = {}])
    /\ Mishap("failures", MaxQueryFailures)
    /\ UNCHANGED << schema, recorded >>

\* The process dies; the database ends its transaction.
RunnerCrashes(r) ==
    /\ runners[r].phase \in { "reading", "next", "open" }
    /\ Become(r, NotStarted)
    /\ Mishap("crashes", MaxRunnerCrashes)
    /\ UNCHANGED << schema, recorded >>

RunnerStep(r) ==
    \/ ReadApplied(r) \/ BeginNext(r) \/ ExecuteSql(r) \/ InsertRow(r) \/ Commit(r)
    \/ CommitReplyLost(r) \/ QueryFails(r)

MigrationsNext ==
    \E r \in Runners :
        \/ \E list \in MigrationLists : RunMigrations(r, list)
        \/ RunnerStep(r)
        \/ RunnerCrashes(r)

MigrationsSpec == MigrationsInit /\ [][MigrationsNext]_migrationVars
----------------------------------------------------------------------------
\* At every moment, and so after any crash, the database holds exactly the
\* migrations it has recorded, and they are the first ones of every image's
\* list: no migration is "half-applied-but-unrecorded, or recorded-but-not-
\* applied" (migrationRunner.ts), none overtakes an earlier one.
SchemaIsARecordedPrefix ==
    /\ schema = recorded
    /\ \A r \in Runners : WellFormed(runners[r].list) =>
           \A i \in DOMAIN runners[r].list :
               runners[r].list[i] \in schema => \A j \in 1 .. i : runners[r].list[j] \in schema

\* A run that reports success leaves nothing of its list to apply, and no two
\* runs report to have applied the same migration, however they interleave.
MigrationReportsAreTrue ==
    \A r \in Runners :
        /\ runners[r].phase = "done" => Range(runners[r].list) \subseteq schema
        /\ \A other \in Runners \ {r} :
               runners[r].reported \intersect runners[other].reported = {}

\* The database and the reports of the runs tell of the same migrations.
MigrationsAreAccountedFor == SchemaIsARecordedPrefix /\ MigrationReportsAreTrue

\* A run that nothing disturbs any more ends, whatever an earlier one left
\* behind: no transaction waits for ever for another one's.
MigrationFairness == \A r \in Runners : WF_migrationVars(RunnerStep(r))

EveryRunEnds ==
    \A r \in Runners :
        runners[r].phase = "reading" ~> runners[r].phase \in { "idle", "done", "failed" }
=============================================================================
