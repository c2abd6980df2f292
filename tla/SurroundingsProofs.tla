-------------------------- MODULE SurroundingsProofs --------------------------
(***************************************************************************)
(* Proofs about the parts around the pipeline in which several actors      *)
(* meet, for any number of them and any bounds: migrations (what the       *)
(* database holds, what it records and what the runs report agree), paged  *)
(* reads of the evidence ledger, the timeline of the reviewer's page, the  *)
(* counts that the client agent reports, and the routing of sessions over  *)
(* replicas (what a release may delete, whose a session stays, and that    *)
(* the ring's binary search finds the nearest node).                       *)
(***************************************************************************)
EXTENDS SessionRouting, Migrations, EvidenceLedger, ReviewConsole, ClientAgent,
        OperatorLemmas, SequenceTheorems, TLAPS

-----------------------------------------------------------------------------
(* Migrations *)

Phases == { "idle", "reading", "next", "open", "done", "failed" }

RunnerRecords ==
    [phase : Phases, list : MigrationLists \union { << >> }, appliedIds : SUBSET Nat,
     position : Nat \ {0}, reported : SUBSET Nat, executed : SUBSET { "sql", "row" }]

\* A run has left nothing unapplied behind its position; only an open
\* transaction has executed anything, and it has inserted its row only if that
\* row is not committed.
Sound(runner, rows) ==
    /\ runner.phase \in { "reading", "next", "open", "done" } => WellFormed(runner.list)
    /\ runner.phase = "reading" => runner.position = 1
    /\ runner.phase \in { "next", "open", "done" } =>
           /\ runner.appliedIds \subseteq rows
           /\ runner.position <= Len(runner.list) + 1
           /\ \A j \in 1 .. runner.position - 1 : runner.list[j] \in rows
    /\ runner.phase = "open" => runner.position <= Len(runner.list)
    /\ runner.phase = "done" => runner.position = Len(runner.list) + 1
    /\ runner.executed # {} => runner.phase = "open"
    /\ "row" \in runner.executed => Current(runner) \notin rows
    /\ runner.reported \subseteq rows

\* Two runs are never inside the same migration, and report different ones.
Apart(one, other) ==
    /\ one.executed # {} /\ other.executed # {} => Current(one) # Current(other)
    /\ one.reported \intersect other.reported = {}

\* The recorded migrations are the first ones of every image's list.
RecordedPrefix ==
    \A list \in MigrationLists : WellFormed(list) =>
        \A i \in DOMAIN list : list[i] \in recorded => \A j \in 1 .. i : list[j] \in recorded

MInv ==
    /\ schema = recorded
    /\ recorded \subseteq Nat
    /\ RecordedPrefix
    /\ runners \in [Runners -> RunnerRecords]
    /\ \A r \in Runners : Sound(runners[r], recorded)
    /\ \A r, other \in Runners : r # other => Apart(runners[r], runners[other])

-----------------------------------------------------------------------------
\* A list is a sequence of numbers, so what it holds at a place is a number.
LEMMA ListsAreSequences ==
    \A list \in MigrationLists \union { << >> } :
        /\ list \in Seq(Nat)
        /\ Len(list) \in Nat
        /\ DOMAIN list = 1 .. Len(list)
        /\ \A i \in 1 .. Len(list) : list[i] \in Nat
<1> SUFFICES ASSUME NEW list \in MigrationLists \union { << >> }
             PROVE  /\ list \in Seq(Nat)
                    /\ Len(list) \in Nat
                    /\ DOMAIN list = 1 .. Len(list)
                    /\ \A i \in 1 .. Len(list) : list[i] \in Nat
  OBVIOUS
<1>1. list \in Seq(Nat)
  <2>1. CASE list = << >>
    BY <2>1
  <2>2. CASE list \in MigrationLists
    BY <2>2, MigrationsAssumption
  <2> QED
    BY <2>1, <2>2
<1> QED
  BY <1>1

\* A step in which one run moves, and the database stays as it is, keeps the
\* invariant if the run's new state is sound and apart from the others.
LEMMA OneRunMoves ==
    ASSUME MInv, UNCHANGED << schema, recorded >>,
           NEW r \in Runners, NEW runner \in RunnerRecords, Become(r, runner),
           Sound(runner, recorded),
           \A other \in Runners \ {r} : Apart(runner, runners[other])
    PROVE  MInv'
<1>1. schema' = recorded' /\ recorded' \subseteq Nat /\ RecordedPrefix'
  BY DEF MInv, RecordedPrefix
<1>2. runners' \in [Runners -> RunnerRecords]
  BY DEF MInv, Become
<1>3. \A s \in Runners : runners'[s] = IF s = r THEN runner ELSE runners[s]
  BY DEF MInv, Become
<1>4. \A s \in Runners : Sound(runners[s], recorded)'
  BY <1>3 DEF MInv, Sound, Current
<1>5. \A s, other \in Runners : s # other => Apart(runners[s], runners[other])'
  <2> SUFFICES ASSUME NEW s \in Runners, NEW other \in Runners, s # other
               PROVE  Apart(runners'[s], runners'[other])
    BY DEF Apart, Current
  <2>1. CASE s = r
    BY <2>1, <1>3
  <2>2. CASE other = r
    BY <2>2, <1>3 DEF Apart
  <2>3. CASE s # r /\ other # r
    BY <2>3, <1>3 DEF MInv
  <2> QED
    BY <2>1, <2>2, <2>3
<1> QED
  BY <1>1, <1>2, <1>4, <1>5 DEF MInv

\* Before any run there is nothing to disagree.
LEMMA Initial == MigrationsInit => MInv
<1> SUFFICES ASSUME MigrationsInit PROVE MInv
  OBVIOUS
<1>1. NotStarted \in RunnerRecords
  BY DEF NotStarted, Runner, RunnerRecords, Phases
<1>2. Sound(NotStarted, recorded)
  BY DEF MigrationsInit, NotStarted, Runner, Sound
<1>3. Apart(NotStarted, NotStarted)
  BY DEF NotStarted, Runner, Apart
<1>4. RecordedPrefix
  BY DEF MigrationsInit, RecordedPrefix
<1> QED
  BY <1>1, <1>2, <1>3, <1>4 DEF MigrationsInit, MInv

\* Starting a run.
LEMMA RunMigrationsKeeps ==
    ASSUME MInv, NEW r \in Runners, NEW list \in MigrationLists, RunMigrations(r, list)
    PROVE  MInv'
<1> DEFINE runner == Runner(IF WellFormed(list) THEN "reading" ELSE "failed", list)
<1>1. runner \in RunnerRecords
  BY DEF Runner, RunnerRecords, Phases
<1>2. Sound(runner, recorded)
  BY DEF Sound, Runner
<1>3. \A other \in Runners \ {r} : Apart(runner, runners[other])
  BY DEF Apart, Runner
<1>4. Become(r, runner) /\ UNCHANGED << schema, recorded >>
  BY DEF RunMigrations
<1> QED
  BY <1>1, <1>2, <1>3, <1>4, OneRunMoves

\* Reading the applied list (SELECT id FROM schema_migrations).
LEMMA ReadAppliedKeeps ==
    ASSUME MInv, NEW r \in Runners, ReadApplied(r) PROVE MInv'
<1> DEFINE runner == [runners[r] EXCEPT !.phase = "next", !.appliedIds = recorded]
<1>0. runners[r] \in RunnerRecords /\ Sound(runners[r], recorded)
  BY DEF MInv
<1>1. runner \in RunnerRecords
  BY <1>0 DEF MInv, RunnerRecords, Phases
<1>2. Sound(runner, recorded)
  <2>1. runner.position = 1 /\ runner.phase = "next" /\ runner.appliedIds = recorded
    BY <1>0 DEF Sound, ReadApplied, RunnerRecords
  <2>2. Len(runner.list) \in Nat
    BY <1>1, ListsAreSequences DEF RunnerRecords
  <2>3. 1 <= Len(runner.list) + 1 /\ 1 .. runner.position - 1 = {}
    BY <2>1, <2>2
  <2> QED
    BY <1>0, <2>1, <2>3 DEF Sound, ReadApplied, RunnerRecords, Current
<1>3. \A other \in Runners \ {r} : Apart(runner, runners[other])
  BY <1>0 DEF MInv, Apart, RunnerRecords, Current
<1>4. Become(r, runner) /\ UNCHANGED << schema, recorded >>
  BY DEF ReadApplied
<1> QED
  BY <1>1, <1>2, <1>3, <1>4, OneRunMoves

\* The loop over pending: past the end, over an applied migration, or BEGIN.
LEMMA BeginNextKeeps ==
    ASSUME MInv, NEW r \in Runners, BeginNext(r) PROVE MInv'
<1> DEFINE before == runners[r]
<1>0. /\ before \in RunnerRecords /\ Sound(before, recorded) /\ before.phase = "next"
      /\ Len(before.list) \in Nat /\ before.position \in Nat \ {0}
      /\ before.executed = {}
      /\ UNCHANGED << schema, recorded >>
  BY ListsAreSequences DEF MInv, RunnerRecords, BeginNext, Sound
<1>1. CASE before.position > Len(before.list) /\ Become(r, [before EXCEPT !.phase = "done"])
  <2> DEFINE runner == [before EXCEPT !.phase = "done"]
  <2>1. runner \in RunnerRecords
    BY <1>0 DEF RunnerRecords, Phases
  <2>2. Sound(runner, recorded)
    BY <1>0, <1>1 DEF Sound, RunnerRecords
  <2>3. \A other \in Runners \ {r} : Apart(runner, runners[other])
    BY <1>0 DEF MInv, Apart, RunnerRecords
  <2>4. Become(r, runner)
    BY <1>1
  <2> QED
    BY <1>0, <2>1, <2>2, <2>3, <2>4, OneRunMoves
<1>2. CASE /\ before.position <= Len(before.list) /\ Current(before) \in before.appliedIds
           /\ Become(r, [before EXCEPT !.position = @ + 1])
  <2> DEFINE runner == [before EXCEPT !.position = @ + 1]
  <2>1. runner \in RunnerRecords
    BY <1>0 DEF RunnerRecords, Phases
  <2>2. Sound(runner, recorded)
    <3>1. /\ runner.phase = "next" /\ runner.list = before.list
          /\ runner.position = before.position + 1 /\ runner.executed = {}
          /\ runner.appliedIds = before.appliedIds /\ runner.reported = before.reported
      BY <1>0 DEF RunnerRecords
    <3>2. \A j \in 1 .. runner.position - 1 : j = before.position \/ j \in 1 .. before.position - 1
      BY <1>0, <3>1
    <3>3. before.list[before.position] \in recorded
      BY <1>0, <1>2 DEF Sound, Current
    <3>4. \A j \in 1 .. runner.position - 1 : runner.list[j] \in recorded
      BY <1>0, <3>1, <3>2, <3>3 DEF Sound
    <3> QED
      BY <1>0, <1>2, <3>1, <3>4 DEF Sound
  <2>3. \A other \in Runners \ {r} : Apart(runner, runners[other])
    BY <1>0 DEF MInv, Apart, RunnerRecords
  <2>4. Become(r, runner)
    BY <1>2
  <2> QED
    BY <1>0, <2>1, <2>2, <2>3, <2>4, OneRunMoves
<1>3. CASE /\ before.position <= Len(before.list)
           /\ Become(r, [before EXCEPT !.phase = "open"])
  <2> DEFINE runner == [before EXCEPT !.phase = "open"]
  <2>1. runner \in RunnerRecords
    BY <1>0 DEF RunnerRecords, Phases
  <2>2. Sound(runner, recorded)
    BY <1>0, <1>3 DEF Sound, RunnerRecords
  <2>3. \A other \in Runners \ {r} : Apart(runner, runners[other])
    BY <1>0 DEF MInv, Apart, RunnerRecords
  <2>4. Become(r, runner)
    BY <1>3
  <2> QED
    BY <1>0, <2>1, <2>2, <2>3, <2>4, OneRunMoves
<1> QED
  BY <1>1, <1>2, <1>3 DEF BeginNext

\* A run that enters a migration finds no other run in it.
LEMMA ExecuteSqlKeeps ==
    ASSUME MInv, NEW r \in Runners, ExecuteSql(r) PROVE MInv'
<1> DEFINE runner == [runners[r] EXCEPT !.executed = {"sql"}]
<1>0. runners[r] \in RunnerRecords /\ Sound(runners[r], recorded) /\ runners[r].phase = "open"
  BY DEF MInv, ExecuteSql
<1>1. runner \in RunnerRecords
  BY <1>0 DEF RunnerRecords
<1>2. Sound(runner, recorded)
  BY <1>0 DEF Sound, RunnerRecords
<1>3. \A other \in Runners \ {r} : Apart(runner, runners[other])
  <2>1. Current(runner) = Current(runners[r]) /\ runner.reported = runners[r].reported
    BY <1>0 DEF Current, RunnerRecords
  <2> QED
    BY <2>1 DEF MInv, Apart, ExecuteSql, Blocked
<1>4. Become(r, runner) /\ UNCHANGED << schema, recorded >>
  BY DEF ExecuteSql
<1> QED
  BY <1>1, <1>2, <1>3, <1>4, OneRunMoves

\* A run that fails, or whose process dies, leaves a sound run behind.
LEMMA FailureIsSound ==
    ASSUME MInv, NEW r \in Runners
    PROVE  LET runner == [runners[r] EXCEPT !.phase = "failed", !.executed = {}]
           IN /\ runner \in RunnerRecords /\ Sound(runner, recorded)
              /\ \A other \in Runners \ {r} : Apart(runner, runners[other])
<1> DEFINE runner == [runners[r] EXCEPT !.phase = "failed", !.executed = {}]
<1>0. runners[r] \in RunnerRecords /\ Sound(runners[r], recorded)
  BY DEF MInv
<1>1. runner \in RunnerRecords
  BY <1>0 DEF RunnerRecords, Phases
<1>2. Sound(runner, recorded)
  BY <1>0 DEF Sound, RunnerRecords
<1>3. \A other \in Runners \ {r} : Apart(runner, runners[other])
  BY <1>0 DEF MInv, Apart, RunnerRecords
<1> QED
  BY <1>1, <1>2, <1>3

\* The bookkeeping insert: inserted, or refused as already committed.
LEMMA InsertRowKeeps ==
    ASSUME MInv, NEW r \in Runners, InsertRow(r) PROVE MInv'
<1> DEFINE runner == [runners[r] EXCEPT !.executed = {"sql", "row"}]
<1>0. /\ runners[r] \in RunnerRecords /\ Sound(runners[r], recorded)
      /\ runners[r].phase = "open" /\ runners[r].executed = {"sql"}
      /\ UNCHANGED << schema, recorded >>
  BY DEF MInv, InsertRow
<1>1. CASE Current(runners[r]) \in recorded
  BY <1>0, <1>1, FailureIsSound, OneRunMoves DEF InsertRow
<1>2. CASE Current(runners[r]) \notin recorded
  <2>1. runner \in RunnerRecords
    BY <1>0 DEF RunnerRecords
  <2>2. Current(runner) = Current(runners[r]) /\ runner.reported = runners[r].reported
    BY <1>0 DEF Current, RunnerRecords
  <2>3. Sound(runner, recorded)
    BY <1>0, <1>2, <2>2 DEF Sound, RunnerRecords
  <2>4. \A other \in Runners \ {r} : Apart(runner, runners[other])
    BY <1>0, <2>2 DEF MInv, Apart
  <2>5. Become(r, runner)
    BY <1>2 DEF InsertRow
  <2> QED
    BY <1>0, <2>1, <2>3, <2>4, <2>5, OneRunMoves
<1> QED
  BY <1>1, <1>2

\* A committed row is the next one of its run's list, so it leaves no gap in
\* any image's list: the lists that reach its place have the same row there.
LEMMA CommittedRow ==
    ASSUME MInv, NEW r \in Runners, CommitEffect(r)
    PROVE  /\ runners[r] \in RunnerRecords /\ Sound(runners[r], recorded)
           /\ Current(runners[r]) \in Nat \ recorded
           /\ runners[r].list \in MigrationLists
           /\ runners[r].position \in 1 .. Len(runners[r].list)
           /\ schema' = recorded' /\ recorded' = recorded \union { Current(runners[r]) }
<1>1. /\ runners[r] \in RunnerRecords /\ Sound(runners[r], recorded)
      /\ runners[r].phase = "open" /\ runners[r].executed = { "sql", "row" }
  BY DEF MInv, CommitEffect
<1>2. /\ Len(runners[r].list) \in Nat /\ runners[r].position \in Nat \ {0}
      /\ runners[r].list \in MigrationLists \union { << >> }
      /\ \A i \in 1 .. Len(runners[r].list) : runners[r].list[i] \in Nat
  BY <1>1, ListsAreSequences DEF RunnerRecords
<1>3. runners[r].position \in 1 .. Len(runners[r].list)
  BY <1>1, <1>2 DEF Sound
<1>4. runners[r].list # << >>
  BY <1>3
<1>5. Current(runners[r]) \in Nat \ recorded
  BY <1>1, <1>2, <1>3 DEF Sound, Current
<1>6. schema' = recorded' /\ recorded' = recorded \union { Current(runners[r]) }
  BY DEF MInv, CommitEffect
<1> QED
  BY <1>1, <1>2, <1>3, <1>4, <1>5, <1>6

\* Two well-formed lists agree where both have a place.
LEMMA SamePlaces ==
    ASSUME NEW one \in MigrationLists, NEW other \in MigrationLists,
           WellFormed(one), WellFormed(other)
    PROVE  \A k \in 1 .. Len(one) : k \in 1 .. Len(other) => one[k] = other[k]
<1> SUFFICES ASSUME NEW k \in 1 .. Len(one), k \in 1 .. Len(other)
             PROVE  one[k] = other[k]
  OBVIOUS
<1>1. k \in (DOMAIN one) \intersect (DOMAIN other)
  BY ListsAreSequences
<1> QED
  BY <1>1, MigrationsAssumption

\* So a commit keeps the recorded migrations a prefix of every list.
LEMMA CommitKeepsPrefix ==
    ASSUME MInv, NEW r \in Runners, CommitEffect(r)
    PROVE  RecordedPrefix'
<1> DEFINE own == runners[r].list
           place == runners[r].position
<1>0. /\ own \in MigrationLists /\ place \in 1 .. Len(own) /\ Len(own) \in Nat
      /\ DOMAIN own = 1 .. Len(own)
      /\ own[place] \notin recorded /\ recorded' = recorded \union { own[place] }
      /\ WellFormed(own)
      /\ \A j \in 1 .. place - 1 : own[j] \in recorded
  <2>1. runners[r].phase = "open"
    BY DEF CommitEffect
  <2> QED
    BY <2>1, CommittedRow, ListsAreSequences DEF Sound, Current
<1> SUFFICES ASSUME NEW list \in MigrationLists, WellFormed(list),
                    NEW i \in DOMAIN list, list[i] \in recorded', NEW j \in 1 .. i
             PROVE  list[j] \in recorded'
  BY DEF RecordedPrefix, WellFormed
<1>1. /\ Len(list) \in Nat /\ DOMAIN list = 1 .. Len(list)
      /\ \A k \in 1 .. Len(list) : list[k] \in Nat
  BY ListsAreSequences
<1>2. \A k \in 1 .. Len(list) : k \in 1 .. Len(own) => list[k] = own[k]
  BY <1>0, SamePlaces
<1>3. CASE list[i] \in recorded
  BY <1>0, <1>3 DEF MInv, RecordedPrefix
<1>4. CASE list[i] = own[place] /\ list[i] \notin recorded
  <2>1. i >= place
    <3>1. SUFFICES ASSUME i < place PROVE FALSE
      BY <1>0, <1>1
    <3>2. i \in 1 .. place - 1 /\ i \in 1 .. Len(own) /\ i \in 1 .. Len(list)
      BY <3>1, <1>0, <1>1
    <3> QED
      BY <3>2, <1>0, <1>2, <1>4
  <2>2. i <= place
    <3>1. SUFFICES ASSUME place < i PROVE FALSE
      BY <1>0, <1>1
    <3>2. place \in DOMAIN list /\ place \in 1 .. Len(list)
      BY <3>1, <1>0, <1>1
    <3>3. list[place] = own[place] /\ list[place] < list[i]
      BY <3>1, <3>2, <1>0, <1>2 DEF WellFormed
    <3> QED
      BY <3>2, <3>3, <1>1, <1>4
  <2>3. i = place
    BY <2>1, <2>2, <1>0, <1>1
  <2>4. CASE j = place
    BY <2>3, <2>4, <1>0, <1>4
  <2>5. CASE j # place
    <3>1. j \in 1 .. place - 1 /\ j \in 1 .. Len(own) /\ j \in 1 .. Len(list)
      BY <2>3, <2>5, <1>0, <1>1
    <3> QED
      BY <3>1, <1>0, <1>2
  <2> QED
    BY <2>4, <2>5
<1> QED
  BY <1>0, <1>3, <1>4

\* A commit keeps the invariant if the committing run's new state is sound for
\* the rows then recorded, and apart from the others: none of them has the
\* same row inserted.
LEMMA CommitMoves ==
    ASSUME MInv, NEW r \in Runners, CommitEffect(r),
           NEW runner \in RunnerRecords, Become(r, runner),
           Sound(runner, recorded'),
           \A other \in Runners \ {r} : Apart(runner, runners[other])
    PROVE  MInv'
<1>1. schema' = recorded' /\ recorded' \subseteq Nat /\ RecordedPrefix'
  BY CommittedRow, CommitKeepsPrefix DEF MInv
<1>2. runners' \in [Runners -> RunnerRecords]
  BY DEF MInv, Become
<1>3. \A s \in Runners : runners'[s] = IF s = r THEN runner ELSE runners[s]
  BY DEF MInv, Become
<1>4. ASSUME NEW s \in Runners PROVE Sound(runners'[s], recorded')
  <2>1. CASE s = r
    BY <2>1, <1>3
  <2>2. CASE s # r
    <3>1. Sound(runners[s], recorded) /\ Apart(runners[s], runners[r])
      BY <2>2 DEF MInv
    <3>2. "row" \in runners[s].executed => Current(runners[s]) # Current(runners[r])
      BY <3>1 DEF Apart, CommitEffect
    <3>3. recorded' = recorded \union { Current(runners[r]) }
      BY CommittedRow
    <3>4. Sound(runners[s], recorded')
      BY <3>1, <3>2, <3>3 DEF Sound
    <3> QED
      BY <2>2, <3>4, <1>3
  <2> QED
    BY <2>1, <2>2
<1>5. ASSUME NEW s \in Runners, NEW other \in Runners, s # other
      PROVE  Apart(runners'[s], runners'[other])
  <2>1. CASE s = r
    BY <2>1, <1>5, <1>3
  <2>2. CASE other = r
    BY <2>2, <1>5, <1>3 DEF Apart
  <2>3. CASE s # r /\ other # r
    BY <2>3, <1>5, <1>3 DEF MInv
  <2> QED
    BY <2>1, <2>2, <2>3
<1>6. \A s \in Runners : Sound(runners[s], recorded)'
  BY <1>4 DEF Sound, Current
<1>7. \A s, other \in Runners : s # other => Apart(runners[s], runners[other])'
  BY <1>5 DEF Apart, Current
<1> QED
  BY <1>1, <1>2, <1>6, <1>7 DEF MInv

\* COMMIT, and newlyApplied.push.
LEMMA CommitKeeps ==
    ASSUME MInv, NEW r \in Runners, Commit(r) PROVE MInv'
<1> DEFINE before == runners[r]
           runner == Applied(before)
<1>0. /\ CommitEffect(r) /\ Become(r, runner)
      /\ before \in RunnerRecords /\ Sound(before, recorded) /\ before.phase = "open"
      /\ before.position \in 1 .. Len(before.list) /\ Len(before.list) \in Nat
      /\ Current(before) \in Nat \ recorded
      /\ recorded' = recorded \union { Current(before) }
  <2>1. CommitEffect(r) /\ Become(r, runner) /\ before.phase = "open"
    BY DEF Commit, CommitEffect
  <2> QED
    BY <2>1, CommittedRow, ListsAreSequences DEF RunnerRecords
<1>1. /\ runner.phase = "next" /\ runner.list = before.list
      /\ runner.position = before.position + 1 /\ runner.executed = {}
      /\ runner.appliedIds = before.appliedIds
      /\ runner.reported = before.reported \union { Current(before) }
  BY <1>0 DEF Applied, RunnerRecords
<1>2. runner \in RunnerRecords
  <2> DEFINE place == before.position + 1
             rows == before.reported \union { Current(before) }
  <2>1. place \in Nat \ {0} /\ rows \in SUBSET Nat
    BY <1>0 DEF RunnerRecords
  <2>2. runner = [before EXCEPT !.phase = "next", !.position = place, !.executed = {},
                                !.reported = rows]
    BY DEF Applied
  <2> HIDE DEF place, rows
  <2> QED
    BY <1>0, <2>1, <2>2 DEF RunnerRecords, Phases
<1>3. Sound(runner, recorded')
  <2>1. \A j \in 1 .. runner.position - 1 : j = before.position \/ j \in 1 .. before.position - 1
    BY <1>0, <1>1
  <2>2. before.list[before.position] \in recorded'
    BY <1>0 DEF Current
  <2>3. \A j \in 1 .. runner.position - 1 : runner.list[j] \in recorded'
    BY <1>0, <1>1, <2>1, <2>2 DEF Sound
  <2>4. runner.position <= Len(runner.list) + 1
    BY <1>0, <1>1
  <2> QED
    BY <1>0, <1>1, <2>3, <2>4 DEF Sound
<1>4. \A other \in Runners \ {r} : Apart(runner, runners[other])
  <2> SUFFICES ASSUME NEW other \in Runners \ {r} PROVE Apart(runner, runners[other])
    OBVIOUS
  <2>1. before.reported \intersect runners[other].reported = {}
    BY DEF MInv, Apart
  <2>2. runners[other].reported \subseteq recorded
    BY DEF MInv, Sound
  <2> QED
    BY <1>0, <1>1, <2>1, <2>2 DEF Apart
<1> QED
  BY <1>0, <1>2, <1>3, <1>4, CommitMoves

\* COMMIT takes effect, the run believes it failed.
LEMMA CommitReplyLostKeeps ==
    ASSUME MInv, NEW r \in Runners, CommitReplyLost(r) PROVE MInv'
<1> DEFINE runner == [runners[r] EXCEPT !.phase = "failed", !.executed = {}]
<1>1. CommitEffect(r) /\ Become(r, runner)
  BY DEF CommitReplyLost
<1>2. runner \in RunnerRecords /\ Sound(runner, recorded)
      /\ \A other \in Runners \ {r} : Apart(runner, runners[other])
  BY FailureIsSound
<1>3. runner.phase = "failed" /\ runner.executed = {}
  BY DEF MInv, RunnerRecords
<1>4. recorded \subseteq recorded'
  BY <1>1 DEF CommitEffect
<1>5. Sound(runner, recorded')
  BY <1>2, <1>3, <1>4 DEF Sound
<1> QED
  BY <1>1, <1>2, <1>5, CommitMoves

\* A refused query rolls the transaction back.
LEMMA QueryFailsKeeps ==
    ASSUME MInv, NEW r \in Runners, QueryFails(r) PROVE MInv'
  BY FailureIsSound, OneRunMoves DEF QueryFails

\* A process that dies leaves what was committed.
LEMMA RunnerCrashesKeeps ==
    ASSUME MInv, NEW r \in Runners, RunnerCrashes(r) PROVE MInv'
<1>1. NotStarted \in RunnerRecords
  BY DEF NotStarted, Runner, RunnerRecords, Phases
<1>2. Sound(NotStarted, recorded)
  BY DEF NotStarted, Runner, Sound
<1>3. \A other \in Runners \ {r} : Apart(NotStarted, runners[other])
  BY DEF NotStarted, Runner, Apart
<1> QED
  BY <1>1, <1>2, <1>3, OneRunMoves DEF RunnerCrashes

\* Nothing moves.
LEMMA StutterKeeps == ASSUME MInv, UNCHANGED migrationVars PROVE MInv'
  BY DEF MInv, migrationVars, RecordedPrefix, Sound, Apart, Current

-----------------------------------------------------------------------------
\* For any number of runs, images, failures and crashes (runMigrations over
\* withTransaction): no two runs are ever inside the same migration, a run's
\* row is not committed before it commits, and what is recorded is a prefix.
THEOREM MigrationInvariance == MigrationsSpec => []MInv
<1>1. MInv /\ [MigrationsNext]_migrationVars => MInv'
  <2> SUFFICES ASSUME MInv, [MigrationsNext]_migrationVars PROVE MInv'
    OBVIOUS
  <2>1. ASSUME NEW r \in Runners, NEW list \in MigrationLists, RunMigrations(r, list)
        PROVE  MInv'
    BY <2>1, RunMigrationsKeeps
  <2>2. ASSUME NEW r \in Runners, RunnerStep(r) PROVE MInv'
    BY <2>2, ReadAppliedKeeps, BeginNextKeeps, ExecuteSqlKeeps, InsertRowKeeps, CommitKeeps,
       CommitReplyLostKeeps, QueryFailsKeeps DEF RunnerStep
  <2>3. ASSUME NEW r \in Runners, RunnerCrashes(r) PROVE MInv'
    BY <2>3, RunnerCrashesKeeps
  <2>4. CASE UNCHANGED migrationVars
    BY <2>4, StutterKeeps
  <2> QED
    BY <2>1, <2>2, <2>3, <2>4 DEF MigrationsNext
<1> QED
  BY Initial, <1>1, PTL DEF MigrationsSpec

\* The database holds exactly the migrations it has recorded, the first ones of
\* every image's list; a run that reports success has left nothing of its list
\* to apply, and no two runs report the same migration (the atomicity that
\* migrationRunner.ts promises).
THEOREM MigrationsAccounted == MigrationsSpec => []MigrationsAreAccountedFor
<1>1. MInv => MigrationsAreAccountedFor
  <2> SUFFICES ASSUME MInv PROVE MigrationsAreAccountedFor
    OBVIOUS
  <2>1. SchemaIsARecordedPrefix
    <3> SUFFICES ASSUME NEW r \in Runners, WellFormed(runners[r].list),
                        NEW i \in DOMAIN runners[r].list, runners[r].list[i] \in schema,
                        NEW j \in 1 .. i
                 PROVE  runners[r].list[j] \in schema
      BY DEF SchemaIsARecordedPrefix, MInv
    <3>1. runners[r].list \in MigrationLists \union { << >> }
      BY DEF MInv, RunnerRecords
    <3>2. runners[r].list # << >>
      OBVIOUS
    <3> QED
      BY <3>1, <3>2 DEF MInv, RecordedPrefix
  <2>2. ASSUME NEW r \in Runners, runners[r].phase = "done"
        PROVE  Range(runners[r].list) \subseteq schema
    <3>1. Sound(runners[r], recorded) /\ runners[r] \in RunnerRecords
      BY DEF MInv
    <3>2. /\ DOMAIN runners[r].list = 1 .. Len(runners[r].list)
          /\ Len(runners[r].list) \in Nat
      BY <3>1, ListsAreSequences DEF RunnerRecords
    <3>3. 1 .. runners[r].position - 1 = 1 .. Len(runners[r].list)
      BY <2>2, <3>1, <3>2 DEF Sound
    <3>4. \A i \in DOMAIN runners[r].list : runners[r].list[i] \in recorded
      BY <2>2, <3>1, <3>2, <3>3 DEF Sound
    <3> QED
      BY <3>4 DEF Range, MInv
  <2>3. \A r \in Runners : \A other \in Runners \ {r} :
            runners[r].reported \intersect runners[other].reported = {}
    BY DEF MInv, Apart
  <2> QED
    BY <2>1, <2>2, <2>3 DEF MigrationsAreAccountedFor, MigrationReportsAreTrue
<1> QED
  BY <1>1, MigrationInvariance, PTL

-----------------------------------------------------------------------------
(* The evidence ledger *)

Rows == [id : Nat, at : Nat, sealed : EncryptionKeys \union {NoKey}]

\* No two rows have the same id.
Distinct(rows) == \A row, other \in rows : row.id = other.id => row = other

Precedence == { pair \in Rows \X Rows : Before(pair[1], pair[2]) }

\* How many of the rows sort before a row.
Place(row, rows) == Cardinality(Below(row, Precedence, rows))

\* A read that has been given so many rows: none of the rows that were there is
\* behind it, and if it has not been overtaken it holds the first ones.
Paging(rows, all, present, overtaken) ==
    /\ Len(all) <= Cardinality(rows)
    /\ \A row \in present : Place(row, rows) >= Len(all) \/ \E i \in 1 .. Len(all) : all[i] = row
    /\ ~overtaken => \A i \in 1 .. Len(all) : all[i] \in rows /\ Place(all[i], rows) = i - 1

Reads ==
    [phase : { "idle", "paging", "read", "failed" }, all : Seq(Rows), offset : Nat,
     present : SUBSET Rows, overtaken : BOOLEAN]

LInv ==
    /\ ledger \subseteq Rows /\ IsFiniteSet(ledger) /\ Distinct(ledger)
    /\ read \in Reads /\ read.present \subseteq ledger
    /\ read.phase = "paging" =>
           /\ read.offset = Len(read.all)
           /\ Paging(ledger, read.all, read.present, read.overtaken)
    /\ ReadsAreComplete

\* Before orders rows with different ids.
LEMMA RowsAreOrdered ==
    ASSUME NEW rows, rows \subseteq Rows, Distinct(rows)
    PROVE  /\ Orders(Precedence, rows)
           /\ \A row \in rows : Below(row, Precedence, rows) = { other \in rows : Before(other, row) }
<1>1. \A row, other \in rows : << row, other >> \in Precedence <=> Before(row, other)
  BY DEF Precedence
<1>2. \A row \in rows : row.at \in Nat /\ row.id \in Nat
  BY DEF Rows
<1>3. \A row \in rows : ~Before(row, row)
  BY <1>2 DEF Before
<1>4. \A x, y, z \in rows : Before(x, y) /\ Before(y, z) => Before(x, z)
  BY <1>2 DEF Before
<1>5. \A x, y \in rows : x = y \/ Before(x, y) \/ Before(y, x)
  <2> TAKE x, y \in rows
  <2>1. x.at < y.at \/ y.at < x.at \/ (x.at = y.at /\ (x.id < y.id \/ y.id < x.id \/ x.id = y.id))
    BY <1>2
  <2> QED
    BY <2>1 DEF Before, Distinct
<1>6. Orders(Precedence, rows)
  BY <1>1, <1>3, <1>4, <1>5 DEF Orders
<1>7. \A row \in rows : Below(row, Precedence, rows) = { other \in rows : Before(other, row) }
  BY <1>1 DEF Below
<1> QED
  BY <1>6, <1>7

\* Every row has its own place, and every place below their number is taken.
LEMMA PlacesAreTaken ==
    ASSUME NEW rows, rows \subseteq Rows, IsFiniteSet(rows), Distinct(rows)
    PROVE  /\ Cardinality(rows) \in Nat
           /\ \A row \in rows : Place(row, rows) \in 0 .. (Cardinality(rows) - 1)
           /\ \A k \in 0 .. (Cardinality(rows) - 1) : \E row \in rows : Place(row, rows) = k
           /\ \A row, other \in rows : Place(row, rows) = Place(other, rows) => row = other
<1> DEFINE rank == [row \in rows |-> Place(row, rows)]
<1>1. \A row \in rows : rank[row] = Cardinality(Below(row, Precedence, rows))
  BY DEF Place
<1>2. \A row \in rows : rank[row] = Place(row, rows)
  OBVIOUS
<1> HIDE DEF rank
<1>3. Orders(Precedence, rows)
  BY RowsAreOrdered
<1>4. /\ Cardinality(rows) \in Nat
      /\ \A row \in rows : rank[row] \in 0 .. (Cardinality(rows) - 1)
      /\ \A k \in 0 .. (Cardinality(rows) - 1) : \E row \in rows : rank[row] = k
      /\ \A row, other \in rows : rank[row] = rank[other] => row = other
  BY <1>1, <1>3, RanksAreSorted
<1> QED
  BY <1>2, <1>4

\* Ordered gives each row the place it has.
LEMMA OrderedByPlace ==
    ASSUME NEW rows, rows \subseteq Rows, IsFiniteSet(rows), Distinct(rows)
    PROVE  /\ Ordered(rows) \in Seq(rows) /\ Len(Ordered(rows)) = Cardinality(rows)
           /\ \A i \in 1 .. Cardinality(rows) :
                  Ordered(rows)[i] \in rows /\ Place(Ordered(rows)[i], rows) = i - 1
           /\ \A row \in rows, i \in 1 .. Cardinality(rows) :
                  Place(row, rows) = i - 1 => Ordered(rows)[i] = row
<1> DEFINE size == Cardinality(rows)
<1>1. size \in Nat
  BY PlacesAreTaken
<1>2. \A row \in rows : Place(row, rows) = Cardinality({ other \in rows : Before(other, row) })
  BY RowsAreOrdered DEF Place
<1>3. Ordered(rows) = [i \in 1 .. size |-> CHOOSE row \in rows :
                          Cardinality({ other \in rows : Before(other, row) }) = i - 1]
  BY DEF Ordered
<1>4. ASSUME NEW i \in 1 .. size
      PROVE  Ordered(rows)[i] \in rows /\ Place(Ordered(rows)[i], rows) = i - 1
  <2>1. i - 1 \in 0 .. (size - 1)
    BY <1>1
  <2>2. PICK row \in rows : Place(row, rows) = i - 1
    BY <2>1, PlacesAreTaken
  <2>3. Cardinality({ other \in rows : Before(other, row) }) = i - 1
    BY <1>2, <2>2
  <2> DEFINE chosen == CHOOSE x \in rows : Cardinality({ other \in rows : Before(other, x) }) = i - 1
  <2>4. chosen \in rows /\ Cardinality({ other \in rows : Before(other, chosen) }) = i - 1
    BY <2>3
  <2>5. Ordered(rows)[i] = chosen
    BY <1>3
  <2> HIDE DEF chosen
  <2> QED
    BY <1>2, <2>4, <2>5
<1>5. Ordered(rows) \in [1 .. size -> rows]
  <2>1. DOMAIN Ordered(rows) = 1 .. size
    BY <1>3
  <2> HIDE DEF size
  <2> QED
    BY <1>3, <1>4, <2>1
<1>6. Ordered(rows) \in Seq(rows) /\ Len(Ordered(rows)) = size
  <2> HIDE DEF size
  <2> QED
    BY <1>1, <1>5
<1>7. ASSUME NEW row \in rows, NEW i \in 1 .. size, Place(row, rows) = i - 1
      PROVE  Ordered(rows)[i] = row
  BY <1>4, <1>7, PlacesAreTaken
<1> QED
  BY <1>4, <1>6, <1>7

\* A sequence in which every row stands at its place is Ordered.
LEMMA PlacedIsOrdered ==
    ASSUME NEW rows, rows \subseteq Rows, IsFiniteSet(rows), Distinct(rows),
           NEW all \in Seq(Rows), Len(all) = Cardinality(rows),
           \A i \in 1 .. Len(all) : all[i] \in rows /\ Place(all[i], rows) = i - 1
    PROVE  Range(all) = rows /\ all = Ordered(rows)
<1>1. /\ Ordered(rows) \in Seq(Rows) /\ Len(Ordered(rows)) = Cardinality(rows)
      /\ \A row \in rows, i \in 1 .. Cardinality(rows) :
             Place(row, rows) = i - 1 => Ordered(rows)[i] = row
  BY OrderedByPlace, SeqMonotonic
<1>2. \A i \in 1 .. Len(all) : all[i] = Ordered(rows)[i]
  BY <1>1
<1>3. all = Ordered(rows)
  BY <1>1, <1>2, SeqEqual
<1>4. ASSUME NEW row \in rows PROVE \E i \in 1 .. Len(all) : all[i] = row
  <2>1. /\ Cardinality(rows) \in Nat
        /\ Place(row, rows) \in 0 .. (Cardinality(rows) - 1)
    BY PlacesAreTaken
  <2>2. Place(row, rows) + 1 \in 1 .. Len(all) /\ Place(row, rows) = (Place(row, rows) + 1) - 1
    BY <2>1
  <2>3. all[Place(row, rows) + 1] = row
    BY <1>1, <1>2, <2>2
  <2> QED
    BY <2>2, <2>3
<1>5. Range(all) = { all[i] : i \in 1 .. Len(all) }
  BY RangeEquality
<1> QED
  BY <1>3, <1>4, <1>5

\* A new row moves on by one the rows that it sorts before, and no others.
LEMMA NewRowMovesOthers ==
    ASSUME NEW rows, rows \subseteq Rows, IsFiniteSet(rows), Distinct(rows),
           NEW new \in Rows, \A row \in rows : row.id # new.id
    PROVE  /\ rows \union {new} \subseteq Rows
           /\ IsFiniteSet(rows \union {new}) /\ Distinct(rows \union {new})
           /\ Cardinality(rows \union {new}) = Cardinality(rows) + 1
           /\ \A row \in rows : Place(row, rows \union {new}) =
                  IF Before(new, row) THEN Place(row, rows) + 1 ELSE Place(row, rows)
<1>1. new \notin rows /\ Distinct(rows \union {new}) /\ rows \union {new} \subseteq Rows
  BY DEF Distinct
<1>2. /\ IsFiniteSet(rows \union {new})
      /\ Cardinality(rows \union {new}) = Cardinality(rows) + 1
  BY <1>1, FS_AddElement
<1>3. ASSUME NEW row \in rows
      PROVE  Place(row, rows \union {new}) =
                 IF Before(new, row) THEN Place(row, rows) + 1 ELSE Place(row, rows)
  <2>1. Below(row, Precedence, rows) \in SUBSET rows /\ new \notin Below(row, Precedence, rows)
    BY <1>1 DEF Below
  <2>2. IsFiniteSet(Below(row, Precedence, rows))
    BY <2>1, FS_Subset
  <2>3. << new, row >> \in Precedence <=> Before(new, row)
    BY DEF Precedence
  <2>4. Below(row, Precedence, rows \union {new}) =
            IF Before(new, row) THEN Below(row, Precedence, rows) \union {new}
            ELSE Below(row, Precedence, rows)
    BY <2>3 DEF Below
  <2>5. Cardinality(Below(row, Precedence, rows) \union {new}) = Cardinality(Below(row, Precedence, rows)) + 1
    BY <2>1, <2>2, FS_AddElement
  <2> QED
    BY <2>4, <2>5 DEF Place
<1> QED
  BY <1>1, <1>2, <1>3

\* A page holds the next rows: as many as the limit, or all that are left.
LEMMA PageIsNext ==
    ASSUME NEW rows, rows = ledger, rows \subseteq Rows, IsFiniteSet(rows), Distinct(rows),
           NEW offset \in Nat, offset <= Cardinality(rows)
    PROVE  /\ Page(offset) \in Seq(Rows) /\ Len(Page(offset)) \in Nat
           /\ offset + Len(Page(offset)) <= Cardinality(rows)
           /\ \A i \in 1 .. Len(Page(offset)) :
                  Page(offset)[i] \in rows /\ Place(Page(offset)[i], rows) = offset + i - 1
           /\ Len(Page(offset)) # MaxListLimit => offset + Len(Page(offset)) = Cardinality(rows)
<1>1. PICK size \in Nat, sorted \in Seq(rows) :
          /\ size = Cardinality(rows) /\ sorted = Ordered(rows) /\ Len(sorted) = size
          /\ \A i \in 1 .. size : sorted[i] \in rows /\ Place(sorted[i], rows) = i - 1
  <2>1. /\ Ordered(rows) \in Seq(rows) /\ Len(Ordered(rows)) = Cardinality(rows)
        /\ \A i \in 1 .. Cardinality(rows) :
               Ordered(rows)[i] \in rows /\ Place(Ordered(rows)[i], rows) = i - 1
    BY OrderedByPlace
  <2>2. Cardinality(rows) \in Nat
    BY PlacesAreTaken
  <2> QED
    BY <2>1, <2>2
<1>2. PICK upTo \in Nat : /\ upTo = Min({ offset + MaxListLimit, size })
                          /\ offset <= upTo /\ upTo <= size
                          /\ upTo = offset + MaxListLimit \/ upTo = size
  <2> DEFINE ends == { offset + MaxListLimit, size }
  <2>1. \E end \in ends : \A other \in ends : end <= other
    BY LedgerAssumption
  <2>2. Min(ends) \in ends /\ \A other \in ends : Min(ends) <= other
    <3> HIDE DEF ends
    <3> QED
      BY <2>1 DEF Min
  <2>3. Min(ends) <= size /\ (Min(ends) = offset + MaxListLimit \/ Min(ends) = size)
    BY <2>2
  <2> HIDE DEF ends
  <2>4. Min(ends) \in Nat /\ offset <= Min(ends)
    BY <1>1, <2>3, LedgerAssumption
  <2> QED
    BY <2>3, <2>4 DEF ends
<1>3. Page(offset) = SubSeq(sorted, offset + 1, upTo)
  BY <1>1, <1>2 DEF Page
<1>4. PICK page \in Seq(rows) :
          /\ page = Page(offset) /\ Len(page) = upTo - offset
          /\ \A i \in 1 .. upTo - offset : page[i] = sorted[offset + i]
  <2>1. \A i \in offset + 1 .. upTo : sorted[i] \in rows
    BY <1>1, <1>2
  <2>2. /\ SubSeq(sorted, offset + 1, upTo) \in Seq(rows)
        /\ Len(SubSeq(sorted, offset + 1, upTo)) =
               IF offset + 1 <= upTo THEN upTo - (offset + 1) + 1 ELSE 0
        /\ \A i \in 1 .. upTo - (offset + 1) + 1 :
               SubSeq(sorted, offset + 1, upTo)[i] = sorted[(offset + 1) + i - 1]
    BY <2>1, SubSeqProperties
  <2>3. (IF offset + 1 <= upTo THEN upTo - (offset + 1) + 1 ELSE 0) = upTo - offset
    BY <1>2
  <2>4. \A i \in 1 .. upTo - offset : (offset + 1) + i - 1 = offset + i /\ i \in 1 .. upTo - (offset + 1) + 1
    BY <1>2
  <2> QED
    BY <1>3, <2>2, <2>3, <2>4, ZenonT(60)
<1>5. ASSUME NEW i \in 1 .. Len(page)
      PROVE  page[i] \in rows /\ Place(page[i], rows) = offset + i - 1
  <2>1. i \in 1 .. upTo - offset /\ offset + i \in 1 .. size
    BY <1>1, <1>2, <1>4
  <2> QED
    BY <1>1, <1>4, <2>1
<1>6. page \in Seq(Rows)
  BY SeqMonotonic
<1>7. /\ Len(page) \in Nat /\ offset + Len(page) <= size
      /\ Len(page) # MaxListLimit => offset + Len(page) = size
  BY <1>2, <1>4, LedgerAssumption
<1> QED
  BY <1>1, <1>4, <1>5, <1>6, <1>7

\* A row appended moves the rows that a read was given only by overtaking it.
LEMMA AppendKeepsReads ==
    ASSUME LInv, NEW id \in 1 .. MaxRows, NEW at \in Times, NEW bundle \in Bundles,
           NEW hasValue \in BOOLEAN, NEW with \in EncryptionKeys,
           AppendRow(Row(id, at, bundle, hasValue, with))
    PROVE  LInv'
<1>1. PICK new \in Rows : new = Row(id, at, bundle, hasValue, with)
  BY LedgerAssumption DEF Row, Rows
<1>2. PICK rows \in SUBSET Rows, all \in Seq(Rows), present \in SUBSET Rows,
          overtaken \in BOOLEAN, more \in SUBSET Rows :
          /\ rows = ledger /\ all = read.all /\ present = read.present
          /\ overtaken = read.overtaken
          /\ more = rows \union {new}
  BY DEF LInv, Reads
<1>3. /\ ledger' = more /\ \A other \in rows : other.id # new.id
      /\ read' = [read EXCEPT !.overtaken = @ \/ \E i \in DOMAIN read.all : Before(new, read.all[i])]
  BY <1>1, <1>2 DEF AppendRow
<1>4. PICK late \in BOOLEAN : late = (overtaken \/ \E i \in 1 .. Len(all) : Before(new, all[i]))
  OBVIOUS
<1>5. /\ read'.phase = read.phase /\ read'.all = all /\ read'.offset = read.offset
      /\ read'.present = present /\ read'.overtaken = late /\ read' \in Reads
  <2>1. read \in Reads /\ DOMAIN all = 1 .. Len(all)
    BY DEF LInv
  <2>2. read' = [read EXCEPT !.overtaken = late]
    BY <1>2, <1>3, <1>4, <2>1
  <2> QED
    BY <1>2, <2>1, <2>2 DEF Reads
<1>6. /\ rows \subseteq Rows /\ IsFiniteSet(rows) /\ Distinct(rows)
  BY <1>2 DEF LInv
<1>7. /\ more \subseteq Rows /\ IsFiniteSet(more) /\ Distinct(more)
      /\ Cardinality(more) = Cardinality(rows) + 1
      /\ \A row \in rows : Place(row, more) =
             IF Before(new, row) THEN Place(row, rows) + 1 ELSE Place(row, rows)
  BY <1>2, <1>3, <1>6, NewRowMovesOthers
<1>8. /\ Cardinality(rows) \in Nat /\ present \subseteq rows
      /\ \A row \in rows : Place(row, rows) \in Nat
  BY <1>2, <1>6, PlacesAreTaken DEF LInv
<1>9. ASSUME Paging(rows, all, present, overtaken) PROVE Paging(more, all, present, late)
  <2>1. Len(all) \in Nat /\ Len(all) <= Cardinality(more)
    BY <1>7, <1>8, <1>9 DEF Paging
  <2>2. ASSUME NEW row \in present
        PROVE  Place(row, more) >= Len(all) \/ \E i \in 1 .. Len(all) : all[i] = row
    BY <1>7, <1>8, <1>9, <2>1 DEF Paging
  <2>3. ASSUME ~late, NEW i \in 1 .. Len(all)
        PROVE  all[i] \in more /\ Place(all[i], more) = i - 1
    <3>1. ~overtaken /\ ~Before(new, all[i])
      BY <1>4, <2>3
    <3>2. all[i] \in rows /\ Place(all[i], rows) = i - 1
      BY <1>9, <3>1 DEF Paging
    <3> QED
      BY <1>2, <1>7, <3>1, <3>2
  <2> QED
    BY <2>1, <2>2, <2>3 DEF Paging
<1>10. read'.phase = "paging" =>
           read'.offset = Len(all) /\ Paging(more, all, present, late)
  BY <1>2, <1>5, <1>9 DEF LInv
<1>11. ReadsAreComplete'
  BY <1>2, <1>4, <1>5 DEF LInv, ReadsAreComplete
<1>12. present \subseteq more
  BY <1>2, <1>8
<1> QED
  BY <1>3, <1>5, <1>7, <1>10, <1>11, <1>12 DEF LInv

\* A page continues the read; the last one completes it.
LEMMA PageKeepsReads == ASSUME LInv, ReadPage PROVE LInv'
<1>1. PICK rows \in SUBSET Rows, given \in Seq(Rows), present \in SUBSET Rows,
          overtaken \in BOOLEAN, offset \in Nat :
          /\ rows = ledger /\ given = read.all /\ present = read.present
          /\ overtaken = read.overtaken /\ offset = read.offset
  BY DEF LInv, Reads
<1>2. /\ rows \subseteq Rows /\ IsFiniteSet(rows) /\ Distinct(rows) /\ present \subseteq rows
      /\ read.phase = "paging" /\ offset = Len(given)
      /\ Paging(rows, given, present, overtaken)
  BY <1>1 DEF LInv, ReadPage
<1>3. PICK page \in Seq(Rows) :
          /\ page = Page(offset) /\ Len(page) \in Nat
          /\ offset + Len(page) <= Cardinality(rows)
          /\ \A i \in 1 .. Len(page) : page[i] \in rows /\ Place(page[i], rows) = offset + i - 1
          /\ Len(page) # MaxListLimit => offset + Len(page) = Cardinality(rows)
  BY <1>1, <1>2, PageIsNext DEF Paging
<1>4. PICK all \in Seq(Rows) :
          /\ all = given \o page /\ Len(all) = offset + Len(page)
          /\ \A i \in 1 .. Len(all) : all[i] = IF i <= offset THEN given[i] ELSE page[i - offset]
  <2>1. /\ given \o page \in Seq(Rows) /\ Len(given \o page) = Len(given) + Len(page)
        /\ \A i \in 1 .. Len(given) + Len(page) :
               (given \o page)[i] = IF i <= Len(given) THEN given[i] ELSE page[i - Len(given)]
    BY ConcatProperties
  <2> QED
    BY <1>2, <2>1
<1>5. PICK phase \in { "paging", "read", "failed" } :
          phase = IF Len(page) = MaxListLimit THEN "paging"
                  ELSE IF Readable(all) THEN "read" ELSE "failed"
  OBVIOUS
<1>6. ledger' = ledger /\ read' = [phase |-> phase, all |-> all, offset |-> offset + Len(page),
                                   present |-> present, overtaken |-> overtaken]
  <2>1. read \in Reads
    BY DEF LInv
  <2>2. read' = [read EXCEPT !.all = all, !.offset = offset + Len(page), !.phase = phase]
    BY <1>1, <1>3, <1>4, <1>5 DEF ReadPage
  <2> QED
    BY <1>1, <2>1, <2>2 DEF ReadPage, Reads
<1>7. Paging(rows, all, present, overtaken)
  <2>1. Cardinality(rows) \in Nat /\ \A row \in rows : Place(row, rows) \in Nat
    BY <1>2, PlacesAreTaken
  <2>2. ASSUME NEW row \in present
        PROVE  Place(row, rows) >= Len(all) \/ \E i \in 1 .. Len(all) : all[i] = row
    <3>1. PICK k \in Nat : k = Place(row, rows)
      BY <1>2, <2>1
    <3>2. CASE k < offset
      <4>1. PICK i \in 1 .. offset : given[i] = row
        BY <1>2, <3>1, <3>2 DEF Paging
      <4>2. i \in 1 .. Len(all) /\ i <= offset
        BY <1>3, <1>4
      <4>3. all[i] = row
        BY <1>4, <4>1, <4>2
      <4> QED
        BY <4>2, <4>3
    <3>3. CASE offset <= k /\ k < Len(all)
      <4>1. PICK j \in 1 .. Len(page), at \in 1 .. Len(all) :
                offset + j - 1 = k /\ at = offset + j /\ at = k + 1
        <5>1. k + 1 - offset \in 1 .. Len(page) /\ k + 1 \in 1 .. Len(all)
          BY <1>3, <1>4, <3>3
        <5> QED
          BY <5>1
      <4>2. page[j] \in rows /\ Place(page[j], rows) = k
        BY <1>3, <4>1
      <4>3. row \in rows /\ page[j] = row
        BY <1>2, <3>1, <4>2, PlacesAreTaken
      <4>4. ~(at <= offset) /\ at - offset = j
        BY <3>3, <4>1
      <4>5. all[at] = row
        BY <1>4, <4>3, <4>4
      <4> QED
        BY <4>5
    <3> QED
      BY <1>3, <1>4, <3>1, <3>2, <3>3
  <2>3. ASSUME ~overtaken, NEW i \in 1 .. Len(all)
        PROVE  all[i] \in rows /\ Place(all[i], rows) = i - 1
    <3>1. CASE i <= offset
      <4>1. all[i] = given[i] /\ i \in 1 .. offset
        BY <1>4, <3>1
      <4> QED
        BY <1>2, <2>3, <4>1 DEF Paging
    <3>2. CASE ~(i <= offset)
      <4>1. all[i] = page[i - offset] /\ i - offset \in 1 .. Len(page) /\ offset + (i - offset) - 1 = i - 1
        BY <1>3, <1>4, <3>2
      <4> QED
        BY <1>3, <4>1
    <3> QED
      BY <3>1, <3>2
  <2> QED
    BY <1>3, <1>4, <2>2, <2>3 DEF Paging
<1>8. ASSUME phase = "read"
      PROVE  present \subseteq Range(all) /\ (~overtaken => all = Ordered(Range(all)))
  <2>1. Len(all) = Cardinality(rows)
    BY <1>3, <1>4, <1>5, <1>8
  <2>2. /\ Cardinality(rows) \in Nat
        /\ \A row \in rows : Place(row, rows) \in 0 .. (Cardinality(rows) - 1)
    BY <1>2, PlacesAreTaken
  <2>3. ASSUME NEW row \in present PROVE row \in Range(all)
    <3>1. Place(row, rows) \in Nat /\ Place(row, rows) < Len(all)
      BY <1>2, <2>1, <2>2
    <3>2. PICK i \in 1 .. Len(all) : all[i] = row
      BY <1>7, <2>1, <2>2, <3>1 DEF Paging
    <3>3. Range(all) = { all[j] : j \in 1 .. Len(all) }
      BY RangeEquality
    <3> QED
      BY <3>2, <3>3
  <2>4. ASSUME ~overtaken PROVE all = Ordered(Range(all))
    <3>1. \A i \in 1 .. Len(all) : all[i] \in rows /\ Place(all[i], rows) = i - 1
      BY <1>7, <2>4 DEF Paging
    <3>2. Range(all) = rows /\ all = Ordered(rows)
      BY <1>2, <2>1, <3>1, PlacedIsOrdered
    <3> QED
      BY <3>2
  <2> QED
    BY <2>3, <2>4
<1>9. ReadsAreComplete'
  BY <1>6, <1>8 DEF ReadsAreComplete
<1>10. read' \in Reads
  BY <1>3, <1>6 DEF Reads
<1> QED
  BY <1>1, <1>2, <1>4, <1>6, <1>7, <1>9, <1>10 DEF LInv

\* A read that is begun, refused or forgotten.
LEMMA OtherReadsKeep ==
    ASSUME LInv,
           \/ ListAllBySession \/ ReadFails \/ UNCHANGED ledgerVars
           \/ \E other \in EncryptionKeys : Rekey(other)
    PROVE  LInv'
<1>1. CASE UNCHANGED ledgerVars
  BY <1>1 DEF ledgerVars, LInv, ReadsAreComplete
<1>2. CASE ListAllBySession
  <2>1. PICK rows \in SUBSET Rows : rows = ledger
    BY DEF LInv
  <2>2. ledger' = ledger /\ read' = [phase |-> "paging", all |-> << >>, offset |-> 0,
                                     present |-> rows, overtaken |-> FALSE]
    BY <1>2, <2>1 DEF ListAllBySession, NotReading
  <2>3. read' \in Reads
    BY <2>2 DEF Reads
  <2>4. IsFiniteSet(rows) /\ Distinct(rows) /\ Len(<< >>) = 0
    BY <2>1 DEF LInv
  <2>5. Cardinality(rows) \in Nat /\ \A row \in rows : Place(row, rows) \in Nat
    BY <2>4, PlacesAreTaken
  <2>6. Paging(rows, << >>, rows, FALSE)
    BY <2>4, <2>5 DEF Paging
  <2>7. ReadsAreComplete'
    BY <2>2 DEF ReadsAreComplete
  <2> QED
    BY <2>1, <2>2, <2>3, <2>4, <2>6, <2>7 DEF LInv
<1>3. CASE ReadFails
  <2>1. ledger' = ledger /\ read' = [read EXCEPT !.phase = "failed"]
    BY <1>3 DEF ReadFails
  <2>2. read' \in Reads /\ read'.phase = "failed" /\ read'.present = read.present
    BY <2>1 DEF LInv, Reads
  <2>3. ReadsAreComplete'
    BY <2>2 DEF ReadsAreComplete
  <2> QED
    BY <2>1, <2>2, <2>3 DEF LInv
<1>4. ASSUME NEW other \in EncryptionKeys, Rekey(other) PROVE LInv'
  <2>1. ledger' = ledger /\ read' = [phase |-> "idle", all |-> << >>, offset |-> 0,
                                     present |-> {}, overtaken |-> FALSE]
    BY <1>4 DEF Rekey, NotReading
  <2>2. read' \in Reads /\ read'.phase = "idle" /\ read'.present = {}
    BY <2>1 DEF Reads
  <2>3. ReadsAreComplete'
    BY <2>2 DEF ReadsAreComplete
  <2> QED
    BY <2>1, <2>2, <2>3 DEF LInv
<1> QED
  BY <1>1, <1>2, <1>3, <1>4

\* A read under way has left no row behind, and one that is finished is complete.
THEOREM LedgerInvariance == LedgerSpec => []LInv
<1>1. LedgerInit => LInv
  <2> SUFFICES ASSUME LedgerInit PROVE LInv
    OBVIOUS
  <2>1. read \in Reads /\ read.phase = "idle" /\ read.present = {}
    BY DEF LedgerInit, NotReading, Reads
  <2>2. ledger = {} /\ IsFiniteSet(ledger)
    BY FS_EmptySet DEF LedgerInit
  <2>3. ReadsAreComplete
    BY <2>1 DEF ReadsAreComplete
  <2> QED
    BY <2>1, <2>2, <2>3 DEF LInv, Distinct
<1>2. LInv /\ [LedgerNext]_ledgerVars => LInv'
  BY AppendKeepsReads, PageKeepsReads, OtherReadsKeep DEF LedgerNext
<1> QED
  BY <1>1, <1>2, PTL DEF LedgerSpec

\* A finished read holds every row that was there when it began, and, unless a
\* row was appended behind it meanwhile, in order and each once.
THEOREM ReadsComplete == LedgerSpec => []ReadsAreComplete
<1>1. LInv => ReadsAreComplete
  BY DEF LInv
<1> QED
  BY <1>1, LedgerInvariance, PTL

-----------------------------------------------------------------------------
(* The reviewer's page *)

Decisions == [session : Interviews, number : Nat]

\* The decisions the page has received, and those its stream still carries.
Sent == history \o stream.queue

\* What is sent of a session has been decided, and is sent in the order of the
\* decisions, each at most once.
VInv ==
    /\ decided \in [Interviews -> Nat]
    /\ history \in Seq(Decisions)
    /\ stream \in [subscribed : BOOLEAN, queue : Seq(Decisions)]
    /\ \A i \in 1 .. Len(Sent) : Sent[i].number <= decided[Sent[i].session]
    /\ \A i, j \in 1 .. Len(Sent) :
          i < j /\ Sent[i].session = Sent[j].session => Sent[i].number < Sent[j].number

\* Moving the first of a queue to the end of what precedes it changes nothing.
LEMMA MovedFromTheQueue ==
    ASSUME NEW S, NEW s \in Seq(S), NEW t \in Seq(S), t # << >>
    PROVE  /\ Append(s, Head(t)) \in Seq(S) /\ Tail(t) \in Seq(S)
           /\ Append(s, Head(t)) \o Tail(t) = s \o t
<1>1. Head(t) \in S /\ Head(t) = t[1] /\ Tail(t) \in Seq(S) /\ << Head(t) >> \in Seq(S)
  BY HeadTailProperties
<1>2. Append(s, Head(t)) = s \o << Head(t) >> /\ Append(s, Head(t)) \in Seq(S)
  BY <1>1, AppendIsConcat, AppendProperties
<1>3. << Head(t) >> \o Tail(t) = t
  <2>1. Len(t) \in Nat \ {0}
    BY EmptySeq
  <2>2. t = SubSeq(t, 1, Len(t)) /\ Tail(t) = SubSeq(t, 2, Len(t))
    BY TailIsSubSeq, SubSeqFull
  <2>3. SubSeq(t, 1, Len(t)) = << t[1] >> \o SubSeq(t, 1 + 1, Len(t))
    BY <2>1, SubSeqRecursiveFirst
  <2> QED
    BY <1>1, <2>2, <2>3
<1>4. (s \o << Head(t) >>) \o Tail(t) = s \o (<< Head(t) >> \o Tail(t))
  BY <1>1, ConcatAssociative
<1> QED
  BY <1>1, <1>2, <1>3, <1>4

\* A stream that is replaced or breaks loses what it carries.
LEMMA StreamIsLost ==
    ASSUME VInv, stream' = NoStream, UNCHANGED << decided, history >>
    PROVE  VInv'
<1>1. Sent' = history /\ Sent \in Seq(Decisions) /\ history \in Seq(Decisions)
  BY DEF VInv, Sent, NoStream
<1>2. Len(history) \in Nat /\ Len(history) <= Len(Sent)
      /\ \A i \in 1 .. Len(history) : history[i] = Sent[i]
  BY DEF VInv, Sent
<1>3. stream' \in [subscribed : BOOLEAN, queue : Seq(Decisions)]
  BY DEF NoStream
<1>4. \A i \in 1 .. Len(history) : history[i].number <= decided[history[i].session]
  BY <1>1, <1>2 DEF VInv
<1>5. \A i, j \in 1 .. Len(history) :
          i < j /\ history[i].session = history[j].session => history[i].number < history[j].number
  BY <1>1, <1>2, SMTT(20) DEF VInv
<1> QED
  BY <1>1, <1>3, <1>4, <1>5 DEF VInv

\* A decision received is the first that the stream carries.
LEMMA ReceiveKeepsSent ==
    ASSUME VInv, Receive PROVE VInv'
<1>1. PICK queue \in Seq(Decisions), received \in Seq(Decisions) :
          queue = stream.queue /\ received = history /\ queue # << >>
  BY DEF VInv, Receive
<1>2. /\ history' = Append(received, Head(queue)) /\ decided' = decided
      /\ stream' = [subscribed |-> stream.subscribed, queue |-> Tail(queue)]
  <2>1. stream' = [stream EXCEPT !.queue = Tail(queue)]
    BY <1>1 DEF Receive
  <2>2. stream \in [subscribed : BOOLEAN, queue : Seq(Decisions)]
    BY DEF VInv
  <2>3. stream' = [subscribed |-> stream.subscribed, queue |-> Tail(queue)]
    BY <2>1, <2>2
  <2> QED
    BY <1>1, <2>3 DEF Receive, serverVars
<1>3. /\ Append(received, Head(queue)) \in Seq(Decisions) /\ Tail(queue) \in Seq(Decisions)
      /\ Append(received, Head(queue)) \o Tail(queue) = received \o queue
  <2>1. queue # << >>
    BY <1>1
  <2> QED
    BY <2>1, MovedFromTheQueue, Zenon
<1>4. Sent' = Sent
  BY <1>1, <1>2, <1>3 DEF Sent
<1>5. history' \in Seq(Decisions) /\ stream' \in [subscribed : BOOLEAN, queue : Seq(Decisions)]
  BY <1>2, <1>3 DEF VInv
<1> QED
  BY <1>2, <1>4, <1>5 DEF VInv

\* A decision is new, and is sent last, if it is sent.
LEMMA IngestKeepsSent ==
    ASSUME VInv, NEW session \in Interviews, Ingest(session) PROVE VInv'
<1>1. /\ decided \in [Interviews -> Nat] /\ history \in Seq(Decisions)
      /\ decided' = [decided EXCEPT ![session] = @ + 1] /\ history' = history
  BY DEF VInv, Ingest, pageVars
<1>2. /\ decided' \in [Interviews -> Nat] /\ decided'[session] = decided[session] + 1
      /\ \A s \in Interviews : decided[s] <= decided'[s]
  BY <1>1
<1>3. Sent \in Seq(Decisions) /\ Len(Sent) \in Nat /\ stream.queue \in Seq(Decisions)
  BY ConcatProperties DEF VInv, Sent
<1>6. \A i \in 1 .. Len(Sent) : Sent[i] \in Decisions
  BY <1>3, ElementOfSeq
<1>4. ASSUME UNCHANGED stream PROVE VInv'
  <2>1. Sent' = Sent
    BY <1>1, <1>4 DEF Sent
  <2>2. \A i \in 1 .. Len(Sent) : Sent[i].number <= decided'[Sent[i].session]
    <3> TAKE i \in 1 .. Len(Sent)
    <3>1. PICK number \in Nat, s \in Interviews : number = Sent[i].number /\ s = Sent[i].session
      BY <1>6 DEF Decisions
    <3>2. number <= decided[s]
      BY <3>1 DEF VInv
    <3> QED
      BY <1>1, <1>2, <3>1, <3>2
  <2> QED
    BY <1>1, <1>2, <1>4, <2>1, <2>2 DEF VInv
<1>5. ASSUME NEW decision, decision = [session |-> session, number |-> decided'[session]],
             stream' = [stream EXCEPT !.queue = Append(@, decision)]
      PROVE  VInv'
  <2>1. decision \in Decisions /\ decision.session = session /\ decision.number = decided[session] + 1
    BY <1>1, <1>2, <1>5 DEF Decisions
  <2>2. PICK queue \in Seq(Decisions), received \in Seq(Decisions) :
            queue = stream.queue /\ received = history
    BY DEF VInv
  <2>3. stream' = [subscribed |-> stream.subscribed, queue |-> Append(queue, decision)]
    BY <1>5, <2>2 DEF VInv
  <2>10. Append(queue, decision) \in Seq(Decisions)
    BY <2>1, <2>2, AppendProperties
  <2>11. stream' \in [subscribed : BOOLEAN, queue : Seq(Decisions)]
    BY <2>3, <2>10 DEF VInv
  <2>12. received \o Append(queue, decision) = Append(received \o queue, decision)
    <3>1. << decision >> \in Seq(Decisions) /\ received \o queue \in Seq(Decisions)
      BY <2>1, ConcatProperties
    <3>2. /\ Append(queue, decision) = queue \o << decision >>
          /\ Append(received \o queue, decision) = (received \o queue) \o << decision >>
      BY <2>1, <3>1, AppendIsConcat
    <3> QED
      BY <3>1, <3>2, ConcatAssociative
  <2>13. Sent' = Append(Sent, decision)
    BY <1>1, <2>2, <2>3, <2>12 DEF Sent
  <2>4. /\ Sent' \in Seq(Decisions) /\ Len(Sent') = Len(Sent) + 1
        /\ \A i \in 1 .. Len(Sent) : Sent'[i] = Sent[i]
        /\ Sent'[Len(Sent) + 1] = decision
    <3>1. PICK sent \in Seq(Decisions) : sent = Sent
      BY <1>3
    <3>2. /\ Append(sent, decision) \in Seq(Decisions) /\ Len(Append(sent, decision)) = Len(sent) + 1
          /\ \A i \in 1 .. Len(sent) : Append(sent, decision)[i] = sent[i]
          /\ Append(sent, decision)[Len(sent) + 1] = decision
      BY <2>1, AppendProperties
    <3> QED
      BY <2>13, <3>1, <3>2
  <2>5. \A i \in 1 .. Len(Sent) :
            /\ Sent[i].number \in Nat /\ Sent[i].session \in Interviews
            /\ Sent[i].number <= decided[Sent[i].session]
    BY <1>6 DEF VInv, Decisions
  <2>6. ASSUME NEW i \in 1 .. Len(Sent')
        PROVE  Sent'[i].number <= decided'[Sent'[i].session]
    <3>1. CASE i \in 1 .. Len(Sent)
      <4>1. PICK number \in Nat, s \in Interviews : number = Sent[i].number /\ s = Sent[i].session
        BY <2>5, <3>1
      <4>2. number <= decided[s] /\ Sent'[i] = Sent[i]
        BY <2>4, <2>5, <3>1, <4>1
      <4> QED
        BY <1>1, <1>2, <4>1, <4>2
    <3>2. CASE i = Len(Sent) + 1
      BY <1>1, <1>2, <2>1, <2>4, <3>2
    <3> QED
      BY <1>3, <2>4, <3>1, <3>2
  <2>7. ASSUME NEW i \in 1 .. Len(Sent'), NEW j \in 1 .. Len(Sent'), i < j,
               Sent'[i].session = Sent'[j].session
        PROVE  Sent'[i].number < Sent'[j].number
    <3>1. i \in 1 .. Len(Sent) /\ Sent'[i] = Sent[i]
      BY <1>3, <2>4, <2>7
    <3>2. CASE j \in 1 .. Len(Sent)
      BY <2>4, <2>7, <3>1, <3>2 DEF VInv
    <3>3. CASE j = Len(Sent) + 1
      <4>1. PICK number \in Nat : number = Sent[i].number
        BY <2>5, <3>1
      <4>2. number <= decided[session]
        BY <2>1, <2>4, <2>5, <2>7, <3>1, <3>3, <4>1
      <4> QED
        BY <1>1, <2>1, <2>4, <3>1, <3>3, <4>1, <4>2
    <3> QED
      BY <1>3, <2>4, <3>2, <3>3
  <2> QED
    BY <1>1, <1>2, <2>11, <2>6, <2>7 DEF VInv
<1> QED
  BY <1>4, <1>5 DEF Ingest

\* No other step sends a decision.
LEMMA OthersKeepSent ==
    ASSUME VInv, UNCHANGED << decided, history >>, stream'.queue = stream.queue,
           stream' \in [subscribed : BOOLEAN, queue : Seq(Decisions)]
    PROVE  VInv'
<1>1. Sent' = Sent
  BY DEF Sent
<1> QED
  BY <1>1 DEF VInv

\* What is sent to the page is in order, whatever breaks, fails or is overtaken.
THEOREM ReviewInvariance == ReviewSpec => []VInv
<1>1. ReviewInit => VInv
  <2> SUFFICES ASSUME ReviewInit PROVE VInv
    OBVIOUS
  <2>1. Sent = << >> /\ Len(Sent) = 0
    BY DEF ReviewInit, Sent, NoStream
  <2> QED
    BY <2>1 DEF ReviewInit, VInv, NoStream
<1>2. VInv /\ [ReviewNext]_reviewVars => VInv'
  <2> SUFFICES ASSUME VInv, [ReviewNext]_reviewVars PROVE VInv'
    OBVIOUS
  <2>1. ASSUME NEW session \in Interviews, View(session) \/ Ingest(session) PROVE VInv'
    <3>1. CASE View(session)
      BY <3>1, StreamIsLost DEF View, serverVars
    <3>2. CASE Ingest(session)
      BY <3>2, IngestKeepsSent
    <3> QED
      BY <2>1, <3>1, <3>2
  <2>2. CASE Drop
    BY <2>2, StreamIsLost DEF Drop, serverVars, pageVars
  <2>3. CASE Receive
    BY <2>3, ReceiveKeepsSent
  <2>4. CASE Subscribe
    <3>1. stream'.queue = stream.queue
          /\ stream' \in [subscribed : BOOLEAN, queue : Seq(Decisions)]
      BY <2>4 DEF Subscribe, VInv
    <3> QED
      BY <2>4, <3>1, OthersKeepSent DEF Subscribe, serverVars, pageVars
  <2>5. ASSUME UNCHANGED << decided, history, stream >> PROVE VInv'
    <3>1. stream'.queue = stream.queue
          /\ stream' \in [subscribed : BOOLEAN, queue : Seq(Decisions)]
      BY <2>5 DEF VInv
    <3> QED
      BY <2>5, <3>1, OthersKeepSent
  <2>6. CASE Submit("override") \/ Submit("disclosure")
    BY <2>5, <2>6 DEF Submit, serverVars, pageVars
  <2>7. ASSUME NEW i \in DOMAIN calls,
               \/ ReadDisclosure(i) \/ AuditAndAnswer(i) \/ HandlePost(i)
               \/ ShowStatus(i) \/ PostDone(i) \/ CallFails(i)
        PROVE  VInv'
    BY <2>5, <2>7 DEF ReadDisclosure, AuditAndAnswer, HandlePost, ShowStatus, PostDone, CallFails,
                      serverVars, pageVars
  <2>8. CASE UNCHANGED reviewVars
    BY <2>5, <2>8 DEF reviewVars, serverVars, pageVars
  <2> QED
    BY <2>1, <2>2, <2>3, <2>4, <2>6, <2>7, <2>8 DEF ReviewNext, Progress
<1> QED
  BY <1>1, <1>2, PTL DEF ReviewSpec

\* Of the decisions received of a run of one session, an event is new in the
\* first one that was made on it, and in no other.
LEMMA NewInOneOfTheRun ==
    ASSUME VInv, NEW last \in DOMAIN history,
           NEW n \in 1 .. history[last].number,
           NEW run, \A i : i \in run <=> /\ i \in 1 .. last
                                         /\ \A j \in i .. last : history[j].session = history[last].session
    PROVE  \E first \in run : \A i \in run :
               << history[last].session, n >> \in NewEvents(i) <=> i = first
<1> DEFINE session == history[last].session
<1>1. history \in Seq(Decisions) /\ last \in 1 .. Len(history) /\ Len(history) \in Nat
  BY DEF VInv
<1>2. \A i \in 1 .. Len(history) : history[i] \in Decisions
  BY <1>1
<1>3. \A i \in 1 .. Len(history) : history[i].number \in Nat
  BY <1>2 DEF Decisions
<1>4. \A i, j \in 1 .. Len(history) :
          i < j /\ history[i].session = history[j].session => history[i].number < history[j].number
  <2>1. /\ Len(Sent) \in Nat /\ Len(history) <= Len(Sent)
        /\ \A i \in 1 .. Len(history) : Sent[i] = history[i]
    BY DEF VInv, Sent
  <2> QED
    BY <1>1, <2>1 DEF VInv
<1>5. \A i \in 1 .. Len(history) :
          << session, n >> \in EventsOf(history[i]) <=>
              history[i].session = session /\ n <= history[i].number
  <2> TAKE i \in 1 .. Len(history)
  <2>1. n \in Nat \ {0} /\ history[i].number \in Nat
    BY <1>1, <1>3
  <2>2. << session, n >> \in EventsOf(history[i]) <=>
            \E m \in 1 .. history[i].number : << session, n >> = << history[i].session, m >>
    BY DEF EventsOf
  <2> QED
    BY <2>1, <2>2
<1> DEFINE made == { i \in run : n <= history[i].number }
<1>6. last \in made /\ made \subseteq Nat
  BY <1>1, <1>3
<1>7. PICK first \in made : \A i \in made : first <= i
  <2> HIDE DEF made
  <2> QED
    BY <1>6, LeastOfNumbers
<1>8. /\ first \in run /\ first \in 1 .. last /\ n <= history[first].number
      /\ \A i \in run : n <= history[i].number => first <= i
  BY <1>7
<1> HIDE DEF session, made
<1>9. ASSUME NEW i \in run
      PROVE  << session, n >> \in NewEvents(i) <=> i = first
  <2>1. i \in 1 .. last /\ i \in 1 .. Len(history) /\ history[i].session = session
    BY <1>1 DEF session
  <2>2. << session, n >> \in NewEvents(i) <=>
            /\ n <= history[i].number
            /\ i # 1 => << session, n >> \notin EventsOf(history[i - 1])
    BY <1>5, <2>1 DEF NewEvents
  <2>3. CASE i = first
    <3>1. ASSUME i # 1, << session, n >> \in EventsOf(history[i - 1]) PROVE FALSE
      <4>1. i - 1 \in 1 .. Len(history) /\ i - 1 \in 1 .. last
        BY <1>1, <2>1, <3>1
      <4>2. history[i - 1].session = session /\ n <= history[i - 1].number
        BY <1>5, <3>1, <4>1
      <4>3. \A j \in i - 1 .. last : j = i - 1 \/ j \in i .. last
        BY <1>1, <2>1
      <4>4. i - 1 \in run
        BY <4>1, <4>2, <4>3 DEF session
      <4>5. first <= i - 1
        BY <1>8, <4>2, <4>4
      <4> QED
        BY <2>1, <2>3, <4>5
    <3> QED
      BY <1>8, <2>2, <2>3, <3>1
  <2>4. CASE i < first
    BY <1>1, <1>8, <2>1, <2>2, <2>4
  <2>5. CASE first < i
    <3>1. i - 1 \in 1 .. Len(history) /\ first <= i - 1 /\ i - 1 \in first .. last
      BY <1>1, <1>8, <2>1, <2>5
    <3>2. history[i - 1].session = session /\ history[first].session = session
      BY <1>1, <1>8, <3>1 DEF session
    <3>3. PICK old \in Nat, new \in Nat : old = history[first].number /\ new = history[i - 1].number
      <4>1. first \in 1 .. Len(history)
        BY <1>1, <1>8
      <4>2. history[first].number \in Nat /\ history[i - 1].number \in Nat
        BY <1>3, <3>1, <4>1
      <4> QED
        BY <4>2
    <3>4. old <= new
      <4>1. first \in 1 .. Len(history)
        BY <1>1, <1>8
      <4>2. first < i - 1 => old < new
        BY <1>4, <3>1, <3>2, <3>3, <4>1
      <4>3. first = i - 1 => old = new
        BY <3>3
      <4> QED
        BY <1>1, <3>1, <4>1, <4>2, <4>3
    <3>5. n <= new
      BY <1>8, <3>3, <3>4
    <3>6. << session, n >> \in EventsOf(history[i - 1])
      BY <1>5, <3>1, <3>2, <3>3, <3>5
    <3> QED
      BY <1>1, <1>8, <2>1, <2>2, <2>5, <3>6
  <2> QED
    BY <1>1, <1>8, <2>1, <2>3, <2>4, <2>5
<1> QED
  BY <1>8, <1>9 DEF session

\* In the page's timeline every event that the last decision was made on is
\* listed once, under the decision that brought it.
THEOREM EvidenceListedOnce == ReviewSpec => []EvidenceIsListedOnce
<1>1. VInv => EvidenceIsListedOnce
  <2> SUFFICES ASSUME VInv, NEW last \in DOMAIN history,
                      NEW n \in 1 .. history[last].number
               PROVE  LET run == { i \in 1 .. last :
                                      \A j \in i .. last : history[j].session = history[last].session }
                      IN Cardinality({ i \in run : << history[last].session, n >> \in NewEvents(i) }) = 1
    BY DEF EvidenceIsListedOnce, EventsOf
  <2> DEFINE run == { i \in 1 .. last : \A j \in i .. last : history[j].session = history[last].session }
             event == << history[last].session, n >>
  <2>1. PICK first \in run : \A i \in run : event \in NewEvents(i) <=> i = first
    <3>1. \A i : i \in run <=> /\ i \in 1 .. last
                               /\ \A j \in i .. last : history[j].session = history[last].session
      OBVIOUS
    <3> HIDE DEF run
    <3> QED
      BY <3>1, NewInOneOfTheRun
  <2>2. { i \in run : event \in NewEvents(i) } = { first }
    <3> HIDE DEF run, event
    <3> QED
      BY <2>1
  <2> QED
    BY <2>2, FS_Singleton
<1> QED
  BY <1>1, ReviewInvariance, PTL

-----------------------------------------------------------------------------
(* The client agent *)

Intervals == [due : Nat, read : { Unread, "unasked", "granted", "declined" }]

Reports == [due : Nat, now : Nat, granted : BOOLEAN, count : Nat]

\* A granted report counted at least the events of the window before its moment
\* and at most those of that moment too.
CountsItsWindow(report) ==
    report.granted =>
        /\ report.count >= Between(report.now - WindowMs, report.now - 1)
        /\ report.count <= Between(report.now - WindowMs, report.now)

\* How many of the events have been dropped.
Dropped == Len(occurred) - Len(timestampsMs)

\* The events are in order of time; the timestamps kept are the last of them,
\* and none of the others is in a window that ends now or later.
GInv ==
    /\ clock \in Nat
    /\ consent \in { "unasked", "granted", "declined" }
    /\ intervals \subseteq Intervals
    /\ occurred \in Seq(Nat) /\ timestampsMs \in Seq(Nat) /\ reports \in Seq(Reports)
    /\ \A n \in 1 .. Len(occurred) : occurred[n] <= clock
    /\ \A m, n \in 1 .. Len(occurred) : m < n => occurred[m] <= occurred[n]
    /\ Dropped >= 0
    /\ \A n \in 1 .. Len(timestampsMs) : timestampsMs[n] = occurred[Dropped + n]
    /\ \A n \in 1 .. Dropped : occurred[n] <= clock - WindowMs
    /\ \A report \in Reports, i \in 1 .. Len(reports) :
          report = reports[i] => report.now <= clock /\ CountsItsWindow(report)

\* The numbers of the events between two times.
Numbers(events, after, upTo) == { n \in 1 .. Len(events) : after < events[n] /\ events[n] <= upTo }

\* Between counts them.
LEMMA NumbersAreCounted ==
    ASSUME NEW events \in Seq(Nat), NEW after \in Int, NEW upTo \in Int
    PROVE  /\ IsFiniteSet(Numbers(events, after, upTo))
           /\ Cardinality(Numbers(events, after, upTo)) \in Nat
           /\ events = occurred =>
                  Between(after, upTo) = Cardinality(Numbers(events, after, upTo))
<1>1. Len(events) \in Nat /\ DOMAIN events = 1 .. Len(events)
  OBVIOUS
<1>2. IsFiniteSet(1 .. Len(events))
  BY <1>1, FS_Interval
<1>3. Numbers(events, after, upTo) \in SUBSET (1 .. Len(events))
  BY DEF Numbers
<1>4. IsFiniteSet(Numbers(events, after, upTo))
  BY <1>2, <1>3, FS_Subset
<1>5. events = occurred =>
          { n \in DOMAIN occurred : after < occurred[n] /\ occurred[n] <= upTo } =
              Numbers(events, after, upTo)
  BY <1>1 DEF Numbers
<1> QED
  BY <1>4, <1>5, FS_CardinalityType DEF Between

\* The events of two stretches that meet are those of both.
LEMMA StretchesAdd ==
    ASSUME occurred \in Seq(Nat), NEW from \in Int, NEW middle \in Int, NEW to \in Int,
           from <= middle, middle <= to
    PROVE  Between(from, to) = Between(from, middle) + Between(middle, to)
<1>1. PICK events \in Seq(Nat) : events = occurred
  OBVIOUS
<1> DEFINE first == Numbers(events, from, middle)
           second == Numbers(events, middle, to)
<1>2. \A n \in 1 .. Len(events) : events[n] \in Nat
  OBVIOUS
<1>3. first \cap second = {} /\ first \union second = Numbers(events, from, to)
  BY <1>2 DEF Numbers
<1>4. /\ IsFiniteSet(first) /\ Between(from, middle) = Cardinality(first)
      /\ IsFiniteSet(second) /\ Between(middle, to) = Cardinality(second)
      /\ Between(from, to) = Cardinality(Numbers(events, from, to))
      /\ Cardinality(first) \in Nat /\ Cardinality(second) \in Nat
  BY <1>1, NumbersAreCounted
<1> HIDE DEF first, second
<1>5. Cardinality(first \union second) = Cardinality(first) + Cardinality(second) - Cardinality(first \cap second)
  BY <1>4, FS_Union
<1>6. Cardinality(first \cap second) = 0
  BY <1>3, FS_EmptySet
<1>7. Cardinality(first \union second) = Cardinality(Numbers(events, from, to))
  BY <1>3
<1> QED
  BY <1>4, <1>5, <1>6, <1>7

\* And counts them again later.
LEMMA CountedLater ==
    ASSUME NEW events \in Seq(Nat), events = occurred', NEW after, NEW upTo
    PROVE  Between(after, upTo)' = Cardinality(Numbers(events, after, upTo))
<1>1. DOMAIN events = 1 .. Len(events)
  OBVIOUS
<1>2. { n \in DOMAIN events : after < events[n] /\ events[n] <= upTo } = Numbers(events, after, upTo)
  BY <1>1 DEF Numbers
<1>3. Between(after, upTo)' = Cardinality({ n \in DOMAIN events : after < events[n] /\ events[n] <= upTo })
  BY DEF Between
<1> QED
  BY <1>2, <1>3

\* Of a later event, a count up to an earlier time knows nothing, and no count
\* gets smaller by it.
LEMMA LaterEvents ==
    ASSUME occurred \in Seq(Nat), NEW at \in Nat, occurred' = Append(occurred, at),
           NEW after \in Int, NEW upTo \in Int
    PROVE  /\ Between(after, upTo)' >= Between(after, upTo)
           /\ upTo < at => Between(after, upTo)' = Between(after, upTo)
<1>1. PICK events \in Seq(Nat), longer \in Seq(Nat) :
          events = occurred /\ longer = Append(events, at) /\ longer = occurred'
  OBVIOUS
<1> DEFINE old == Numbers(events, after, upTo)
           new == Numbers(longer, after, upTo)
<1>2. /\ IsFiniteSet(new) /\ Cardinality(new) \in Nat
      /\ Cardinality(old) \in Nat /\ Between(after, upTo) = Cardinality(old)
  BY <1>1, NumbersAreCounted
<1>3. Between(after, upTo)' = Cardinality(new)
  BY <1>1, CountedLater
<1>4. /\ Len(longer) = Len(events) + 1 /\ Len(events) \in Nat
      /\ \A n \in 1 .. Len(events) : longer[n] = events[n] /\ events[n] \in Nat
      /\ longer[Len(events) + 1] = at
  BY <1>1
<1>5. old \in SUBSET new
  BY <1>4, SMTT(20) DEF Numbers
<1>6. upTo < at => new = old
  BY <1>4, SMTT(20) DEF Numbers
<1> HIDE DEF old, new
<1> QED
  BY <1>2, <1>3, <1>5, <1>6, FS_Subset

\* Time that passes leaves every event behind.
LEMMA PassKeepsCounts == ASSUME GInv, Pass PROVE GInv'
<1>1. /\ clock \in Nat /\ clock' = clock + 1
      /\ UNCHANGED << timestampsMs, consent, choices, reports, occurred >>
  BY DEF GInv, Pass
<1>2. intervals' \subseteq Intervals
  <2>1. [due |-> clock', read |-> Unread] \in Intervals
    BY <1>1 DEF Intervals
  <2> QED
    BY <2>1 DEF GInv, Pass
<1>3. Dropped' = Dropped
  BY <1>1 DEF Dropped
<1>4. \A n \in 1 .. Len(occurred) : occurred[n] \in Nat
  BY DEF GInv
<1>5. \A n \in 1 .. Len(occurred) : occurred[n] <= clock'
  BY <1>1, <1>4 DEF GInv
<1>6. Dropped \in Int /\ Dropped <= Len(occurred)
  BY DEF GInv, Dropped
<1>7. \A n \in 1 .. Dropped : occurred[n] <= clock' - WindowMs
  BY <1>1, <1>4, <1>6, AgentAssumption, SMTT(30) DEF GInv
<1>8. ASSUME NEW report \in Reports, NEW i \in 1 .. Len(reports), report = reports[i]
      PROVE  report.now <= clock' /\ CountsItsWindow(report)'
  <2>2. report.now \in Nat
    BY DEF Reports
  <2>3. report.now <= clock /\ CountsItsWindow(report)
    BY <1>8 DEF GInv
  <2>4. CountsItsWindow(report)'
    BY <1>1, <2>3 DEF CountsItsWindow, Between
  <2> QED
    BY <1>1, <2>2, <2>3, <2>4
<1>9. (\A n \in 1 .. Len(timestampsMs) : timestampsMs[n] = occurred[Dropped + n])'
  BY <1>1, <1>3 DEF GInv
<1>10. (\A n \in 1 .. Dropped : occurred[n] <= clock - WindowMs)'
  BY <1>1, <1>3, <1>7
<1>11. (\A report \in Reports, i \in 1 .. Len(reports) :
           report = reports[i] => report.now <= clock /\ CountsItsWindow(report))'
  BY <1>1, <1>8
<1>12. (\A n \in 1 .. Len(occurred) : occurred[n] <= clock)' /\ clock' \in Nat
  BY <1>1, <1>5
<1> QED
  BY <1>1, <1>2, <1>3, <1>9, <1>10, <1>11, <1>12 DEF GInv

\* An event recorded is the latest, and is kept.
LEMMA RecordKeepsCounts == ASSUME GInv, Record PROVE GInv'
<1>1. PICK events \in Seq(Nat), kept \in Seq(Nat) : events = occurred /\ kept = timestampsMs
  BY DEF GInv
<1>2. PICK at \in Nat : at = clock
  BY DEF GInv
<1>3. /\ occurred' = Append(events, at) /\ timestampsMs' = Append(kept, at)
      /\ UNCHANGED << clock, consent, choices, intervals, reports >>
  BY <1>1, <1>2 DEF Record
<1>4. PICK longer \in Seq(Nat) :
          /\ longer = Append(events, at) /\ Len(longer) = Len(events) + 1
          /\ \A n \in 1 .. Len(events) : longer[n] = events[n]
          /\ longer[Len(events) + 1] = at
  BY AppendProperties
<1>13. PICK more \in Seq(Nat) :
          /\ more = Append(kept, at) /\ Len(more) = Len(kept) + 1
          /\ \A n \in 1 .. Len(kept) : more[n] = kept[n]
          /\ more[Len(kept) + 1] = at
  BY AppendProperties
<1>5. /\ Len(events) \in Nat /\ Len(kept) \in Nat
      /\ \A n \in 1 .. Len(events) : events[n] \in Nat
  OBVIOUS
<1>14. \A n \in 1 .. Len(events) : events[n] <= at
  BY <1>1, <1>2 DEF GInv
<1>6. PICK dropped \in Nat : dropped = Dropped /\ dropped = Len(events) - Len(kept)
  <2>1. Dropped = Len(events) - Len(kept) /\ Dropped >= 0
    BY <1>1 DEF GInv, Dropped
  <2>2. Len(events) - Len(kept) \in Nat
    BY <1>5, <2>1
  <2> QED
    BY <2>1, <2>2
<1>7. Dropped' = dropped
  <2>1. Dropped' = Len(longer) - Len(more)
    BY <1>3, <1>4, <1>13 DEF Dropped
  <2>2. Len(longer) = Len(events) + 1 /\ Len(more) = Len(kept) + 1
    BY <1>4, <1>13
  <2> HIDE DEF Dropped
  <2> QED
    BY <1>5, <1>6, <2>1, <2>2
<1>15. \A n \in 1 .. Len(longer) : n \in 1 .. Len(events) \/ n = Len(events) + 1
  BY <1>4, <1>5
<1>8. \A n \in 1 .. Len(longer) : longer[n] <= at
  BY <1>4, <1>14, <1>15
<1>9. \A m, n \in 1 .. Len(longer) : m < n => longer[m] <= longer[n]
  <2> TAKE m, n \in 1 .. Len(longer)
  <2> HAVE m < n
  <2>1. m \in 1 .. Len(events) /\ longer[m] = events[m]
    BY <1>4, <1>5, <1>15
  <2>2. CASE n \in 1 .. Len(events)
    <3>1. events[m] <= events[n]
      BY <1>1, <2>1, <2>2 DEF GInv
    <3> QED
      BY <1>4, <2>1, <2>2, <3>1
  <2>3. CASE n = Len(events) + 1
    <3>1. longer[n] = at /\ longer[m] <= at
      BY <1>4, <1>8, <2>3
    <3> QED
      BY <3>1
  <2> QED
    BY <1>15, <2>2, <2>3
<1>10. \A n \in 1 .. Len(more) : more[n] = longer[dropped + n]
  <2> TAKE n \in 1 .. Len(more)
  <2>1. CASE n \in 1 .. Len(kept)
    <3>1. more[n] = kept[n] /\ kept[n] = events[dropped + n]
      BY <1>1, <1>6, <1>13, <2>1 DEF GInv
    <3>2. dropped + n \in 1 .. Len(events)
      BY <1>5, <1>6, <2>1
    <3> QED
      BY <1>4, <3>1, <3>2
  <2>2. CASE n = Len(kept) + 1
    <3>1. dropped + n = Len(events) + 1
      BY <1>5, <1>6, <2>2
    <3> QED
      BY <1>4, <1>13, <2>2, <3>1
  <2> QED
    BY <1>5, <1>13, <2>1, <2>2
<1>11. \A n \in 1 .. dropped : longer[n] <= at - WindowMs
  <2> TAKE n \in 1 .. dropped
  <2>1. n \in 1 .. Len(events)
    BY <1>5, <1>6
  <2>2. events[n] <= at - WindowMs
    BY <1>1, <1>2, <1>6 DEF GInv
  <2> QED
    BY <1>4, <2>1, <2>2
<1>12. ASSUME NEW report \in Reports, NEW i \in 1 .. Len(reports), report = reports[i]
       PROVE  report.now <= at /\ CountsItsWindow(report)'
  <2>1. report.now <= at /\ CountsItsWindow(report)
    BY <1>2, <1>12 DEF GInv
  <2>2. /\ report.now \in Nat /\ report.now <= at /\ report.count \in Nat
        /\ CountsItsWindow(report)
    BY <2>1 DEF Reports
  <2>3. /\ report.now - WindowMs \in Int /\ report.now - 1 \in Int /\ report.now - 1 < at
    BY <2>2, AgentAssumption
  <2>4. Between(report.now - WindowMs, report.now - 1)' = Between(report.now - WindowMs, report.now - 1)
    <3>1. occurred \in Seq(Nat) /\ occurred' = Append(occurred, at)
      BY <1>1, <1>3
    <3> QED
      BY <2>3, <3>1, LaterEvents
  <2>5. Between(report.now - WindowMs, report.now)' >= Between(report.now - WindowMs, report.now)
    <3>1. occurred \in Seq(Nat) /\ occurred' = Append(occurred, at)
      BY <1>1, <1>3
    <3>2. report.now \in Int
      BY <2>2
    <3> QED
      BY <2>3, <3>1, <3>2, LaterEvents
  <2>6. Between(report.now - WindowMs, report.now) \in Nat /\ Between(report.now - WindowMs, report.now)' \in Nat
    <3>1. /\ Between(report.now - WindowMs, report.now) = Cardinality(Numbers(events, report.now - WindowMs, report.now))
          /\ Cardinality(Numbers(events, report.now - WindowMs, report.now)) \in Nat
      BY <1>1, <2>2, <2>3, NumbersAreCounted
    <3>2. longer = occurred'
      BY <1>3, <1>4
    <3>3. Cardinality(Numbers(longer, report.now - WindowMs, report.now)) \in Nat
      BY <2>2, <2>3, NumbersAreCounted
    <3>4. Between(report.now - WindowMs, report.now)' = Cardinality(Numbers(longer, report.now - WindowMs, report.now))
      BY <3>2, CountedLater
    <3> QED
      BY <3>1, <3>3, <3>4
  <2>7. CountsItsWindow(report)'
    BY <2>2, <2>4, <2>5, <2>6 DEF CountsItsWindow
  <2> QED
    BY <2>2, <2>7
<1> QED
  BY <1>2, <1>3, <1>4, <1>6, <1>7, <1>8, <1>9, <1>10, <1>11, <1>12, <1>13, ZenonT(60) DEF GInv

\* countInWindow drops timestamps from the front, up to the first inside.
LEMMA KeptIsTheRest ==
    ASSUME NEW kept \in Seq(Nat), kept = timestampsMs, NEW now \in Nat
    PROVE  \E k \in 0 .. Len(kept) :
               /\ Kept(now) \in Seq(Nat) /\ Len(Kept(now)) = Len(kept) - k
               /\ \A n \in 1 .. Len(kept) - k : Kept(now)[n] = kept[k + n]
               /\ \A n \in 1 .. k : kept[n] <= now - WindowMs
               /\ k < Len(kept) => kept[k + 1] > now - WindowMs
<1> DEFINE inside == { n \in 1 .. Len(kept) : ~Outside(kept[n], now) }
           firstKept == IF inside # {} THEN Min(inside) ELSE 0
<1>1. Len(kept) \in Nat /\ \A n \in 1 .. Len(kept) : kept[n] \in Nat
  OBVIOUS
<1>2. Kept(now) = IF firstKept = 0 THEN << >> ELSE SubSeq(kept, firstKept, Len(kept))
  BY DEF Kept, SelectInSeq
<1>3. \A n \in 1 .. Len(kept) : n \in inside <=> kept[n] > now - WindowMs
  BY <1>1, AgentAssumption DEF Outside
<1>4. inside \subseteq 1 .. Len(kept)
  OBVIOUS
<1>5. CASE inside = {}
  <2>1. Kept(now) = << >> /\ Len(kept) - Len(kept) = 0
    BY <1>1, <1>2, <1>5
  <2>2. \A n \in 1 .. Len(kept) : kept[n] <= now - WindowMs
    BY <1>1, <1>3, <1>5, AgentAssumption
  <2> QED
    BY <1>1, <2>1, <2>2
<1>6. CASE inside # {}
  <2>1. PICK first \in inside : \A n \in inside : first <= n
    <3>1. inside \subseteq Nat
      BY <1>4
    <3> HIDE DEF inside
    <3> QED
      BY <1>6, <3>1, LeastOfNumbers
  <2>2. firstKept = first
    <3>1. Min(inside) \in inside /\ \A n \in inside : Min(inside) <= n
      BY <2>1 DEF Min
    <3>2. Min(inside) \in Int /\ first \in Int
      BY <1>4, <2>1, <3>1
    <3> HIDE DEF inside
    <3> QED
      BY <1>6, <2>1, <3>1, <3>2
  <2>3. first \in 1 .. Len(kept) /\ first - 1 \in 0 .. Len(kept)
    <3>1. first \in 1 .. Len(kept)
      BY <1>4, <2>1
    <3> HIDE DEF inside
    <3> QED
      BY <1>1, <3>1
  <2>4. Kept(now) = SubSeq(kept, first, Len(kept))
    <3>1. first # 0
      BY <2>3
    <3> HIDE DEF firstKept, inside
    <3> QED
      BY <1>2, <2>2, <3>1
  <2>5. /\ SubSeq(kept, first, Len(kept)) \in Seq(Nat)
        /\ Len(SubSeq(kept, first, Len(kept))) = Len(kept) - first + 1
        /\ \A n \in 1 .. Len(kept) - first + 1 : SubSeq(kept, first, Len(kept))[n] = kept[first + n - 1]
    <3>1. \A n \in first .. Len(kept) : kept[n] \in Nat
      BY <1>1, <2>3
    <3> QED
      BY <1>1, <2>3, <3>1, SubSeqProperties
  <2>6. \A n \in 1 .. first - 1 : kept[n] <= now - WindowMs
    <3> TAKE n \in 1 .. first - 1
    <3>1. n \in 1 .. Len(kept) /\ ~(first <= n)
      BY <1>1, <2>3
    <3>2. n \notin inside
      BY <2>1, <3>1
    <3> HIDE DEF inside
    <3> QED
      BY <1>1, <1>3, <3>1, <3>2, AgentAssumption
  <2>7. kept[first] > now - WindowMs
    BY <1>3, <2>1, <2>3
  <2>8. WITNESS first - 1 \in 0 .. Len(kept)
  <2>9. Len(kept) - first + 1 = Len(kept) - (first - 1) /\ (first - 1) + 1 = first
    BY <1>1, <2>3
  <2>10. \A n \in 1 .. Len(kept) - (first - 1) : Kept(now)[n] = kept[(first - 1) + n]
    <3> TAKE n \in 1 .. Len(kept) - (first - 1)
    <3>1. first + n - 1 = (first - 1) + n /\ n \in 1 .. Len(kept) - first + 1
      BY <1>1, <2>3
    <3> QED
      BY <2>4, <2>5, <3>1
  <2> QED
    BY <2>4, <2>5, <2>6, <2>7, <2>9, <2>10
<1> QED
  BY <1>5, <1>6

\* A report counts its window, and the events it drops no later one will miss.
LEMMA ReportCounts ==
    ASSUME GInv, NEW interval \in intervals, Report(interval) PROVE GInv'
<1>1. PICK events \in Seq(Nat), kept \in Seq(Nat), now \in Nat :
          events = occurred /\ kept = timestampsMs /\ now = clock
  BY DEF GInv
<1>2. PICK granted \in BOOLEAN : granted = (interval.read = "granted")
  OBVIOUS
<1>3. PICK rest : rest = timestampsMs'
  OBVIOUS
<1>4. PICK report : report = [due |-> interval.due, now |-> now, granted |-> granted,
                              count |-> IF granted THEN Len(rest) ELSE 0]
  OBVIOUS
<1>5. /\ rest = IF granted THEN Kept(now) ELSE kept
      /\ reports' = Append(reports, report)
      /\ intervals' = intervals \ { interval }
      /\ UNCHANGED << clock, consent, choices, occurred >>
  BY <1>1, <1>2, <1>3, <1>4 DEF Report
<1>6. PICK k \in 0 .. Len(kept) :
          /\ rest \in Seq(Nat) /\ Len(rest) = Len(kept) - k
          /\ \A n \in 1 .. Len(kept) - k : rest[n] = kept[k + n]
          /\ \A n \in 1 .. k : kept[n] <= now - WindowMs
          /\ granted /\ k < Len(kept) => kept[k + 1] > now - WindowMs
  <2>1. CASE granted
    BY <1>1, <1>5, <2>1, KeptIsTheRest
  <2>2. CASE ~granted
    <3>1. rest = kept /\ Len(kept) \in Nat
      BY <1>5, <2>2
    <3> QED
      BY <2>2, <3>1
  <2> QED
    BY <2>1, <2>2
<1>7. /\ Len(events) \in Nat /\ Len(kept) \in Nat
      /\ \A n \in 1 .. Len(events) : events[n] \in Nat
  OBVIOUS
<1>8. PICK dropped \in Nat : dropped = Dropped /\ dropped = Len(events) - Len(kept)
  <2>1. Dropped = Len(events) - Len(kept) /\ Dropped >= 0
    BY <1>1 DEF GInv, Dropped
  <2>2. Len(events) - Len(kept) \in Nat
    BY <1>7, <2>1
  <2> QED
    BY <2>1, <2>2
<1>9. /\ \A n \in 1 .. Len(kept) : kept[n] = events[dropped + n]
      /\ \A n \in 1 .. dropped : events[n] <= now - WindowMs
      /\ \A m, n \in 1 .. Len(events) : m < n => events[m] <= events[n]
      /\ \A n \in 1 .. Len(events) : events[n] <= now
  BY <1>1, <1>8 DEF GInv
<1>20. /\ k \in Nat /\ k <= Len(kept) /\ Len(kept) \in Nat /\ Len(events) \in Nat
       /\ Len(events) = dropped + Len(kept) /\ Len(rest) = Len(kept) - k /\ Len(rest) \in Nat
  <2>1. Len(kept) \in Nat
    BY <1>7
  <2>2. k \in Nat /\ k <= Len(kept)
    BY <2>1
  <2>3. Len(rest) = Len(kept) - k
    BY <1>6
  <2> QED
    BY <1>7, <1>8, <2>2, <2>3
<1>10. Dropped' = dropped + k /\ dropped + k >= 0
  <2>1. Dropped' = Len(events) - Len(rest)
    BY <1>1, <1>3, <1>5 DEF Dropped
  <2> HIDE DEF Dropped
  <2> QED
    BY <1>6, <1>7, <1>8, <2>1
<1>11. \A n \in 1 .. Len(rest) : rest[n] = events[(dropped + k) + n]
  <2> TAKE n \in 1 .. Len(rest)
  <2>1. n \in 1 .. Len(kept) - k /\ k + n \in 1 .. Len(kept) /\ dropped + (k + n) = (dropped + k) + n
    BY <1>6, <1>7, <1>8
  <2> QED
    BY <1>6, <1>9, <2>1
<1>12. \A n \in 1 .. dropped + k : events[n] <= now - WindowMs
  <2> TAKE n \in 1 .. dropped + k
  <2>1. CASE n <= dropped
    BY <1>8, <1>9, <2>1
  <2>2. CASE n > dropped
    <3>1. n - dropped \in 1 .. k /\ n - dropped \in 1 .. Len(kept) /\ dropped + (n - dropped) = n
      BY <1>20, <2>2
    <3>2. kept[n - dropped] <= now - WindowMs /\ kept[n - dropped] = events[n]
      BY <1>6, <1>9, <3>1
    <3> QED
      BY <3>2
  <2> QED
    BY <1>8, <2>1, <2>2
<1>13. ASSUME granted PROVE Numbers(events, now - WindowMs, now) = dropped + k + 1 .. Len(events)
  <2>1. ASSUME NEW n \in 1 .. Len(events), n > dropped + k PROVE events[n] > now - WindowMs
    <3>1. k < Len(kept) /\ k + 1 \in 1 .. Len(kept)
      BY <1>6, <1>7, <1>8, <2>1, SMTT(20)
    <3>2. PICK at \in Nat : at = events[dropped + (k + 1)] /\ at > now - WindowMs
      <4>1. kept[k + 1] > now - WindowMs /\ kept[k + 1] \in Nat
        BY <1>6, <1>13, <3>1, SMTT(20)
      <4>2. kept[k + 1] = events[dropped + (k + 1)]
        BY <1>9, <3>1
      <4> QED
        BY <4>1, <4>2
    <3>3. dropped + (k + 1) \in 1 .. Len(events) /\ dropped + (k + 1) <= n
      BY <1>20, <2>1, <3>1
    <3>4. PICK its \in Nat : its = events[n]
      BY <1>7
    <3>5. at <= its
      <4>1. dropped + (k + 1) < n => at <= its
        BY <1>9, <3>2, <3>3, <3>4
      <4>2. dropped + (k + 1) = n => at = its
        BY <3>2, <3>4
      <4> QED
        BY <3>3, <4>1, <4>2
    <3> QED
      BY <3>2, <3>4, <3>5, AgentAssumption
  <2>2. ASSUME NEW n \in 1 .. Len(events), n <= dropped + k PROVE ~(events[n] > now - WindowMs)
    <3>1. events[n] <= now - WindowMs /\ events[n] \in Nat
      BY <1>6, <1>7, <1>12, <2>2
    <3> QED
      BY <3>1, AgentAssumption
  <2>3. \A n \in 1 .. Len(events) : n \in Numbers(events, now - WindowMs, now) <=> n > dropped + k
    <3> TAKE n \in 1 .. Len(events)
    <3>1. now - WindowMs < events[n] <=> events[n] > now - WindowMs
      OBVIOUS
    <3>2. n > dropped + k \/ n <= dropped + k
      BY <1>6
    <3> QED
      BY <1>9, <2>1, <2>2, <3>1, <3>2 DEF Numbers
  <2>4. Numbers(events, now - WindowMs, now) \subseteq 1 .. Len(events)
    BY DEF Numbers
  <2> QED
    <3>1. \A n : n \in dropped + k + 1 .. Len(events) <=> n \in 1 .. Len(events) /\ n > dropped + k
      BY <1>20, SMTT(20)
    <3> QED
      BY <2>3, <2>4, <3>1
<1>14. report \in Reports
  <2>1. interval.due \in Nat
    BY DEF GInv, Intervals
  <2>2. Len(rest) \in Nat
    BY <1>6
  <2> QED
    BY <1>4, <2>1, <2>2 DEF Reports
<1>15. CountsItsWindow(report)'
  <2> SUFFICES ASSUME granted
               PROVE  /\ Len(rest) >= Between(now - WindowMs, now - 1)'
                      /\ Len(rest) <= Between(now - WindowMs, now)'
    BY <1>4 DEF CountsItsWindow
  <2>1. now - WindowMs \in Int /\ now - 1 \in Int
    BY AgentAssumption
  <2>2. /\ Between(now - WindowMs, now)' = Cardinality(Numbers(events, now - WindowMs, now))
        /\ Between(now - WindowMs, now - 1)' = Cardinality(Numbers(events, now - WindowMs, now - 1))
    BY <1>1, <1>5, CountedLater
  <2>3. Cardinality(Numbers(events, now - WindowMs, now)) = Len(rest)
    <3>1. Cardinality(dropped + k + 1 .. Len(events)) =
              IF dropped + k + 1 > Len(events) THEN 0 ELSE Len(events) - (dropped + k + 1) + 1
      <4>1. dropped + k + 1 \in Int /\ Len(events) \in Int
        BY <1>20
      <4> QED
        BY <4>1, FS_Interval
    <3>2. Len(events) - (dropped + k + 1) + 1 = Len(rest) /\ dropped + k <= Len(events)
      BY <1>20
    <3>3. dropped + k + 1 > Len(events) => Len(rest) = 0
      BY <1>20
    <3>4. Cardinality(dropped + k + 1 .. Len(events)) = Len(rest)
      BY <3>1, <3>2, <3>3
    <3> QED
      BY <1>13, <3>4
  <2>4. Cardinality(Numbers(events, now - WindowMs, now - 1)) <= Cardinality(Numbers(events, now - WindowMs, now))
    <3>1. Numbers(events, now - WindowMs, now - 1) \in SUBSET Numbers(events, now - WindowMs, now)
      BY <1>7 DEF Numbers
    <3>2. IsFiniteSet(Numbers(events, now - WindowMs, now))
      BY <2>1, NumbersAreCounted
    <3> QED
      BY <3>1, <3>2, FS_Subset
  <2>5. Cardinality(Numbers(events, now - WindowMs, now - 1)) \in Nat /\ Len(rest) \in Nat
    BY <1>6, <2>1, NumbersAreCounted
  <2> QED
    BY <2>2, <2>3, <2>4, <2>5
<1>16. PICK made \in Seq(Reports) : made = reports
  BY DEF GInv
<1>17. /\ Append(made, report) \in Seq(Reports) /\ Len(Append(made, report)) = Len(made) + 1
       /\ \A i \in 1 .. Len(made) : Append(made, report)[i] = made[i]
       /\ Append(made, report)[Len(made) + 1] = report
  BY <1>14, AppendProperties
<1>18. ASSUME NEW old \in Reports, NEW i \in 1 .. Len(made) + 1, old = Append(made, report)[i]
       PROVE  old.now <= now /\ CountsItsWindow(old)'
  <2>1. CASE i \in 1 .. Len(made)
    <3>1. old = made[i]
      BY <1>17, <1>18, <2>1
    <3>2. old.now <= clock /\ CountsItsWindow(old)
      BY <1>16, <2>1, <3>1 DEF GInv
    <3>3. CountsItsWindow(old)'
      BY <1>5, <3>2 DEF CountsItsWindow, Between
    <3> QED
      BY <1>1, <3>2, <3>3
  <2>2. CASE i = Len(made) + 1
    <3>1. old = report
      BY <1>17, <1>18, <2>2
    <3>2. report.now <= now
      BY <1>4
    <3> QED
      BY <1>15, <3>1, <3>2
  <2> QED
    BY <2>1, <2>2
<1>19. reports' = Append(made, report)
  BY <1>5, <1>16
<1>21. /\ clock' = now /\ occurred' = events /\ timestampsMs' = rest
       /\ consent' = consent /\ intervals' \subseteq intervals
  BY <1>1, <1>3, <1>5
<1>22. \A n \in 1 .. Dropped' : events[n] <= now - WindowMs
  BY <1>10, <1>12
<1>23. \A n \in 1 .. Len(rest) : rest[n] = events[Dropped' + n]
  BY <1>10, <1>11
<1>24. /\ now \in Nat /\ consent \in { "unasked", "granted", "declined" }
       /\ intervals \subseteq Intervals /\ rest \in Seq(Nat)
  BY <1>6 DEF GInv
<1> QED
  BY <1>9, <1>10, <1>17, <1>18, <1>19, <1>21, <1>22, <1>23, <1>24 DEF GInv

\* Neither a choice nor the storage touches the events.
LEMMA OthersKeepCounts ==
    ASSUME GInv, UNCHANGED << clock, timestampsMs, reports, occurred >>,
           consent' \in { "unasked", "granted", "declined" }, intervals' \subseteq Intervals
    PROVE  GInv'
<1>1. Dropped' = Dropped
  BY DEF Dropped
<1>2. ASSUME NEW report \in Reports, NEW i \in 1 .. Len(reports), report = reports[i]
      PROVE  report.now <= clock' /\ CountsItsWindow(report)'
  BY <1>2 DEF GInv, CountsItsWindow, Between
<1> QED
  BY <1>1, <1>2 DEF GInv

\* Every report made counts its own window, whatever was pruned before it.
THEOREM AgentInvariance == AgentSpec => []GInv
<1>1. AgentInit => GInv
  <2> SUFFICES ASSUME AgentInit PROVE GInv
    OBVIOUS
  <2>1. Len(occurred) = 0 /\ Len(reports) = 0 /\ Len(timestampsMs) = 0
    BY DEF AgentInit
  <2>2. Dropped = 0
    BY <2>1 DEF Dropped
  <2> HIDE DEF Dropped
  <2> QED
    BY <2>1, <2>2 DEF AgentInit, GInv
<1>2. GInv /\ [AgentNext]_agentVars => GInv'
  <2> SUFFICES ASSUME GInv, [AgentNext]_agentVars PROVE GInv'
    OBVIOUS
  <2>1. CASE Pass
    BY <2>1, PassKeepsCounts
  <2>2. CASE Record
    BY <2>2, RecordKeepsCounts
  <2>3. ASSUME NEW choice \in { "granted", "declined" }, ChooseConsent(choice) PROVE GInv'
    <3>1. consent' \in { "unasked", "granted", "declined" } /\ intervals' \subseteq Intervals
      BY <2>3 DEF ChooseConsent, GInv
    <3> QED
      BY <2>3, <3>1, OthersKeepCounts DEF ChooseConsent
  <2>4. ASSUME NEW interval \in intervals, Read(interval) PROVE GInv'
    <3>1. consent' \in { "unasked", "granted", "declined" } /\ consent' = consent
      BY <2>4 DEF Read, GInv
    <3>2. [interval EXCEPT !.read = consent] \in Intervals
      BY <3>1 DEF GInv, Intervals
    <3>3. intervals' \subseteq Intervals
      BY <2>4, <3>2 DEF Read, GInv
    <3> QED
      BY <2>4, <3>1, <3>3, OthersKeepCounts DEF Read
  <2>5. ASSUME NEW interval \in intervals, StorageFails(interval) PROVE GInv'
    <3>1. consent' \in { "unasked", "granted", "declined" } /\ intervals' \subseteq Intervals
      BY <2>5 DEF StorageFails, GInv
    <3> QED
      BY <2>5, <3>1, OthersKeepCounts DEF StorageFails
  <2>6. ASSUME NEW interval \in intervals, Report(interval) PROVE GInv'
    BY <2>6, ReportCounts
  <2>7. CASE UNCHANGED agentVars
    <3>1. consent' \in { "unasked", "granted", "declined" } /\ intervals' \subseteq Intervals
      BY <2>7 DEF agentVars, GInv
    <3> QED
      BY <2>7, <3>1, OthersKeepCounts DEF agentVars
  <2> QED
    BY <2>1, <2>2, <2>3, <2>4, <2>5, <2>6, <2>7 DEF AgentNext
<1> QED
  BY <1>1, <1>2, PTL DEF AgentSpec

\* Two reports one window apart count every event of both windows once.
THEOREM ReportsTile == AgentSpec => []ReportsTileTheirWindows
<1>1. GInv => ReportsTileTheirWindows
  <2> SUFFICES ASSUME GInv, NEW i \in DOMAIN reports, NEW j \in DOMAIN reports,
                      reports[i].granted, reports[j].granted,
                      reports[j].now = reports[i].now + WindowMs
               PROVE  LET counted == reports[i].count + reports[j].count
                          from == reports[i].now - WindowMs
                      IN /\ counted >= Between(from, reports[i].now - 1)
                                           + Between(reports[i].now, reports[j].now - 1)
                         /\ counted <= Between(from, reports[j].now)
    BY DEF ReportsTileTheirWindows
  <2>1. PICK one \in Reports, other \in Reports : one = reports[i] /\ other = reports[j]
    BY DEF GInv
  <2>2. CountsItsWindow(one) /\ CountsItsWindow(other)
    BY <2>1 DEF GInv
  <2>3. PICK middle \in Nat, to \in Nat, from \in Int, mine \in Nat, its \in Nat :
            /\ middle = one.now /\ to = other.now /\ from = one.now - WindowMs
            /\ mine = one.count /\ its = other.count
    BY AgentAssumption DEF Reports
  <2>4. middle = to - WindowMs /\ from <= middle /\ middle <= to /\ middle - 1 \in Int /\ to - 1 \in Int
    BY <2>1, <2>3, AgentAssumption
  <2>5. /\ mine >= Between(from, middle - 1) /\ mine <= Between(from, middle)
        /\ its >= Between(middle, to - 1) /\ its <= Between(middle, to)
    BY <2>1, <2>2, <2>3, <2>4 DEF CountsItsWindow
  <2>6. Between(from, to) = Between(from, middle) + Between(middle, to)
    BY <2>4, StretchesAdd DEF GInv
  <2>7. \A x, y \in Int : Between(x, y) \in Nat
    <3>1. PICK events \in Seq(Nat) : events = occurred
      BY DEF GInv
    <3> QED
      BY <3>1, NumbersAreCounted
  <2>8. /\ Between(from, middle - 1) \in Nat /\ Between(from, middle) \in Nat
        /\ Between(middle, to - 1) \in Nat /\ Between(middle, to) \in Nat
    BY <2>4, <2>7
  <2>9. /\ mine + its >= Between(from, middle - 1) + Between(middle, to - 1)
        /\ mine + its <= Between(from, to)
    BY <2>5, <2>6, <2>8
  <2> QED
    BY <2>1, <2>3, <2>9
<1> QED
  BY <1>1, AgentInvariance, PTL

-----------------------------------------------------------------------------
(* Routing *)

\* Whatever may stand in the registry.
Owners ==
    {NoOwner} \union Replicas
        \union { RingOwner[replicaIds][session] : replicaIds \in Fleets, session \in Sessions }

Resolving == { "reading", "read", "writing" }

CallPhases == Resolving \union { "answered", "comparing", "deleting", "released" }

Lookups ==
    {Idle} \union
    [phase : CallPhases, by : Routers \union Replicas, session : Sessions, owner : Owners,
     raced : BOOLEAN]

\* A release that is about to delete saw its own replica's entry, which since
\* then has only been removed, unless another owner was written.
DeletesOwnOrRaced(call) ==
    call.phase = "deleting" =>
        registry[call.session] \in { call.by, NoOwner } \/ call.raced

\* Of a call: its kind, whose it is, and what it may delete.
Consistent(call) ==
    /\ call.phase \in Resolving => call.by \in Routers
    /\ DeletesOwnOrRaced(call)

RInv ==
    /\ fleet \in [Routers -> Fleets]
    /\ registry \in [Sessions -> Owners]
    /\ lookups \in [RoutingCalls -> Lookups]
    /\ \A c \in RoutingCalls : Consistent(lookups[c])

-----------------------------------------------------------------------------
\* A step in which one call goes on, and neither the registry nor a fleet
\* changes, keeps the invariant if the call's new state is consistent.
LEMMA OneCallMoves ==
    ASSUME RInv, UNCHANGED << registry, fleet >>,
           NEW c \in RoutingCalls, NEW call \in Lookups, Proceed(c, call), Consistent(call)
    PROVE  RInv'
<1>1. lookups' \in [RoutingCalls -> Lookups]
  BY DEF RInv, Proceed
<1>2. ASSUME NEW d \in RoutingCalls PROVE Consistent(lookups[d])'
  <2>1. lookups'[d] = IF d = c THEN call ELSE lookups[d]
    BY DEF RInv, Proceed
  <2>2. Consistent(lookups'[d])
    BY <2>1 DEF RInv
  <2> QED
    BY <2>2 DEF Consistent, DeletesOwnOrRaced
<1> QED
  BY <1>1, <1>2 DEF RInv

\* Of a call that is under way every field is there.
LEMMA UnderWay ==
    ASSUME RInv, NEW c \in RoutingCalls, lookups[c].phase # "idle"
    PROVE  lookups[c] \in [phase : CallPhases, by : Routers \union Replicas, session : Sessions,
                           owner : Owners, raced : BOOLEAN]
  BY DEF RInv, Lookups, Idle

\* At the start nothing is recorded and no call is under way.
LEMMA RoutingStarts == RoutingInit => RInv
<1> SUFFICES ASSUME RoutingInit PROVE RInv
  OBVIOUS
<1>1. Idle \in Lookups /\ NoOwner \in Owners
  BY DEF Lookups, Owners
<1>2. Consistent(Idle)
  BY DEF Consistent, DeletesOwnOrRaced, Idle, Resolving
<1> QED
  BY <1>1, <1>2 DEF RoutingInit, RInv

\* A new call, of a router or of a releasing replica.
LEMMA NewCallKeeps ==
    ASSUME RInv, NEW c \in RoutingCalls, NEW session \in Sessions,
           \/ \E router \in Routers : ResolveOwner(c, router, session)
           \/ \E replica \in Replicas : ReleaseOwner(c, replica, session)
    PROVE  RInv'
<1>1. ASSUME NEW router \in Routers, ResolveOwner(c, router, session) PROVE RInv'
  <2> DEFINE call == Lookup("reading", router, session, NoOwner, FALSE)
  <2>1. call \in Lookups
    BY DEF Lookup, Lookups, CallPhases, Resolving, Owners
  <2>2. Consistent(call)
    BY DEF Consistent, DeletesOwnOrRaced, Lookup
  <2> QED
    BY <1>1, <2>1, <2>2, OneCallMoves DEF ResolveOwner
<1>2. ASSUME NEW replica \in Replicas, ReleaseOwner(c, replica, session) PROVE RInv'
  <2> DEFINE call == Lookup("comparing", replica, session, replica, FALSE)
  <2>1. call \in Lookups
    BY DEF Lookup, Lookups, CallPhases, Resolving, Owners
  <2>2. Consistent(call)
    BY DEF Consistent, DeletesOwnOrRaced, Lookup, Resolving
  <2> QED
    BY <1>2, <2>1, <2>2, OneCallMoves DEF ReleaseOwner
<1> QED
  BY <1>1, <1>2

\* The router's read, answered or refused.
LEMMA GetKeeps ==
    ASSUME RInv, NEW c \in RoutingCalls, GetOwner(c) \/ GetOwnerFails(c) PROVE RInv'
<1>1. /\ lookups[c].phase = "reading" /\ UNCHANGED << registry, fleet >>
      /\ Consistent(lookups[c])
  BY DEF GetOwner, GetOwnerFails, RInv
<1>2. lookups[c] \in [phase : CallPhases, by : Routers \union Replicas, session : Sessions,
                      owner : Owners, raced : BOOLEAN]
  BY <1>1, UnderWay
<1>3. PICK owner \in Owners :
          Proceed(c, [lookups[c] EXCEPT !.phase = "read", !.owner = owner])
  <2>1. registry[lookups[c].session] \in Owners /\ NoOwner \in Owners
    BY <1>2 DEF RInv, Owners
  <2> QED
    BY <2>1 DEF GetOwner, GetOwnerFails
<1> DEFINE call == [lookups[c] EXCEPT !.phase = "read", !.owner = owner]
<1>4. call \in Lookups
  BY <1>2 DEF Lookups, CallPhases, Resolving
<1>5. Consistent(call)
  BY <1>1, <1>2 DEF Consistent, DeletesOwnOrRaced, Resolving
<1> QED
  BY <1>1, <1>3, <1>4, <1>5, OneCallMoves

\* The router's choice.
LEMMA ChooseKeeps ==
    ASSUME RInv, NEW c \in RoutingCalls, Choose(c) PROVE RInv'
<1>1. /\ lookups[c].phase = "read" /\ UNCHANGED << registry, fleet >>
      /\ Consistent(lookups[c]) /\ lookups[c].by \in Routers
  BY DEF Choose, RInv, Consistent, Resolving
<1>2. lookups[c] \in [phase : CallPhases, by : Routers \union Replicas, session : Sessions,
                      owner : Owners, raced : BOOLEAN]
  BY <1>1, UnderWay
<1>3. CASE Proceed(c, [lookups[c] EXCEPT !.phase = "answered"])
  <2> DEFINE call == [lookups[c] EXCEPT !.phase = "answered"]
  <2>1. call \in Lookups
    BY <1>2 DEF Lookups, CallPhases
  <2>2. Consistent(call)
    BY <1>2 DEF Consistent, DeletesOwnOrRaced, Resolving
  <2> QED
    BY <1>1, <1>3, <2>1, <2>2, OneCallMoves
<1>4. CASE Proceed(c, [lookups[c] EXCEPT
                 !.phase = "writing",
                 !.owner = RingOwner[fleet[lookups[c].by]][lookups[c].session]])
  <2> DEFINE owner == RingOwner[fleet[lookups[c].by]][lookups[c].session]
             call == [lookups[c] EXCEPT !.phase = "writing", !.owner = owner]
  <2>1. owner \in Owners
    BY <1>1, <1>2 DEF RInv, Owners
  <2>2. Proceed(c, call)
    BY <1>4
  <2> HIDE DEF owner
  <2>3. call \in Lookups
    BY <1>2, <2>1 DEF Lookups, CallPhases, Resolving
  <2>4. Consistent(call)
    BY <1>1, <1>2 DEF Consistent, DeletesOwnOrRaced, Resolving
  <2> QED
    BY <1>1, <2>2, <2>3, <2>4, OneCallMoves
<1> QED
  BY <1>3, <1>4 DEF Choose

\* A write: every release that is about to delete that session's entry is
\* raced from now on.
LEMMA SetOwnerKeeps ==
    ASSUME RInv, NEW c \in RoutingCalls, SetOwner(c) PROVE RInv'
<1> DEFINE call == lookups[c]
<1>1. /\ call.phase = "writing" /\ UNCHANGED fleet
      /\ registry' = [registry EXCEPT ![call.session] = call.owner]
  BY DEF SetOwner
<1>2. call \in [phase : CallPhases, by : Routers \union Replicas, session : Sessions,
                owner : Owners, raced : BOOLEAN]
  BY <1>1, UnderWay
<1>3. registry' \in [Sessions -> Owners]
  BY <1>1, <1>2 DEF RInv
<1>4. ASSUME NEW d \in RoutingCalls
      PROVE  lookups'[d] \in Lookups /\ Consistent(lookups[d])'
  <2>1. lookups'[d] =
            IF d = c THEN [call EXCEPT !.phase = "answered"]
            ELSE IF lookups[d].phase = "deleting" /\ lookups[d].session = call.session
                 THEN [lookups[d] EXCEPT !.raced = TRUE] ELSE lookups[d]
    BY DEF SetOwner
  <2>2. CASE d = c
    <3>1. lookups'[d] = [call EXCEPT !.phase = "answered"]
      BY <2>1, <2>2
    <3>2. lookups'[d] \in Lookups /\ lookups'[d].phase = "answered"
      BY <1>2, <3>1 DEF Lookups, CallPhases
    <3> QED
      BY <3>2 DEF Consistent, DeletesOwnOrRaced, Resolving
  <2>3. CASE d # c /\ lookups[d].phase = "deleting" /\ lookups[d].session = call.session
    <3>1. lookups'[d] = [lookups[d] EXCEPT !.raced = TRUE]
      BY <2>1, <2>3
    <3>2. lookups[d] \in [phase : CallPhases, by : Routers \union Replicas, session : Sessions,
                          owner : Owners, raced : BOOLEAN]
      BY <2>3, UnderWay
    <3>3. lookups'[d] \in Lookups /\ lookups'[d].phase = "deleting" /\ lookups'[d].raced = TRUE
      BY <2>3, <3>1, <3>2 DEF Lookups
    <3> QED
      BY <3>3 DEF Consistent, DeletesOwnOrRaced, Resolving
  <2>4. CASE d # c /\ ~(lookups[d].phase = "deleting" /\ lookups[d].session = call.session)
    <3>1. lookups'[d] = lookups[d] /\ lookups[d] \in Lookups /\ Consistent(lookups[d])
      BY <2>1, <2>4 DEF RInv
    <3>2. lookups[d].phase = "deleting" =>
              /\ lookups[d].session \in Sessions
              /\ registry'[lookups[d].session] = registry[lookups[d].session]
      BY <1>1, <1>2, <2>4, UnderWay DEF RInv
    <3> QED
      BY <3>1, <3>2 DEF Consistent, DeletesOwnOrRaced
  <2> QED
    BY <2>2, <2>3, <2>4
<1>5. lookups' \in [RoutingCalls -> Lookups]
  <2>1. lookups' = [d \in RoutingCalls |-> lookups'[d]]
    BY DEF SetOwner
  <2> QED
    BY <1>4, <2>1
<1> QED
  BY <1>1, <1>3, <1>4, <1>5 DEF RInv

\* A step after which the registry has lost an entry at most, and one call at
\* most has ended, keeps the invariant.
LEMMA RemovalKeeps ==
    ASSUME RInv, UNCHANGED fleet, NEW session \in Sessions,
           registry' = [registry EXCEPT ![session] = NoOwner],
           lookups' \in [RoutingCalls -> Lookups],
           \A d \in RoutingCalls : lookups'[d] = lookups[d] \/ lookups'[d].phase = "released"
    PROVE  RInv'
<1>1. registry' \in [Sessions -> Owners]
  BY DEF RInv, Owners
<1>2. ASSUME NEW d \in RoutingCalls PROVE Consistent(lookups[d])'
  <2>1. CASE lookups'[d].phase = "released"
    BY <2>1 DEF Consistent, DeletesOwnOrRaced, Resolving
  <2>2. CASE lookups'[d] = lookups[d] /\ lookups[d].phase = "deleting"
    <3>1. lookups[d].session \in Sessions
      BY <2>2, UnderWay
    <3>2. registry'[lookups[d].session] \in { registry[lookups[d].session], NoOwner }
      BY <3>1 DEF RInv
    <3>3. Consistent(lookups[d])
      BY DEF RInv
    <3> QED
      BY <2>2, <3>2, <3>3 DEF Consistent, DeletesOwnOrRaced
  <2>3. CASE lookups'[d] = lookups[d] /\ lookups[d].phase # "deleting"
    BY <2>3 DEF RInv, Consistent, DeletesOwnOrRaced
  <2> QED
    BY <2>1, <2>2, <2>3
<1> QED
  BY <1>1, <1>2 DEF RInv

\* A call that ends without touching the registry.
LEMMA EndKeeps ==
    ASSUME RInv, NEW c \in RoutingCalls, SetOwnerFails(c) \/ ReleaseFails(c) PROVE RInv'
<1>1. lookups[c].phase # "idle" /\ UNCHANGED << registry, fleet >>
  BY DEF SetOwnerFails, ReleaseFails
<1>2. lookups[c] \in [phase : CallPhases, by : Routers \union Replicas, session : Sessions,
                      owner : Owners, raced : BOOLEAN]
  BY <1>1, UnderWay
<1>3. PICK end \in { "answered", "released" } : Proceed(c, [lookups[c] EXCEPT !.phase = end])
  BY DEF SetOwnerFails, ReleaseFails
<1> DEFINE call == [lookups[c] EXCEPT !.phase = end]
<1>4. call \in Lookups
  BY <1>2 DEF Lookups, CallPhases
<1>5. Consistent(call)
  BY <1>2 DEF Consistent, DeletesOwnOrRaced, Resolving
<1> QED
  BY <1>1, <1>3, <1>4, <1>5, OneCallMoves

\* The compare of a release: it goes on to delete its own entry only.
LEMMA CompareOwnerKeeps ==
    ASSUME RInv, NEW c \in RoutingCalls, CompareOwner(c) PROVE RInv'
<1> DEFINE goesOn == registry[lookups[c].session] = lookups[c].by
           phase == IF goesOn THEN "deleting" ELSE "released"
           call == [lookups[c] EXCEPT !.phase = phase]
<1>1. /\ lookups[c].phase = "comparing" /\ UNCHANGED << registry, fleet >>
      /\ Proceed(c, call)
  BY DEF CompareOwner
<1>2. lookups[c] \in [phase : CallPhases, by : Routers \union Replicas, session : Sessions,
                      owner : Owners, raced : BOOLEAN]
  BY <1>1, UnderWay
<1>3. phase \in { "deleting", "released" } /\ (phase = "deleting" => goesOn)
  OBVIOUS
<1> HIDE DEF phase
<1>4. call \in Lookups
  BY <1>2, <1>3 DEF Lookups, CallPhases
<1>5. Consistent(call)
  BY <1>2, <1>3 DEF Consistent, DeletesOwnOrRaced, Resolving
<1> QED
  BY <1>1, <1>4, <1>5, OneCallMoves

\* The delete of a release.
LEMMA DeleteOwnerKeeps ==
    ASSUME RInv, NEW c \in RoutingCalls, DeleteOwner(c) PROVE RInv'
<1> DEFINE call == [lookups[c] EXCEPT !.phase = "released"]
<1>1. lookups[c].phase = "deleting"
  BY DEF DeleteOwner
<1>2. lookups[c] \in [phase : CallPhases, by : Routers \union Replicas, session : Sessions,
                      owner : Owners, raced : BOOLEAN]
  BY <1>1, UnderWay
<1>3. call \in Lookups /\ call.phase = "released"
  BY <1>2 DEF Lookups, CallPhases
<1>4. lookups' = [lookups EXCEPT ![c] = call]
  BY DEF DeleteOwner, Proceed
<1>5. /\ lookups' \in [RoutingCalls -> Lookups]
      /\ \A d \in RoutingCalls : lookups'[d] = lookups[d] \/ lookups'[d].phase = "released"
  BY <1>3, <1>4 DEF RInv
<1> QED
  BY <1>2, <1>5, RemovalKeeps DEF DeleteOwner

\* The end of an entry's time to live.
LEMMA ExpireKeeps ==
    ASSUME RInv, NEW session \in Sessions, Expire(session) PROVE RInv'
<1>1. lookups' \in [RoutingCalls -> Lookups]
  BY DEF Expire, RInv
<1> QED
  BY <1>1, RemovalKeeps DEF Expire

\* A new fleet, or nothing.
LEMMA FleetKeeps ==
    ASSUME RInv,
           \/ \E router \in Routers, replicaIds \in Fleets : UpdateReplicaSet(router, replicaIds)
           \/ UNCHANGED routingVars
    PROVE  RInv'
<1>1. fleet' \in [Routers -> Fleets] /\ UNCHANGED << registry, lookups >>
  BY DEF RInv, UpdateReplicaSet, routingVars
<1> QED
  BY <1>1 DEF RInv, Consistent, DeletesOwnOrRaced

\* In every reachable state of any routers (sessionRouter.ts over
\* sessionRegistry.ts): every call is well-formed, and a release that is about
\* to delete finds its own entry, none, or one written since its compare.
THEOREM RoutingInvariance == RoutingSpec => []RInv
<1>1. RInv /\ [RoutingNext]_routingVars => RInv'
  <2> SUFFICES ASSUME RInv, [RoutingNext]_routingVars PROVE RInv'
    OBVIOUS
  <2>1. ASSUME NEW c \in RoutingCalls, NEW session \in Sessions,
               \/ \E router \in Routers : ResolveOwner(c, router, session)
               \/ \E replica \in Replicas : ReleaseOwner(c, replica, session)
        PROVE  RInv'
    BY <2>1, NewCallKeeps
  <2>2. ASSUME NEW c \in RoutingCalls,
               \/ GetOwner(c) \/ GetOwnerFails(c) \/ Choose(c) \/ SetOwner(c) \/ SetOwnerFails(c)
               \/ CompareOwner(c) \/ DeleteOwner(c) \/ ReleaseFails(c)
        PROVE  RInv'
    BY <2>2, GetKeeps, ChooseKeeps, SetOwnerKeeps, EndKeeps, CompareOwnerKeeps, DeleteOwnerKeeps
  <2>3. ASSUME NEW session \in Sessions, Expire(session) PROVE RInv'
    BY <2>3, ExpireKeeps
  <2>4. CASE \/ \E router \in Routers, replicaIds \in Fleets : UpdateReplicaSet(router, replicaIds)
             \/ UNCHANGED routingVars
    BY <2>4, FleetKeeps
  <2> QED
    BY <2>1, <2>2, <2>3, <2>4 DEF RoutingNext
<1> QED
  BY RoutingStarts, <1>1, PTL DEF RoutingSpec

\* A release deletes another replica's entry only if that owner was recorded
\* between its compare and its delete (releaseOwner, sessionRegistry.ts).
THEOREM ReleasesAreOwn == RoutingSpec => ReleasesClearOnlyWhatTheyRaced
<1> DEFINE Clears ==
        \A c \in RoutingCalls :
            lookups[c].phase = "deleting" /\ DeleteOwner(c) =>
                \/ registry[lookups[c].session] \in { lookups[c].by, NoOwner }
                \/ lookups[c].raced
<1>1. RInv => Clears
  BY DEF RInv, Consistent, DeletesOwnOrRaced
<1> QED
  BY <1>1, RoutingInvariance, PTL DEF ReleasesClearOnlyWhatTheyRaced

-----------------------------------------------------------------------------
\* What a step does to one session and one of its owners.
Stays(session, owner) ==
    /\ Established(session, owner)'
    /\ \A c \in RoutingCalls :
          /\ lookups[c].phase \in { "read", "writing" }
          /\ lookups'[c].phase = "answered"
          /\ lookups[c].session = session
          => lookups'[c].owner = owner

\* If the registry and the fleets are as before, an owner stays established
\* when every call of the session that has read, or answers, has that owner.
LEMMA OwnerStays ==
    ASSUME NEW session \in Sessions, NEW owner \in Replicas, Established(session, owner),
           registry'[session] = registry[session], UNCHANGED fleet,
           \A d \in RoutingCalls :
               \/ lookups'[d] = lookups[d]
               \/ /\ lookups'[d].phase \in { "read", "writing" } /\ lookups'[d].session = session
                     => lookups'[d].owner = owner
                  /\ /\ lookups[d].phase \in { "read", "writing" }
                     /\ lookups'[d].phase = "answered"
                     /\ lookups[d].session = session
                     => lookups'[d].owner = owner
    PROVE  Stays(session, owner)
<1>1. registry'[session] = owner
  BY DEF Established
<1>2. \A router \in Routers : owner \in Known(router)'
  BY DEF Established, Known
<1>3. ASSUME NEW d \in RoutingCalls,
             lookups'[d].phase \in { "read", "writing" }, lookups'[d].session = session
      PROVE  lookups'[d].owner = owner
  BY <1>3 DEF Established
<1>4. ASSUME NEW d \in RoutingCalls, lookups[d].phase \in { "read", "writing" },
             lookups'[d].phase = "answered", lookups[d].session = session
      PROVE  lookups'[d].owner = owner
  BY <1>4
<1> QED
  BY <1>1, <1>2, <1>3, <1>4 DEF Stays, Established

\* The same for a step that moves one call to call.
LEMMA OwnerStaysInCall ==
    ASSUME RInv, NEW session \in Sessions, NEW owner \in Replicas, Established(session, owner),
           registry'[session] = registry[session], UNCHANGED fleet,
           NEW c \in RoutingCalls, NEW call, Proceed(c, call),
           call.phase \in { "read", "writing" } /\ call.session = session => call.owner = owner,
           /\ lookups[c].phase \in { "read", "writing" } /\ call.phase = "answered"
           /\ lookups[c].session = session
           => call.owner = owner
    PROVE  Stays(session, owner)
<1>1. \A d \in RoutingCalls : lookups'[d] = IF d = c THEN call ELSE lookups[d]
  BY DEF RInv, Proceed
<1> QED
  BY <1>1, OwnerStays

\* Reading: a call of the session reads the owner that is recorded.
LEMMA StaysThroughReads ==
    ASSUME RInv, NEW session \in Sessions, NEW owner \in Replicas, Established(session, owner),
           ~Unsettles(session, owner), NEW c \in RoutingCalls,
           \/ GetOwner(c) \/ GetOwnerFails(c)
           \/ \E other \in Sessions :
                 \/ \E router \in Routers : ResolveOwner(c, router, other)
                 \/ \E replica \in Replicas : ReleaseOwner(c, replica, other)
    PROVE  Stays(session, owner)
<1>1. CASE GetOwner(c)
  <2> DEFINE call == [lookups[c] EXCEPT !.phase = "read",
                                        !.owner = registry[lookups[c].session]]
  <2>1. Proceed(c, call) /\ lookups[c].phase = "reading" /\ UNCHANGED << registry, fleet >>
    BY <1>1 DEF GetOwner
  <2>2. call.session = lookups[c].session /\ call.owner = registry[lookups[c].session]
    BY <2>1, UnderWay
  <2> QED
    BY <2>1, <2>2, OwnerStaysInCall, ZenonT(60) DEF Established
<1>2. CASE GetOwnerFails(c)
  <2> DEFINE call == [lookups[c] EXCEPT !.phase = "read", !.owner = NoOwner]
  <2>1. Proceed(c, call) /\ lookups[c].phase = "reading" /\ UNCHANGED << registry, fleet >>
    BY <1>2 DEF GetOwnerFails
  <2>2. call.session = lookups[c].session
    BY <2>1, UnderWay
  <2>3. lookups[c].session # session
    BY <1>2 DEF Unsettles
  <2> QED
    BY <2>1, <2>2, <2>3, OwnerStaysInCall
<1>3. CASE \E other \in Sessions :
               \/ \E router \in Routers : ResolveOwner(c, router, other)
               \/ \E replica \in Replicas : ReleaseOwner(c, replica, other)
  <2>1. PICK call : /\ Proceed(c, call) /\ call.phase \in { "reading", "comparing" }
                    /\ UNCHANGED << registry, fleet >>
    BY <1>3 DEF ResolveOwner, ReleaseOwner, Lookup
  <2> QED
    BY <2>1, OwnerStaysInCall
<1> QED
  BY <1>1, <1>2, <1>3

\* Choosing: every router knows the owner, so none computes another.
LEMMA StaysThroughChoices ==
    ASSUME RInv, NEW session \in Sessions, NEW owner \in Replicas, Established(session, owner),
           NEW c \in RoutingCalls, Choose(c)
    PROVE  Stays(session, owner)
<1>1. lookups[c].phase = "read" /\ UNCHANGED << registry, fleet >> /\ lookups[c].by \in Routers
  BY DEF Choose, RInv, Consistent, Resolving
<1>2. lookups[c] \in [phase : CallPhases, by : Routers \union Replicas, session : Sessions,
                      owner : Owners, raced : BOOLEAN]
  BY <1>1, UnderWay
<1>3. lookups[c].session = session => lookups[c].owner = owner /\ owner \in Known(lookups[c].by)
  BY <1>1 DEF Established
<1>4. CASE Proceed(c, [lookups[c] EXCEPT !.phase = "answered"])
  <2> DEFINE call == [lookups[c] EXCEPT !.phase = "answered"]
  <2>1. call.phase = "answered" /\ call.owner = lookups[c].owner
    BY <1>2
  <2>2. Proceed(c, call)
    BY <1>4
  <2> HIDE DEF call
  <2> QED
    BY <1>1, <1>3, <2>1, <2>2, OwnerStaysInCall
<1>5. CASE /\ lookups[c].owner \notin Known(lookups[c].by)
           /\ Proceed(c, [lookups[c] EXCEPT
                  !.phase = "writing",
                  !.owner = RingOwner[fleet[lookups[c].by]][lookups[c].session]])
  <2> DEFINE chosen == RingOwner[fleet[lookups[c].by]][lookups[c].session]
             call == [lookups[c] EXCEPT !.phase = "writing", !.owner = chosen]
  <2>1. lookups[c].session # session
    BY <1>3, <1>5
  <2>2. Proceed(c, call)
    BY <1>5
  <2> HIDE DEF chosen
  <2>3. call.phase = "writing" /\ call.session = lookups[c].session
    BY <1>2
  <2> QED
    BY <1>1, <2>1, <2>2, <2>3, OwnerStaysInCall
<1> QED
  BY <1>4, <1>5 DEF Choose

\* Writing: a call of the session writes the owner that stands there.
LEMMA StaysThroughWrites ==
    ASSUME RInv, NEW session \in Sessions, NEW owner \in Replicas, Established(session, owner),
           NEW c \in RoutingCalls, SetOwner(c)
    PROVE  Stays(session, owner)
<1> DEFINE call == lookups[c]
<1>1. /\ call.phase = "writing" /\ UNCHANGED fleet
      /\ registry' = [registry EXCEPT ![call.session] = call.owner]
  BY DEF SetOwner
<1>2. call \in [phase : CallPhases, by : Routers \union Replicas, session : Sessions,
                owner : Owners, raced : BOOLEAN]
  BY <1>1, UnderWay
<1>3. call.session = session => call.owner = owner
  BY <1>1 DEF Established
<1>4. registry'[session] = registry[session]
  BY <1>1, <1>2, <1>3 DEF RInv, Established
<1>5. ASSUME NEW d \in RoutingCalls
      PROVE  \/ lookups'[d] = lookups[d]
             \/ lookups'[d].phase = "deleting"
             \/ d = c /\ lookups'[d].phase = "answered" /\ lookups'[d].owner = call.owner
  <2>1. lookups'[d] =
            IF d = c THEN [call EXCEPT !.phase = "answered"]
            ELSE IF lookups[d].phase = "deleting" /\ lookups[d].session = call.session
                 THEN [lookups[d] EXCEPT !.raced = TRUE] ELSE lookups[d]
    BY DEF SetOwner
  <2>2. CASE d = c
    BY <1>2, <2>1, <2>2
  <2>3. CASE d # c /\ lookups[d].phase = "deleting"
    BY <2>1, <2>3, UnderWay
  <2>4. CASE d # c /\ lookups[d].phase # "deleting"
    BY <2>1, <2>4
  <2> QED
    BY <2>2, <2>3, <2>4
<1>6. \A d \in RoutingCalls :
          \/ lookups'[d] = lookups[d]
          \/ /\ lookups'[d].phase \in { "read", "writing" } /\ lookups'[d].session = session
                => lookups'[d].owner = owner
             /\ /\ lookups[d].phase \in { "read", "writing" }
                /\ lookups'[d].phase = "answered"
                /\ lookups[d].session = session
                => lookups'[d].owner = owner
  BY <1>3, <1>5
<1> QED
  BY <1>1, <1>4, <1>6, OwnerStays

\* Ending: a refused write answers the owner it computed; a release that is
\* compared, or refused, touches nothing; a delete would unsettle the owner, if
\* it is of the session.
LEMMA StaysThroughEnds ==
    ASSUME RInv, NEW session \in Sessions, NEW owner \in Replicas, Established(session, owner),
           ~Unsettles(session, owner), NEW c \in RoutingCalls,
           \/ SetOwnerFails(c) \/ CompareOwner(c) \/ DeleteOwner(c) \/ ReleaseFails(c)
    PROVE  Stays(session, owner)
<1>1. lookups[c].phase \in { "writing", "comparing", "deleting" } /\ UNCHANGED fleet
  BY DEF SetOwnerFails, CompareOwner, DeleteOwner, ReleaseFails
<1>2. lookups[c] \in [phase : CallPhases, by : Routers \union Replicas, session : Sessions,
                      owner : Owners, raced : BOOLEAN]
  BY <1>1, UnderWay
<1>3. registry'[session] = registry[session]
  <2>1. CASE UNCHANGED registry
    BY <2>1
  <2>2. CASE DeleteOwner(c)
    <3>1. registry' = [registry EXCEPT ![lookups[c].session] = NoOwner]
      BY <2>2 DEF DeleteOwner
    <3>2. registry'[session] # NoOwner
      BY DEF Unsettles
    <3> QED
      BY <3>1, <3>2 DEF RInv
  <2> QED
    BY <2>1, <2>2 DEF SetOwnerFails, CompareOwner, ReleaseFails
<1>4. PICK end \in { "answered", "deleting", "released" } :
          /\ Proceed(c, [lookups[c] EXCEPT !.phase = end])
          /\ end = "answered" => lookups[c].phase = "writing"
  BY DEF SetOwnerFails, CompareOwner, DeleteOwner, ReleaseFails
<1> DEFINE call == [lookups[c] EXCEPT !.phase = end]
<1>5. call.phase = end /\ call.owner = lookups[c].owner
  BY <1>2
<1>6. lookups[c].phase = "writing" /\ lookups[c].session = session => lookups[c].owner = owner
  BY DEF Established
<1>7. /\ call.phase \notin { "read", "writing" }
      /\ /\ lookups[c].phase \in { "read", "writing" } /\ call.phase = "answered"
         /\ lookups[c].session = session
         => call.owner = owner
  BY <1>4, <1>5, <1>6
<1> QED
  BY <1>1, <1>3, <1>4, <1>7, OwnerStaysInCall

\* The world around the calls: an entry's end and a new fleet.
LEMMA StaysThroughTheRest ==
    ASSUME RInv, NEW session \in Sessions, NEW owner \in Replicas, Established(session, owner),
           ~Unsettles(session, owner),
           \/ \E other \in Sessions : Expire(other)
           \/ \E router \in Routers, replicaIds \in Fleets : UpdateReplicaSet(router, replicaIds)
           \/ UNCHANGED routingVars
    PROVE  Stays(session, owner)
<1>1. UNCHANGED lookups
  BY DEF Expire, UpdateReplicaSet, routingVars
<1>2. registry'[session] = owner
  <2>1. CASE \E other \in Sessions : Expire(other)
    <3>1. PICK other \in Sessions : registry' = [registry EXCEPT ![other] = NoOwner]
      BY <2>1 DEF Expire
    <3>2. registry'[session] # NoOwner
      BY DEF Unsettles
    <3> QED
      BY <3>1, <3>2 DEF RInv, Established
  <2>2. CASE UNCHANGED registry
    BY <2>2 DEF Established
  <2> QED
    BY <2>1, <2>2 DEF UpdateReplicaSet, routingVars
<1>3. \A router \in Routers : owner \in Known(router)'
  BY DEF Unsettles, Known
<1>4. Established(session, owner)'
  BY <1>1, <1>2, <1>3 DEF Established
<1> QED
  BY <1>1, <1>4 DEF Stays

\* Once established, an owner keeps its session through every step but those
\* that legitimately unsettle it, and is what every resolution answers, while
\* any routers learn of any new replicas in any order (resolveOwner's registry
\* first, ring second).
THEOREM OwnersStay == RoutingSpec => EstablishedOwnersStay
<1> DEFINE Keeps ==
        \A session \in Sessions, owner \in Replicas :
            Established(session, owner) /\ ~Unsettles(session, owner) => Stays(session, owner)
<1>1. RInv /\ [RoutingNext]_routingVars => Keeps
  <2> SUFFICES ASSUME RInv, [RoutingNext]_routingVars,
                      NEW session \in Sessions, NEW owner \in Replicas,
                      Established(session, owner), ~Unsettles(session, owner)
               PROVE  Stays(session, owner)
    OBVIOUS
  <2>1. ASSUME NEW c \in RoutingCalls,
               \/ GetOwner(c) \/ GetOwnerFails(c)
               \/ \E other \in Sessions :
                     \/ \E router \in Routers : ResolveOwner(c, router, other)
                     \/ \E replica \in Replicas : ReleaseOwner(c, replica, other)
        PROVE  Stays(session, owner)
    BY <2>1, StaysThroughReads
  <2>2. ASSUME NEW c \in RoutingCalls, Choose(c) PROVE Stays(session, owner)
    BY <2>2, StaysThroughChoices
  <2>3. ASSUME NEW c \in RoutingCalls, SetOwner(c) PROVE Stays(session, owner)
    BY <2>3, StaysThroughWrites
  <2>4. ASSUME NEW c \in RoutingCalls,
               \/ SetOwnerFails(c) \/ CompareOwner(c) \/ DeleteOwner(c) \/ ReleaseFails(c)
        PROVE  Stays(session, owner)
    BY <2>4, StaysThroughEnds
  <2>5. CASE \/ \E other \in Sessions : Expire(other)
             \/ \E router \in Routers, replicaIds \in Fleets : UpdateReplicaSet(router, replicaIds)
             \/ UNCHANGED routingVars
    BY <2>5, StaysThroughTheRest
  <2> QED
    BY <2>1, <2>2, <2>3, <2>4, <2>5 DEF RoutingNext
<1> QED
  BY <1>1, RoutingInvariance, PTL DEF RoutingSpec, EstablishedOwnersStay, Stays

-----------------------------------------------------------------------------
(* The search *)

\* What one turn of the search makes of the bounds.
Mid(bounds) == (bounds[1] + bounds[2]) \div 2

Turn(ring, target, search, bounds) ==
    IF bounds[1] >= bounds[2] THEN bounds[1]
    ELSE IF ring[Mid(bounds) + 1].hash < target THEN search[<< Mid(bounds) + 1, bounds[2] >>]
         ELSE search[<< bounds[1], Mid(bounds) >>]

\* The bounds of a search through n nodes.
Bounds(n) == (0 .. n) \X (0 .. n)

\* A turn leaves bounds that are closer to each other.
LEMMA TurnHalves ==
    ASSUME NEW n \in Nat, NEW lower \in 0 .. n, NEW upper \in 0 .. n, lower < upper
    PROVE  \E mid \in 0 .. n :
              /\ mid = Mid(<< lower, upper >>)
              /\ lower <= mid /\ mid < upper
              /\ << mid + 1, upper >> \in Bounds(n) /\ << lower, mid >> \in Bounds(n)
<1>1. PICK mid \in Int : mid = (lower + upper) \div 2
  OBVIOUS
<1>2. lower <= mid /\ mid < upper
  BY <1>1
<1>3. mid = Mid(<< lower, upper >>)
  BY <1>1 DEF Mid
<1>4. mid \in 0 .. n /\ mid + 1 \in 0 .. n
  BY <1>2
<1>5. << mid + 1, upper >> \in Bounds(n) /\ << lower, mid >> \in Bounds(n)
  BY <1>4 DEF Bounds
<1> QED
  BY <1>2, <1>3, <1>4, <1>5

\* The search is defined: its recursion ends, whatever the ring.
LEMMA SearchEnds ==
    ASSUME NEW ring, Len(ring) \in Nat, NEW target
    PROVE  \E search : search = [bounds \in Bounds(Len(ring)) |-> Turn(ring, target, search, bounds)]
<1> DEFINE n == Len(ring)
           Within(k) == { bounds \in Bounds(n) : bounds[2] - bounds[1] <= k }
           Ends == { k \in Nat : \E g : \A bounds \in Within(k) :
                                     g[bounds] = Turn(ring, target, g, bounds) }
<1>1. 0 \in Ends
  <2> DEFINE g == [bounds \in Bounds(n) |-> bounds[1]]
  <2>1. \A bounds \in Within(0) : g[bounds] = Turn(ring, target, g, bounds)
    BY DEF Bounds, Turn
  <2> HIDE DEF g, Within
  <2> QED
    BY <2>1
<1>2. ASSUME NEW k \in Nat, k \in Ends PROVE k + 1 \in Ends
  <2>1. PICK g : \A bounds \in Within(k) : g[bounds] = Turn(ring, target, g, bounds)
    BY <1>2
  <2> DEFINE h == [bounds \in Bounds(n) |-> IF bounds \in Within(k) THEN g[bounds]
                                            ELSE Turn(ring, target, g, bounds)]
  <2>2. \A bounds \in Within(k) : h[bounds] = g[bounds]
    OBVIOUS
  <2>3. ASSUME NEW bounds \in Within(k + 1) PROVE h[bounds] = Turn(ring, target, h, bounds)
    <3>1. PICK lower \in 0 .. n, upper \in 0 .. n :
              bounds = << lower, upper >> /\ upper - lower <= k + 1
      BY DEF Bounds
    <3>2. h[bounds] = Turn(ring, target, g, bounds)
      BY <2>1
    <3> HIDE DEF h
    <3>3. CASE lower >= upper
      BY <3>1, <3>2, <3>3 DEF Turn
    <3>4. CASE lower < upper
      <4>1. PICK mid \in 0 .. n :
                /\ mid = Mid(bounds)
                /\ lower <= mid /\ mid < upper
                /\ << mid + 1, upper >> \in Bounds(n) /\ << lower, mid >> \in Bounds(n)
        BY <3>1, <3>4, TurnHalves
      <4>2. << mid + 1, upper >> \in Within(k) /\ << lower, mid >> \in Within(k)
        BY <3>1, <4>1
      <4>3. /\ h[<< mid + 1, upper >>] = g[<< mid + 1, upper >>]
            /\ h[<< lower, mid >>] = g[<< lower, mid >>]
        BY <2>2, <4>2
      <4> HIDE DEF Within
      <4> QED
        BY <3>1, <3>2, <4>1, <4>3 DEF Turn
    <3> QED
      BY <3>3, <3>4
  <2> HIDE DEF h, Within
  <2> QED
    BY <2>3
<1>3. Nat \subseteq Ends
  <2> HIDE DEF Ends
  <2> QED
    BY <1>1, <1>2, NumbersByInduction
<1>4. PICK g : \A bounds \in Within(n) : g[bounds] = Turn(ring, target, g, bounds)
  BY <1>3
<1>5. \A bounds \in Bounds(n) : g[bounds] = Turn(ring, target, g, bounds)
  BY <1>4 DEF Bounds
<1> DEFINE search == [bounds \in Bounds(n) |-> g[bounds]]
<1>6. ASSUME NEW bounds \in Bounds(n) PROVE search[bounds] = Turn(ring, target, search, bounds)
  <2>1. PICK lower \in 0 .. n, upper \in 0 .. n : bounds = << lower, upper >>
    BY DEF Bounds
  <2>2. search[bounds] = Turn(ring, target, g, bounds)
    BY <1>5
  <2>3. CASE lower >= upper
    BY <2>1, <2>2, <2>3 DEF Turn
  <2>4. CASE lower < upper
    <3>1. PICK mid \in 0 .. n :
              /\ mid = Mid(bounds)
              /\ << mid + 1, upper >> \in Bounds(n) /\ << lower, mid >> \in Bounds(n)
      BY <2>1, <2>4, TurnHalves
    <3>2. /\ search[<< mid + 1, upper >>] = g[<< mid + 1, upper >>]
          /\ search[<< lower, mid >>] = g[<< lower, mid >>]
      BY <3>1
    <3> HIDE DEF search
    <3> QED
      BY <2>1, <2>2, <3>1, <3>2 DEF Turn
  <2> QED
    BY <2>3, <2>4
<1>7. search = [bounds \in Bounds(n) |-> search[bounds]]
  OBVIOUS
<1> HIDE DEF search
<1>8. search = [bounds \in Bounds(n) |-> Turn(ring, target, search, bounds)]
  BY <1>6, <1>7
<1> QED
  BY <1>8

\* In a sorted ring the search finds where the nodes that are not behind begin.
LEMMA SearchFinds ==
    ASSUME NEW ring, Len(ring) \in Nat, NEW target \in Int,
           \A i \in 1 .. Len(ring) : ring[i].hash \in Int,
           \A i, j \in 1 .. Len(ring) : i < j => ring[i].hash < ring[j].hash
    PROVE  \E first \in 0 .. Len(ring) :
              /\ first = FirstAtOrAfter(ring, target)
              /\ \A i \in 1 .. first : ring[i].hash < target
              /\ \A i \in first + 1 .. Len(ring) : ring[i].hash >= target
<1> DEFINE n == Len(ring)
<1>1. PICK search : search = [bounds \in Bounds(n) |-> Turn(ring, target, search, bounds)]
             /\ FirstAtOrAfter(ring, target) = search[<< 0, n >>]
  <2> DEFINE search == CHOOSE search : search = [bounds \in Bounds(n) |-> Turn(ring, target, search, bounds)]
  <2>1. search = [bounds \in Bounds(n) |-> Turn(ring, target, search, bounds)]
    BY SearchEnds
  <2>2. FirstAtOrAfter(ring, target) = search[<< 0, n >>]
    BY DEF FirstAtOrAfter, Search, Bounds, Turn, Mid
  <2> HIDE DEF search
  <2> QED
    BY <2>1, <2>2
<1> DEFINE Found(lower, upper, first) ==
               /\ first \in lower .. upper
               /\ \A i \in lower + 1 .. first : ring[i].hash < target
               /\ \A i \in first + 1 .. upper : ring[i].hash >= target
           Finds == { k \in Nat : \A lower, upper \in 0 .. n : lower <= upper /\ upper - lower <= k
                                      => Found(lower, upper, search[<< lower, upper >>]) }
<1>2. ASSUME NEW lower \in 0 .. n, NEW upper \in 0 .. n
      PROVE  search[<< lower, upper >>] = Turn(ring, target, search, << lower, upper >>)
  BY <1>1 DEF Bounds
<1>3. 0 \in Finds
  <2> SUFFICES ASSUME NEW lower \in 0 .. n, NEW upper \in 0 .. n, lower <= upper, upper - lower <= 0
               PROVE  Found(lower, upper, search[<< lower, upper >>])
    OBVIOUS
  <2>1. lower = upper
    OBVIOUS
  <2>2. search[<< lower, upper >>] = lower
    BY <1>2, <2>1 DEF Turn
  <2> QED
    BY <2>1, <2>2
<1>4. ASSUME NEW k \in Nat, k \in Finds,
             NEW lower \in 0 .. n, NEW upper \in 0 .. n, lower <= upper, upper - lower <= k + 1
      PROVE  Found(lower, upper, search[<< lower, upper >>])
  <2>0. \A l, u \in 0 .. n : l <= u /\ u - l <= k => Found(l, u, search[<< l, u >>])
    BY <1>4
  <2>1. CASE lower = upper
    <3>1. search[<< lower, upper >>] = lower
      BY <1>2, <1>4, <2>1 DEF Turn
    <3> QED
      BY <2>1, <3>1
  <2>2. CASE lower < upper
    <3>1. PICK mid \in 0 .. n : mid = Mid(<< lower, upper >>) /\ lower <= mid /\ mid < upper
      BY <2>2, TurnHalves
    <3>2. search[<< lower, upper >>] =
              IF ring[mid + 1].hash < target THEN search[<< mid + 1, upper >>]
              ELSE search[<< lower, mid >>]
      BY <1>2, <2>2, <3>1 DEF Turn
    <3>3. mid + 1 \in 1 .. n /\ ring[mid + 1].hash \in Int
      BY <3>1
    <3>4. CASE ring[mid + 1].hash < target
      <4>1. PICK first : first = search[<< mid + 1, upper >>]
        OBVIOUS
      <4>2. Found(mid + 1, upper, first)
        <5>1. mid + 1 \in 0 .. n /\ mid + 1 <= upper /\ upper - (mid + 1) <= k
          <6> HIDE DEF Found, Finds
          <6> QED
            BY <1>4, <2>2, <3>1
        <5> HIDE DEF Found
        <5> QED
          BY <2>0, <4>1, <5>1
      <4>3. ASSUME NEW i \in lower + 1 .. first PROVE ring[i].hash < target
        <5>1. CASE i > mid + 1
          <6>1. i \in (mid + 1) + 1 .. first
            BY <3>1, <4>2, <5>1
          <6> QED
            BY <4>2, <6>1
        <5>2. CASE i <= mid + 1
          <6>1. i \in 1 .. n
            BY <3>1, <5>2
          <6>2. PICK at \in Int, mine \in Int : at = ring[mid + 1].hash /\ mine = ring[i].hash
            BY <3>3, <6>1
          <6>3. mine <= at
            BY <3>3, <5>2, <6>1, <6>2
          <6>4. mine < target
            BY <3>4, <6>2, <6>3, SMTT(30)
          <6> QED
            BY <6>2, <6>4
        <5> QED
          BY <3>1, <4>2, <5>1, <5>2
      <4>4. first \in lower .. upper
        BY <3>1, <4>2
      <4>5. Found(lower, upper, first)
        BY <4>2, <4>3, <4>4
      <4>6. search[<< lower, upper >>] = first
        BY <3>2, <3>4, <4>1
      <4> HIDE DEF Found
      <4> QED
        BY <4>5, <4>6
    <3>5. CASE ~(ring[mid + 1].hash < target)
      <4>1. PICK first : first = search[<< lower, mid >>]
        OBVIOUS
      <4>2. Found(lower, mid, first)
        <5>1. lower <= mid /\ mid - lower <= k
          <6> HIDE DEF Found, Finds
          <6> QED
            BY <1>4, <2>2, <3>1
        <5> HIDE DEF Found
        <5> QED
          BY <2>0, <4>1, <5>1
      <4>3. ASSUME NEW i \in first + 1 .. upper PROVE ring[i].hash >= target
        <5>1. CASE i <= mid
          <6>1. i \in first + 1 .. mid
            BY <3>1, <4>2, <5>1
          <6> QED
            BY <3>5, <4>2, <6>1
        <5>2. CASE i > mid
          <6>1. i \in 1 .. n
            BY <3>1, <4>2, <5>2
          <6>2. PICK at \in Int, mine \in Int : at = ring[mid + 1].hash /\ mine = ring[i].hash
            BY <3>3, <6>1
          <6>3. mine >= at
            BY <3>1, <3>3, <4>2, <5>2, <6>1, <6>2, SMTT(20)
          <6>4. mine >= target
            BY <3>5, <6>2, <6>3, SMTT(20)
          <6> QED
            BY <6>2, <6>4
        <5> QED
          BY <3>1, <4>2, <5>1, <5>2
      <4>4. first \in lower .. upper
        BY <3>1, <4>2
      <4>5. Found(lower, upper, first)
        BY <4>2, <4>3, <4>4
      <4>6. search[<< lower, upper >>] = first
        BY <3>2, <3>5, <4>1
      <4> HIDE DEF Found
      <4> QED
        BY <4>5, <4>6
    <3> HIDE DEF Found, Finds
    <3> QED
      BY <3>4, <3>5
  <2>3. lower = upper \/ lower < upper
    BY <1>4
  <2> HIDE DEF Found, Finds
  <2> QED
    BY <2>1, <2>2, <2>3
<1>5. Nat \subseteq Finds
  <2> HIDE DEF Found
  <2>1. ASSUME NEW k \in Nat, k \in Finds PROVE k + 1 \in Finds
    <3>1. \A lower, upper \in 0 .. n : lower <= upper /\ upper - lower <= k + 1
              => Found(lower, upper, search[<< lower, upper >>])
      BY <1>4, <2>1
    <3>2. k + 1 \in Nat
      BY <2>1
    <3> HIDE DEF n
    <3> QED
      BY <3>1, <3>2, Zenon
  <2> HIDE DEF Finds
  <2> QED
    BY <1>3, <2>1, NumbersByInduction
<1>6. Found(0, n, search[<< 0, n >>])
  <2>1. n \in Finds
    BY <1>5
  <2>2. 0 \in 0 .. n /\ n \in 0 .. n /\ 0 <= n /\ n - 0 <= n
    OBVIOUS
  <2> HIDE DEF Found
  <2> QED
    BY <2>1, <2>2
<1>7. PICK first : first = search[<< 0, n >>]
  OBVIOUS
<1>8. /\ first \in 0 .. n
      /\ \A i \in 0 + 1 .. first : ring[i].hash < target
      /\ \A i \in first + 1 .. n : ring[i].hash >= target
  BY <1>6, <1>7
<1>9. 0 + 1 = 1
  OBVIOUS
<1> QED
  BY <1>1, <1>7, <1>8, <1>9

-----------------------------------------------------------------------------
(* The ring *)

\* A position on the ring and whose it is.
RingNode == [hash : Nat, replica : Replicas]

\* Each replica of the list has its nodes on the ring.
LEMMA NodeOnRing ==
    ASSUME NEW replicaIds, NEW i \in DOMAIN replicaIds, NEW v \in 1..VirtualNodes
    PROVE  [hash |-> NodeHash[<< replicaIds[i], v >>], replica |-> replicaIds[i]]
               \in RingNodes(replicaIds)
<1>1. PICK node : node = [hash |-> NodeHash[<< replicaIds[i], v >>], replica |-> replicaIds[i]]
  OBVIOUS
<1>2. \E j \in DOMAIN replicaIds, w \in 1..VirtualNodes :
          node = [hash |-> NodeHash[<< replicaIds[j], w >>], replica |-> replicaIds[j]]
  BY <1>1
<1>3. node \in RingNodes(replicaIds)
  BY <1>2 DEF RingNodes
<1> QED
  BY <1>1, <1>3

\* And every node is one of these.
LEMMA NodeOfList ==
    ASSUME NEW replicaIds, NEW node \in RingNodes(replicaIds)
    PROVE  \E i \in DOMAIN replicaIds, vnode \in 1..VirtualNodes :
               node = [hash |-> NodeHash[<< replicaIds[i], vnode >>], replica |-> replicaIds[i]]
BY DEF RingNodes

\* A ring has a node for each replica and number, all at different positions.
LEMMA NodesAreApart ==
    ASSUME NEW replicaIds \in Seq(Replicas), replicaIds # << >>
    PROVE  /\ RingNodes(replicaIds) \subseteq RingNode /\ RingNodes(replicaIds) # {}
           /\ IsFiniteSet(RingNodes(replicaIds))
           /\ \A node, other \in RingNodes(replicaIds) : node.hash = other.hash => node = other
<1> DEFINE places == (1..Len(replicaIds)) \X (1..VirtualNodes)
           NodeAt(place) == [hash |-> NodeHash[<< replicaIds[place[1]], place[2] >>],
                             replica |-> replicaIds[place[1]]]
<1>1. /\ DOMAIN replicaIds = 1..Len(replicaIds) /\ Len(replicaIds) \in Nat /\ Len(replicaIds) >= 1
      /\ \A i \in 1..Len(replicaIds) : replicaIds[i] \in Replicas
  OBVIOUS
<1>2. /\ VirtualNodes \in Nat /\ VirtualNodes >= 1
      /\ \A replica \in Replicas, vnode \in 1..VirtualNodes : NodeHash[<< replica, vnode >>] \in Nat
  BY HashRingAssumption
<1>3. \A node : node \in RingNodes(replicaIds) <=> \E place \in places : node = NodeAt(place)
  <2>1. ASSUME NEW node \in RingNodes(replicaIds) PROVE \E place \in places : node = NodeAt(place)
    <3>1. PICK i \in 1..Len(replicaIds), v \in 1..VirtualNodes :
              node = [hash |-> NodeHash[<< replicaIds[i], v >>], replica |-> replicaIds[i]]
      BY <1>1 DEF RingNodes
    <3>2. << i, v >> \in places /\ node = NodeAt(<< i, v >>)
      BY <3>1
    <3> QED
      BY <3>2
  <2>2. ASSUME NEW place \in places PROVE NodeAt(place) \in RingNodes(replicaIds)
    <3>1. PICK i \in 1..Len(replicaIds), v \in 1..VirtualNodes : place = << i, v >>
      OBVIOUS
    <3> QED
      BY <1>1, <3>1, NodeOnRing
  <2> QED
    BY <2>1, <2>2
<1>4. RingNodes(replicaIds) \subseteq RingNode
  <2> SUFFICES ASSUME NEW node \in RingNodes(replicaIds) PROVE node \in RingNode
    OBVIOUS
  <2>1. PICK i \in 1..Len(replicaIds), v \in 1..VirtualNodes :
            node = [hash |-> NodeHash[<< replicaIds[i], v >>], replica |-> replicaIds[i]]
    BY <1>1 DEF RingNodes
  <2>2. replicaIds[i] \in Replicas
    BY <1>1
  <2> QED
    BY <1>2, <2>1, <2>2 DEF RingNode
<1>5. RingNodes(replicaIds) # {}
  <2>1. 1 \in DOMAIN replicaIds /\ 1 \in 1..VirtualNodes
    BY <1>1, <1>2
  <2> QED
    BY <2>1, NodeOnRing
<1>6. IsFiniteSet(RingNodes(replicaIds))
  <2>1. IsFiniteSet(1..Len(replicaIds)) /\ IsFiniteSet(1..VirtualNodes)
    <3>1. PICK a \in Nat, b \in Nat : a = Len(replicaIds) /\ b = VirtualNodes
      BY <1>1, <1>2
    <3>2. IsFiniteSet(1..a) /\ IsFiniteSet(1..b)
      BY FS_Interval
    <3> QED
      BY <3>1, <3>2
  <2>2. IsFiniteSet(places)
    BY <2>1, FS_Product
  <2>3. [place \in places |-> NodeAt(place)] \in Surjection(places, RingNodes(replicaIds))
    BY <1>3 DEF Surjection
  <2> HIDE DEF places, NodeAt
  <2> QED
    BY <2>2, <2>3, FS_Surjection
<1>7. ASSUME NEW node \in RingNodes(replicaIds), NEW other \in RingNodes(replicaIds),
             node.hash = other.hash
      PROVE  node = other
  <2>1. PICK i \in 1..Len(replicaIds), v \in 1..VirtualNodes :
            node = [hash |-> NodeHash[<< replicaIds[i], v >>], replica |-> replicaIds[i]]
    BY <1>1 DEF RingNodes
  <2>2. PICK j \in 1..Len(replicaIds), w \in 1..VirtualNodes :
            other = [hash |-> NodeHash[<< replicaIds[j], w >>], replica |-> replicaIds[j]]
    BY <1>1, SMTT(20) DEF RingNodes
  <2>3. PICK one \in Replicas \X (1..VirtualNodes), two \in Replicas \X (1..VirtualNodes) :
            one = << replicaIds[i], v >> /\ two = << replicaIds[j], w >>
    BY <1>1
  <2>4. one \in DOMAIN NodeHash /\ two \in DOMAIN NodeHash /\ NodeHash[one] = NodeHash[two]
    BY <1>7, <2>1, <2>2, <2>3, HashRingAssumption
  <2>5. one = two
    BY <2>4, HashRingAssumption DEF IsInjective
  <2>6. replicaIds[i] = replicaIds[j] /\ v = w
    BY <2>3, <2>5
  <2> QED
    BY <2>1, <2>2, <2>6
<1> QED
  BY <1>4, <1>5, <1>6, <1>7

\* The ring is the list of its nodes in the order of their positions.
LEMMA RingIsSorted ==
    ASSUME NEW replicaIds \in Seq(Replicas), replicaIds # << >>,
           NEW ring, ring = Ring(replicaIds)
    PROVE  /\ Len(ring) \in Nat /\ Len(ring) >= 1
           /\ \A place \in 1..Len(ring) : ring[place] \in RingNodes(replicaIds)
           /\ \A node \in RingNodes(replicaIds) : \E place \in 1..Len(ring) : ring[place] = node
           /\ \A i, j \in 1..Len(ring) : i < j => ring[i].hash < ring[j].hash
<1> DEFINE nodes == RingNodes(replicaIds)
           r == { pair \in nodes \X nodes : pair[1].hash < pair[2].hash }
           Ahead(node) == { other \in nodes : other.hash < node.hash }
<1>1. /\ nodes \subseteq RingNode /\ nodes # {} /\ IsFiniteSet(nodes)
      /\ \A node, other \in nodes : node.hash = other.hash => node = other
  BY NodesAreApart
<1>2. \A node \in nodes : node.hash \in Nat
  BY <1>1 DEF RingNode
<1>3. ring = [place \in 1..Cardinality(nodes) |->
                 CHOOSE node \in nodes : Cardinality(Ahead(node)) = place - 1]
  BY DEF Ring
<1> HIDE DEF nodes
<1>4. \A node, other \in nodes : << node, other >> \in r <=> node.hash < other.hash
  OBVIOUS
<1>5. \A node \in nodes : Below(node, r, nodes) = Ahead(node)
  BY DEF Below
<1>6. Orders(r, nodes)
  <2> HIDE DEF r
  <2> QED
    BY <1>1, <1>2, <1>4 DEF Orders
<1>7. PICK rank : rank = [node \in nodes |-> Cardinality(Ahead(node))]
  OBVIOUS
<1>8. ASSUME NEW x \in nodes
      PROVE  /\ rank[x] = Cardinality(Ahead(x))
             /\ rank[x] = Cardinality(Below(x, r, nodes))
  BY <1>5, <1>7
<1> DEFINE n == Cardinality(nodes)
<1>9. /\ n \in Nat
      /\ \A x \in nodes : rank[x] \in 0..(n - 1)
      /\ \A k \in 0..(n - 1) : \E x \in nodes : rank[x] = k
      /\ \A x, y \in nodes : << x, y >> \in r <=> rank[x] < rank[y]
      /\ \A x, y \in nodes : rank[x] = rank[y] => x = y
  <2>1. \A x \in nodes : rank[x] = Cardinality(Below(x, r, nodes))
    BY <1>8
  <2> HIDE DEF r, Ahead
  <2>2. IsFiniteSet(nodes) /\ Orders(r, nodes)
    BY <1>1, <1>6
  <2> QED
    BY <2>1, <2>2, RanksAreSorted
<1> HIDE DEF r, Ahead
<1>10. ASSUME NEW place \in 1..n PROVE ring[place] \in nodes /\ rank[ring[place]] = place - 1
  <2>1. PICK x \in nodes : rank[x] = place - 1
    BY <1>9
  <2>2. \E node \in nodes : Cardinality(Ahead(node)) = place - 1
    BY <1>8, <2>1
  <2>3. ring[place] \in nodes /\ Cardinality(Ahead(ring[place])) = place - 1
    BY <1>3, <2>2
  <2> QED
    BY <1>8, <2>3
<1>11. Len(ring) = n
  <2>1. ring = [place \in 1..n |-> ring[place]]
    BY <1>3
  <2>2. ring \in [1..n -> nodes]
    BY <1>10, <2>1
  <2> QED
    BY <1>9, <2>2
<1>12. n >= 1
  <2>1. PICK node \in nodes : TRUE
    BY <1>1
  <2> QED
    BY <1>9, <2>1
<1>13. ASSUME NEW node \in nodes PROVE \E place \in 1..n : ring[place] = node
  <2>1. PICK place \in 1..n : place = rank[node] + 1
    BY <1>9
  <2>2. rank[ring[place]] = rank[node]
    BY <1>9, <1>10, <2>1
  <2> QED
    BY <1>9, <1>10, <2>2
<1>14. ASSUME NEW i \in 1..n, NEW j \in 1..n, i < j
       PROVE  ring[i].hash < ring[j].hash
  <2>1. rank[ring[i]] < rank[ring[j]]
    BY <1>9, <1>10, <1>14
  <2>2. << ring[i], ring[j] >> \in r
    BY <1>9, <1>10, <2>1
  <2> QED
    BY <1>4, <1>10, <2>2
<1> QED
  BY <1>9, <1>10, <1>11, <1>12, <1>13, <1>14 DEF nodes

\* The nearest node clockwise from a key, going round when none is ahead.
Nearest(node, replicaIds, key) ==
    /\ node \in RingNodes(replicaIds)
    /\ \A other \in RingNodes(replicaIds) :
           /\ node.hash >= KeyHash[key] /\ other.hash >= KeyHash[key] => node.hash <= other.hash
           /\ node.hash < KeyHash[key] => other.hash < KeyHash[key] /\ node.hash <= other.hash

\* Behind the last node the search goes round to the first.
LEMMA GoesRound ==
    ASSUME NEW n \in Nat \ {0}, NEW first \in 0..n
    PROVE  first % n = IF first < n THEN first ELSE 0
<1>1. CASE first < n
  BY <1>1
<1>2. CASE first = n
  BY <1>2
<1> QED
  BY <1>1, <1>2

\* What the search finds is the nearest node.
LEMMA SearchFindsNearest ==
    ASSUME NEW replicaIds \in Seq(Replicas), replicaIds # << >>, NEW key \in Keys
    PROVE  \E node : Nearest(node, replicaIds, key) /\ OwnerOf(replicaIds, key) = node.replica
<1>1. PICK ring : ring = Ring(replicaIds)
  OBVIOUS
<1>2. /\ Len(ring) \in Nat /\ Len(ring) >= 1
      /\ \A place \in 1..Len(ring) : ring[place] \in RingNodes(replicaIds)
      /\ \A node \in RingNodes(replicaIds) : \E place \in 1..Len(ring) : ring[place] = node
      /\ \A i, j \in 1..Len(ring) : i < j => ring[i].hash < ring[j].hash
  BY <1>1, RingIsSorted
<1>3. PICK target \in Int : target = KeyHash[key]
  BY HashRingAssumption
<1>4. \A node \in RingNodes(replicaIds) : node.hash \in Int
  BY NodesAreApart DEF RingNode
<1>5. \A i \in 1..Len(ring) : ring[i].hash \in Int
  BY <1>2, <1>4
<1>6. PICK first \in 0..Len(ring) :
          /\ first = FirstAtOrAfter(ring, target)
          /\ \A i \in 1..first : ring[i].hash < target
          /\ \A i \in first + 1..Len(ring) : ring[i].hash >= target
  BY <1>2, <1>5, SearchFinds
<1>7. PICK place \in 1..Len(ring) : place = (first % Len(ring)) + 1
                                    /\ place = IF first < Len(ring) THEN first + 1 ELSE 1
  <2>1. first % Len(ring) = IF first < Len(ring) THEN first ELSE 0
    BY <1>2, GoesRound
  <2> QED
    BY <1>2, <2>1
<1>8. OwnerOf(replicaIds, key) = ring[place].replica
  BY <1>1, <1>3, <1>6, <1>7 DEF OwnerOf
<1>9. ASSUME NEW other \in RingNodes(replicaIds)
      PROVE  /\ ring[place].hash >= target /\ other.hash >= target => ring[place].hash <= other.hash
             /\ ring[place].hash < target => other.hash < target /\ ring[place].hash <= other.hash
  <2>1. PICK j \in 1..Len(ring) : ring[j] = other
    BY <1>2
  <2>2. PICK mine \in Int, its \in Int : mine = ring[place].hash /\ its = other.hash
    BY <1>4, <1>5
  <2>3. place <= j => mine <= its
    <3>1. place < j => ring[place].hash < ring[j].hash
      BY <1>2
    <3>2. place < j => mine < its
      BY <2>1, <2>2, <3>1
    <3>3. place = j => mine = its
      BY <2>1, <2>2
    <3>4. place \in Int /\ j \in Int
      OBVIOUS
    <3> QED
      BY <3>2, <3>3, <3>4
  <2>4. CASE first < Len(ring)
    <3>1. place = first + 1 /\ mine >= target
      BY <1>6, <1>7, <2>2, <2>4
    <3>2. j < place => its < target
      BY <1>6, <2>1, <2>2, <3>1
    <3> QED
      BY <2>2, <2>3, <3>1, <3>2
  <2>5. CASE ~(first < Len(ring))
    <3>1. first = Len(ring) /\ place = 1
      BY <1>2, <1>7, <2>5
    <3>2. mine <= its
      BY <2>3, <3>1
    <3>3. its < target
      BY <1>6, <2>1, <2>2, <3>1
    <3> QED
      BY <2>2, <3>2, <3>3
  <2> QED
    BY <2>4, <2>5
<1>10. Nearest(ring[place], replicaIds, key)
  BY <1>2, <1>3, <1>9 DEF Nearest
<1> QED
  BY <1>8, <1>10

\* The reference definition takes the nearest node, of which there is one.
LEMMA NearestIsClockwise ==
    ASSUME NEW replicaIds \in Seq(Replicas), replicaIds # << >>, NEW key \in Keys,
           NEW node, Nearest(node, replicaIds, key)
    PROVE  ClockwiseOwner(replicaIds, key) = node.replica
<1> DEFINE nodes == RingNodes(replicaIds)
           ahead == { other \in nodes : other.hash >= KeyHash[key] }
           candidates == IF ahead = {} THEN nodes ELSE ahead
           chosen == CHOOSE x \in candidates : \A other \in candidates : x.hash <= other.hash
<1>1. KeyHash[key] \in Int /\ \A x \in nodes : x.hash \in Int
  BY HashRingAssumption, NodesAreApart DEF RingNode
<1>2. node \in candidates /\ \A other \in candidates : node.hash <= other.hash
  BY <1>1 DEF Nearest
<1>3. chosen \in candidates /\ \A other \in candidates : chosen.hash <= other.hash
  BY <1>2
<1>4. candidates \subseteq nodes
  OBVIOUS
<1> HIDE DEF candidates, chosen
<1>5. chosen.hash = node.hash
  BY <1>1, <1>2, <1>3, <1>4
<1>6. chosen = node
  BY <1>2, <1>3, <1>4, <1>5, NodesAreApart
<1> QED
  BY <1>6 DEF ClockwiseOwner, chosen, candidates

\* Which replicas a ring has, not their order, decides where its nodes are.
LEMMA NodesOfRange ==
    ASSUME NEW replicaIds \in Seq(Replicas), NEW node
    PROVE  node \in RingNodes(replicaIds) <=>
               \E replica \in Range(replicaIds), vnode \in 1..VirtualNodes :
                   node = [hash |-> NodeHash[<< replica, vnode >>], replica |-> replica]
<1>1. \A replica : replica \in Range(replicaIds) <=> \E i \in DOMAIN replicaIds : replicaIds[i] = replica
  BY DEF Range
<1>2. ASSUME node \in RingNodes(replicaIds)
      PROVE  \E replica \in Range(replicaIds), vnode \in 1..VirtualNodes :
                 node = [hash |-> NodeHash[<< replica, vnode >>], replica |-> replica]
  <2>1. PICK i \in DOMAIN replicaIds, vnode \in 1..VirtualNodes :
            node = [hash |-> NodeHash[<< replicaIds[i], vnode >>], replica |-> replicaIds[i]]
    BY <1>2, NodeOfList
  <2>2. replicaIds[i] \in Range(replicaIds)
    BY <1>1
  <2> QED
    BY <2>1, <2>2
<1>3. ASSUME NEW replica \in Range(replicaIds), NEW vnode \in 1..VirtualNodes,
             node = [hash |-> NodeHash[<< replica, vnode >>], replica |-> replica]
      PROVE  node \in RingNodes(replicaIds)
  <2>1. PICK i \in DOMAIN replicaIds : replicaIds[i] = replica
    BY <1>1
  <2> QED
    BY <1>3, <2>1, NodeOnRing
<1> QED
  BY <1>2, <1>3

\* A ring's owners are its replicas.
LEMMA OwnerIsOfTheRing ==
    ASSUME NEW replicaIds \in Seq(Replicas), replicaIds # << >>, NEW key \in Keys
    PROVE  /\ OwnerOf(replicaIds, key) = ClockwiseOwner(replicaIds, key)
           /\ OwnerOf(replicaIds, key) \in Range(replicaIds)
<1>1. PICK node : Nearest(node, replicaIds, key) /\ OwnerOf(replicaIds, key) = node.replica
  BY SearchFindsNearest
<1>2. OwnerOf(replicaIds, key) = ClockwiseOwner(replicaIds, key)
  BY <1>1, NearestIsClockwise
<1>3. node.replica \in Range(replicaIds)
  <2>1. PICK replica \in Range(replicaIds), vnode \in 1..VirtualNodes :
            node = [hash |-> NodeHash[<< replica, vnode >>], replica |-> replica]
    BY <1>1, NodesOfRange DEF Nearest
  <2> QED
    BY <2>1
<1> QED
  BY <1>1, <1>2, <1>3

\* Two rings disagree about a key only if the one has a replica that the other
\* has not, and it owns the key there.
LEMMA RingsAgree ==
    ASSUME NEW one \in Seq(Replicas), one # << >>, NEW other \in Seq(Replicas), other # << >>,
           NEW key \in Keys,
           OwnerOf(one, key) \in Range(other), OwnerOf(other, key) \in Range(one)
    PROVE  OwnerOf(one, key) = OwnerOf(other, key)
<1>1. PICK x : Nearest(x, one, key) /\ OwnerOf(one, key) = x.replica
  BY SearchFindsNearest
<1>2. PICK y : Nearest(y, other, key) /\ OwnerOf(other, key) = y.replica
  BY SearchFindsNearest
<1>3. x \in RingNodes(other)
  <2>1. PICK replica \in Range(one), vnode \in 1..VirtualNodes :
            x = [hash |-> NodeHash[<< replica, vnode >>], replica |-> replica]
    BY <1>1, NodesOfRange DEF Nearest
  <2> QED
    BY <1>1, <2>1, NodesOfRange
<1>4. y \in RingNodes(one)
  <2>1. PICK replica \in Range(other), vnode \in 1..VirtualNodes :
            y = [hash |-> NodeHash[<< replica, vnode >>], replica |-> replica]
    BY <1>2, NodesOfRange DEF Nearest
  <2> QED
    BY <1>2, <2>1, NodesOfRange
<1>5. KeyHash[key] \in Int /\ x.hash \in Int /\ y.hash \in Int
  BY <1>3, <1>4, HashRingAssumption, NodesAreApart DEF RingNode
<1>6. x.hash = y.hash
  BY <1>1, <1>2, <1>3, <1>4, <1>5 DEF Nearest
<1>7. x = y
  BY <1>3, <1>6, NodesAreApart, <1>2 DEF Nearest
<1> QED
  BY <1>1, <1>2, <1>7


-----------------------------------------------------------------------------
(* What routers answer *)

\* The ring of a router is kept for every session.
RingChoice(router, session) == RingOwner[fleet[router]][session]

\* What a call has read, or is about to record or answer.
Follows(call, router) ==
    /\ call.phase = "read" => call.owner \in { NoOwner, RingChoice(router, call.session) }
    /\ call.phase \in { "writing", "answered" } => call.owner = RingChoice(router, call.session)

\* Everything recorded, read, about to be recorded or answered is the choice of
\* the ring that all routers share.
Settled ==
    /\ \A one, other \in Routers : Range(fleet[one]) = Range(fleet[other])
    /\ \A router \in Routers, session \in Sessions :
           registry[session] \in { NoOwner, RingChoice(router, session) }
    /\ \A router \in Routers, c \in RoutingCalls : Follows(lookups[c], router)

AInv ==
    /\ disturbances \in [changes : Nat, failures : Nat, expiries : Nat]
    /\ disturbances.changes = 0 => Settled

\* The kept owners are those of the rings, and of their replicas.
LEMMA ChoiceIsOfTheRing ==
    ASSUME RInv, NEW router \in Routers, NEW session \in Sessions
    PROVE  /\ RingChoice(router, session) = OwnerOf(fleet[router], session)
           /\ RingChoice(router, session) = NearestOwner[fleet[router]][session]
           /\ RingChoice(router, session) \in Known(router)
           /\ Known(router) \subseteq Replicas /\ NoOwner \notin Known(router)
<1>1. fleet[router] \in Fleets /\ session \in Keys
  BY RoutingAssumption DEF RInv
<1>2. fleet[router] \in Seq(Replicas) /\ fleet[router] # << >>
  BY <1>1, RoutingAssumption
<1>3. /\ OwnerOf(fleet[router], session) = ClockwiseOwner(fleet[router], session)
      /\ OwnerOf(fleet[router], session) \in Range(fleet[router])
  BY <1>1, <1>2, OwnerIsOfTheRing
<1>4. /\ RingChoice(router, session) = OwnerOf(fleet[router], session)
      /\ NearestOwner[fleet[router]][session] = ClockwiseOwner(fleet[router], session)
  BY <1>1 DEF RingChoice, RingOwner, NearestOwner
<1>5. Known(router) \subseteq Replicas
  BY <1>2 DEF Known, Range
<1>6. NoOwner \notin Replicas
  BY RoutingAssumption
<1> QED
  BY <1>3, <1>4, <1>5, <1>6 DEF Known

\* Routers that know the same replicas choose the same, whatever the order of
\* their lists.
LEMMA SameReplicasSameChoice ==
    ASSUME RInv, NEW one \in Routers, NEW other \in Routers, Range(fleet[one]) = Range(fleet[other]),
           NEW session \in Sessions
    PROVE  RingChoice(one, session) = RingChoice(other, session)
<1>1. /\ RingChoice(one, session) = OwnerOf(fleet[one], session)
      /\ RingChoice(other, session) = OwnerOf(fleet[other], session)
      /\ RingChoice(one, session) \in Range(fleet[one])
      /\ RingChoice(other, session) \in Range(fleet[other])
  BY ChoiceIsOfTheRing DEF Known
<1>2. /\ fleet[one] \in Seq(Replicas) /\ fleet[one] # << >>
      /\ fleet[other] \in Seq(Replicas) /\ fleet[other] # << >>
      /\ session \in Keys
  BY RoutingAssumption DEF RInv
<1> QED
  BY <1>1, <1>2, RingsAgree

\* A step that changes no fleet and only calls and entries that agree with the
\* rings leaves everything settled.
LEMMA AgreeingStepsSettle ==
    ASSUME RInv, AInv, UNCHANGED fleet,
           disturbances' \in [changes : Nat, failures : Nat, expiries : Nat],
           disturbances'.changes = disturbances.changes,
           ASSUME Settled
           PROVE  /\ \A router \in Routers, session \in Sessions :
                         registry'[session] \in { NoOwner, RingChoice(router, session) }
                  /\ \A router \in Routers, c \in RoutingCalls : Follows(lookups'[c], router)
    PROVE  AInv'
<1> SUFFICES ASSUME disturbances.changes = 0 PROVE Settled'
  BY DEF AInv
<1>1. Settled
  BY DEF AInv
<1>2. /\ \A router \in Routers, session \in Sessions :
             registry'[session] \in { NoOwner, RingChoice(router, session) }
      /\ \A router \in Routers, c \in RoutingCalls : Follows(lookups'[c], router)
  BY <1>1
<1> QED
  BY <1>1, <1>2 DEF Settled, Follows, RingChoice

\* Counting a failure or an expiry counts no change.
LEMMA OtherDisturbances ==
    ASSUME AInv, \/ UNCHANGED disturbances
                 \/ \E count \in { "failures", "expiries" }, limit \in Nat : Disturb(count, limit)
    PROVE  /\ disturbances' \in [changes : Nat, failures : Nat, expiries : Nat]
           /\ disturbances'.changes = disturbances.changes
<1>1. disturbances \in [changes : Nat, failures : Nat, expiries : Nat]
  BY DEF AInv
<1>2. CASE UNCHANGED disturbances
  BY <1>1, <1>2
<1>3. ASSUME NEW limit \in Nat, Disturb("failures", limit)
      PROVE  /\ disturbances' \in [changes : Nat, failures : Nat, expiries : Nat]
             /\ disturbances'.changes = disturbances.changes
  BY <1>1, <1>3 DEF Disturb
<1>4. ASSUME NEW limit \in Nat, Disturb("expiries", limit)
      PROVE  /\ disturbances' \in [changes : Nat, failures : Nat, expiries : Nat]
             /\ disturbances'.changes = disturbances.changes
  BY <1>1, <1>4 DEF Disturb
<1> QED
  BY <1>2, <1>3, <1>4

\* A step in which one call goes on as the rings say.
LEMMA OneCallFollows ==
    ASSUME RInv, AInv, UNCHANGED fleet,
           \/ UNCHANGED disturbances
           \/ \E count \in { "failures", "expiries" }, limit \in Nat : Disturb(count, limit),
           \A session \in Sessions : registry'[session] \in { NoOwner, registry[session] },
           NEW c \in RoutingCalls, NEW call, Proceed(c, call),
           ASSUME Settled, NEW router \in Routers PROVE Follows(call, router)
    PROVE  AInv'
<1>1. ASSUME Settled
      PROVE  /\ \A router \in Routers, session \in Sessions :
                    registry'[session] \in { NoOwner, RingChoice(router, session) }
             /\ \A router \in Routers, d \in RoutingCalls : Follows(lookups'[d], router)
  <2>1. ASSUME NEW router \in Routers, NEW d \in RoutingCalls PROVE Follows(lookups'[d], router)
    <3>1. lookups'[d] = IF d = c THEN call ELSE lookups[d]
      BY DEF Proceed, RInv
    <3> QED
      BY <1>1, <3>1 DEF Settled
  <2>2. ASSUME NEW router \in Routers, NEW session \in Sessions
        PROVE  registry'[session] \in { NoOwner, RingChoice(router, session) }
    BY <1>1 DEF Settled
  <2> QED
    BY <2>1, <2>2
<1> QED
  BY <1>1, OtherDisturbances, AgreeingStepsSettle

\* Of bounds, that they are.
LEMMA BoundsAreNumbers == MaxFleetChanges \in Nat /\ MaxRegistryFailures \in Nat /\ MaxExpiries \in Nat
  BY RoutingAssumption

\* The reading of a registry that agrees with the rings agrees.
LEMMA ReadsFollow ==
    ASSUME RInv, AInv, NEW c \in RoutingCalls,
           \/ GetOwner(c) \/ GetOwnerFails(c)
           \/ \E session \in Sessions :
                 \/ \E router \in Routers : ResolveOwner(c, router, session)
                 \/ \E replica \in Replicas : ReleaseOwner(c, replica, session)
    PROVE  AInv'
<1>1. ASSUME NEW session \in Sessions,
             NEW phase \in { "reading", "comparing" }, NEW by, NEW owner,
             Proceed(c, Lookup(phase, by, session, owner, FALSE)),
             UNCHANGED << registry, fleet, disturbances >>
      PROVE  AInv'
  <2> DEFINE call == Lookup(phase, by, session, owner, FALSE)
  <2>1. ASSUME NEW router \in Routers PROVE Follows(call, router)
    BY DEF Follows, Lookup
  <2> HIDE DEF call
  <2> QED
    BY <1>1, <2>1, OneCallFollows DEF call
<1>2. ASSUME NEW owner, owner \in { registry[lookups[c].session], NoOwner },
             lookups[c].phase = "reading",
             Proceed(c, [lookups[c] EXCEPT !.phase = "read", !.owner = owner]),
             UNCHANGED << registry, fleet >>,
             \/ UNCHANGED disturbances
             \/ \E count \in { "failures", "expiries" }, limit \in Nat : Disturb(count, limit)
      PROVE  AInv'
  <2> DEFINE call == [lookups[c] EXCEPT !.phase = "read", !.owner = owner]
  <2>1. lookups[c] \in [phase : CallPhases, by : Routers \union Replicas, session : Sessions,
                        owner : Owners, raced : BOOLEAN]
    BY <1>2, UnderWay
  <2>2. call.phase = "read" /\ call.owner = owner /\ call.session = lookups[c].session
    BY <2>1
  <2>3. ASSUME Settled, NEW router \in Routers PROVE Follows(call, router)
    BY <1>2, <2>1, <2>2, <2>3 DEF Follows, Settled
  <2> HIDE DEF call
  <2> QED
    BY <1>2, <2>3, OneCallFollows DEF call
<1>3. CASE GetOwner(c)
  BY <1>2, <1>3 DEF GetOwner
<1>4. CASE GetOwnerFails(c)
  <2>1. \E count \in { "failures", "expiries" }, limit \in Nat : Disturb(count, limit)
    BY <1>4, BoundsAreNumbers DEF GetOwnerFails
  <2> QED
    BY <1>2, <1>4, <2>1 DEF GetOwnerFails
<1> QED
  BY <1>1, <1>3, <1>4 DEF ResolveOwner, ReleaseOwner

\* A choice between what was read and the ring is the ring's either way.
LEMMA ChoicesFollow ==
    ASSUME RInv, AInv, NEW c \in RoutingCalls, Choose(c) PROVE AInv'
<1>1. /\ lookups[c].phase = "read" /\ UNCHANGED << registry, fleet, disturbances >>
      /\ lookups[c].by \in Routers
  BY DEF Choose, RInv, Consistent, Resolving
<1>2. lookups[c] \in [phase : CallPhases, by : Routers \union Replicas, session : Sessions,
                      owner : Owners, raced : BOOLEAN]
  BY <1>1, UnderWay
<1>3. PICK by \in Routers, session \in Sessions : by = lookups[c].by /\ session = lookups[c].session
  BY <1>1, <1>2
<1>4. CASE lookups[c].owner \in Known(by)
  <2> DEFINE call == [lookups[c] EXCEPT !.phase = "answered"]
  <2>1. Proceed(c, call)
    BY <1>3, <1>4 DEF Choose
  <2>2. call.phase = "answered" /\ call.owner = lookups[c].owner /\ call.session = session
    BY <1>2, <1>3
  <2>3. ASSUME Settled, NEW router \in Routers PROVE Follows(call, router)
    <3>1. lookups[c].owner \in { NoOwner, RingChoice(router, session) }
      BY <1>1, <1>3, <2>3 DEF Settled, Follows
    <3>2. lookups[c].owner # NoOwner
      BY <1>3, <1>4, ChoiceIsOfTheRing
    <3> QED
      BY <2>2, <3>1, <3>2 DEF Follows
  <2> HIDE DEF call
  <2> QED
    BY <1>1, <2>1, <2>3, OneCallFollows
<1>5. CASE lookups[c].owner \notin Known(by)
  <2> DEFINE call == [lookups[c] EXCEPT !.phase = "writing", !.owner = RingOwner[fleet[by]][session]]
  <2>1. Proceed(c, call)
    BY <1>3, <1>5 DEF Choose
  <2>2. call.phase = "writing" /\ call.owner = RingChoice(by, session) /\ call.session = session
    BY <1>2, <1>3 DEF RingChoice
  <2>3. ASSUME Settled, NEW router \in Routers PROVE Follows(call, router)
    <3>1. RingChoice(by, session) = RingChoice(router, session)
      BY <2>3, SameReplicasSameChoice DEF Settled
    <3> QED
      BY <2>2, <3>1 DEF Follows
  <2> HIDE DEF call
  <2> QED
    BY <1>1, <2>1, <2>3, OneCallFollows
<1> QED
  BY <1>4, <1>5

\* What is recorded is what a router computed.
LEMMA WritesFollow ==
    ASSUME RInv, AInv, NEW c \in RoutingCalls, SetOwner(c) PROVE AInv'
<1>1. /\ lookups[c].phase = "writing" /\ UNCHANGED << fleet, disturbances >>
      /\ registry' = [registry EXCEPT ![lookups[c].session] = lookups[c].owner]
  BY DEF SetOwner
<1>2. lookups[c] \in [phase : CallPhases, by : Routers \union Replicas, session : Sessions,
                      owner : Owners, raced : BOOLEAN]
  BY <1>1, UnderWay
<1>3. ASSUME Settled, NEW router \in Routers, NEW session \in Sessions
      PROVE  registry'[session] \in { NoOwner, RingChoice(router, session) }
  <2>1. registry[session] \in { NoOwner, RingChoice(router, session) }
        /\ (lookups[c].session = session => lookups[c].owner = RingChoice(router, session))
    BY <1>1, <1>3 DEF Settled, Follows
  <2>2. registry'[session] = IF session = lookups[c].session THEN lookups[c].owner ELSE registry[session]
    BY <1>1, <1>2 DEF RInv
  <2> QED
    BY <2>1, <2>2
<1>4. ASSUME Settled, NEW router \in Routers, NEW d \in RoutingCalls
      PROVE  Follows(lookups'[d], router)
  <2>1. Follows(lookups[d], router)
    BY <1>4 DEF Settled
  <2>2. lookups'[d] = IF d = c THEN [lookups[c] EXCEPT !.phase = "answered"]
                      ELSE IF lookups[d].phase = "deleting" /\ lookups[d].session = lookups[c].session
                           THEN [lookups[d] EXCEPT !.raced = TRUE] ELSE lookups[d]
    BY DEF SetOwner
  <2>3. CASE d = c
    <3>1. /\ lookups'[d].phase = "answered" /\ lookups'[d].owner = lookups[c].owner
          /\ lookups'[d].session = lookups[c].session
      BY <1>2, <2>2, <2>3
    <3> QED
      BY <1>1, <2>1, <2>3, <3>1 DEF Follows
  <2>4. CASE d # c /\ lookups[d].phase = "deleting" /\ lookups[d].session = lookups[c].session
    <3>1. lookups[d] \in [phase : CallPhases, by : Routers \union Replicas, session : Sessions,
                          owner : Owners, raced : BOOLEAN]
      BY <2>4, UnderWay
    <3>2. lookups'[d].phase = "deleting"
      BY <2>2, <2>4, <3>1
    <3> QED
      BY <3>2 DEF Follows
  <2>5. CASE d # c /\ ~(lookups[d].phase = "deleting" /\ lookups[d].session = lookups[c].session)
    BY <2>1, <2>2, <2>5
  <2> QED
    BY <2>3, <2>4, <2>5
<1>5. /\ disturbances' \in [changes : Nat, failures : Nat, expiries : Nat]
      /\ disturbances'.changes = disturbances.changes
  BY <1>1 DEF AInv
<1> QED
  BY <1>1, <1>3, <1>4, <1>5, AgreeingStepsSettle

\* The end of a call, and of a release.
LEMMA EndsFollow ==
    ASSUME RInv, AInv, NEW c \in RoutingCalls,
           SetOwnerFails(c) \/ CompareOwner(c) \/ DeleteOwner(c) \/ ReleaseFails(c)
    PROVE  AInv'
<1>1. lookups[c].phase \in { "writing", "comparing", "deleting" } /\ UNCHANGED fleet
  BY DEF SetOwnerFails, CompareOwner, DeleteOwner, ReleaseFails
<1>2. lookups[c] \in [phase : CallPhases, by : Routers \union Replicas, session : Sessions,
                      owner : Owners, raced : BOOLEAN]
  BY <1>1, UnderWay
<1>3. PICK phase : /\ Proceed(c, [lookups[c] EXCEPT !.phase = phase])
                   /\ \/ phase = "answered" /\ lookups[c].phase = "writing"
                      \/ phase \in { "deleting", "released" }
  BY DEF SetOwnerFails, CompareOwner, DeleteOwner, ReleaseFails
<1>4. \/ UNCHANGED disturbances
      \/ \E count \in { "failures", "expiries" }, limit \in Nat : Disturb(count, limit)
  BY BoundsAreNumbers DEF SetOwnerFails, CompareOwner, DeleteOwner, ReleaseFails
<1>5. \A session \in Sessions : registry'[session] \in { NoOwner, registry[session] }
  BY DEF RInv, SetOwnerFails, CompareOwner, DeleteOwner, ReleaseFails
<1> DEFINE call == [lookups[c] EXCEPT !.phase = phase]
<1>6. /\ call.phase = phase /\ call.owner = lookups[c].owner /\ call.session = lookups[c].session
  BY <1>2
<1>7. ASSUME Settled, NEW router \in Routers PROVE Follows(call, router)
  <2>1. Follows(lookups[c], router)
    BY <1>7 DEF Settled
  <2> QED
    BY <1>3, <1>6, <2>1 DEF Follows
<1> HIDE DEF call
<1> QED
  BY <1>1, <1>3, <1>4, <1>5, <1>7, OneCallFollows DEF call

\* The end of an entry, and a change of a fleet, which is counted.
LEMMA OtherStepsFollow ==
    ASSUME RInv, AInv,
           \/ \E session \in Sessions : Expire(session)
           \/ \E router \in Routers, replicaIds \in Fleets : UpdateReplicaSet(router, replicaIds)
           \/ UNCHANGED routingVars
    PROVE  AInv'
<1>1. ASSUME NEW session \in Sessions, Expire(session) PROVE AInv'
  <2>1. \E count \in { "failures", "expiries" }, limit \in Nat : Disturb(count, limit)
    BY <1>1, BoundsAreNumbers DEF Expire
  <2>2. \A other \in Sessions : registry'[other] \in { NoOwner, registry[other] }
    BY <1>1 DEF Expire, RInv
  <2>3. ASSUME Settled
        PROVE  /\ \A router \in Routers, other \in Sessions :
                      registry'[other] \in { NoOwner, RingChoice(router, other) }
               /\ \A router \in Routers, c \in RoutingCalls : Follows(lookups'[c], router)
    <3>1. ASSUME NEW router \in Routers, NEW other \in Sessions
          PROVE  registry'[other] \in { NoOwner, RingChoice(router, other) }
      BY <2>2, <2>3 DEF Settled
    <3>2. lookups' = lookups
      BY <1>1 DEF Expire
    <3> QED
      BY <2>3, <3>1, <3>2 DEF Settled
  <2>4. UNCHANGED fleet
    BY <1>1 DEF Expire
  <2> QED
    BY <2>1, <2>3, <2>4, OtherDisturbances, AgreeingStepsSettle
<1>2. ASSUME NEW router \in Routers, NEW replicaIds \in Fleets, UpdateReplicaSet(router, replicaIds)
      PROVE  AInv'
  <2>1. disturbances \in [changes : Nat, failures : Nat, expiries : Nat]
    BY DEF AInv
  <2>2. disturbances' = [disturbances EXCEPT !.changes = @ + 1]
    BY <1>2 DEF UpdateReplicaSet, Disturb
  <2>3. /\ disturbances' \in [changes : Nat, failures : Nat, expiries : Nat]
        /\ disturbances'.changes # 0
    BY <2>1, <2>2
  <2> QED
    BY <2>3 DEF AInv
<1>3. CASE UNCHANGED routingVars
  BY <1>3 DEF routingVars, AInv, Settled, Follows, RingChoice
<1> QED
  BY <1>1, <1>2, <1>3

\* No step but a change of a fleet unsettles what the rings agree on.
LEMMA AgreementStays == RInv /\ AInv /\ [RoutingNext]_routingVars => AInv'
<1> SUFFICES ASSUME RInv, AInv, [RoutingNext]_routingVars PROVE AInv'
  OBVIOUS
<1>1. ASSUME NEW c \in RoutingCalls,
             \/ \E session \in Sessions :
                   \/ \E router \in Routers : ResolveOwner(c, router, session)
                   \/ \E replica \in Replicas : ReleaseOwner(c, replica, session)
             \/ GetOwner(c) \/ GetOwnerFails(c) \/ Choose(c) \/ SetOwner(c) \/ SetOwnerFails(c)
             \/ CompareOwner(c) \/ DeleteOwner(c) \/ ReleaseFails(c)
      PROVE  AInv'
  BY <1>1, ReadsFollow, ChoicesFollow, WritesFollow, EndsFollow
<1>2. CASE \/ \E session \in Sessions : Expire(session)
           \/ \E router \in Routers, replicaIds \in Fleets : UpdateReplicaSet(router, replicaIds)
           \/ UNCHANGED routingVars
  BY <1>2, OtherStepsFollow
<1> QED
  BY <1>1, <1>2 DEF RoutingNext

\* At the start nothing is recorded and all routers know the same replicas.
LEMMA AgreedAtFirst == RoutingInit => AInv
<1> SUFFICES ASSUME RoutingInit PROVE AInv
  OBVIOUS
<1>1. \A c \in RoutingCalls, router \in Routers : Follows(lookups[c], router)
  BY DEF RoutingInit, Follows, Idle
<1>2. Settled
  BY <1>1 DEF RoutingInit, Settled
<1> QED
  BY <1>2 DEF RoutingInit, AInv

\* While no replica set has changed, what the registry holds and what every
\* call has read, computed or answered is the choice of the one ring there is.
THEOREM RoutersFollowTheRing == RoutingSpec => []AInv
<1>1. RoutingInit => AInv
  BY AgreedAtFirst
<1>2. RInv /\ AInv /\ [RoutingNext]_routingVars => AInv'
  BY AgreementStays
<1> QED
  BY <1>1, <1>2, RoutingInvariance, PTL DEF RoutingSpec

\* Every owner answered before a replica set changes is the nearest node
\* clockwise: the binary search agrees with that definition on every ring, and
\* neither the order of a router's list nor what Redis refuses, forgets or
\* releases makes a difference.
THEOREM AnswersFollow == RoutingSpec => []AnswersFollowTheRing
<1>1. RInv /\ AInv => AnswersFollowTheRing
  <2> SUFFICES ASSUME RInv, AInv, disturbances.changes = 0,
                      NEW c \in RoutingCalls, lookups[c].phase = "answered",
                      NEW router \in Routers
               PROVE  lookups[c].owner = NearestOwner[fleet[router]][lookups[c].session]
    BY DEF AnswersFollowTheRing
  <2>1. Follows(lookups[c], router)
    BY DEF AInv, Settled
  <2>2. lookups[c].session \in Sessions
    BY UnderWay
  <2> QED
    BY <2>1, <2>2, ChoiceIsOfTheRing DEF Follows
<1> QED
  BY <1>1, RoutersFollowTheRing, RoutingInvariance, PTL

\* Whatever list of replicas a router is given next, a key changes its owner
\* only for a replica that has come or from one that has gone.
THEOREM RingsMoveOnly == RoutingSpec => RingsMoveOnlyWhatTheyMust
<1>1. ASSUME RInv, RInv'
      PROVE  \A router \in Routers, key \in Keys :
                LET before == RingOwner[fleet[router]][key]
                    after == RingOwner[fleet'[router]][key]
                IN before # after => \/ after \notin Range(fleet[router])
                                     \/ before \notin Range(fleet'[router])
  <2> SUFFICES ASSUME NEW router \in Routers, NEW key \in Keys,
                      RingOwner[fleet'[router]][key] \in Range(fleet[router]),
                      RingOwner[fleet[router]][key] \in Range(fleet'[router])
               PROVE  RingOwner[fleet[router]][key] = RingOwner[fleet'[router]][key]
    OBVIOUS
  <2>1. PICK one \in Fleets, other \in Fleets : one = fleet[router] /\ other = fleet'[router]
    BY <1>1 DEF RInv
  <2>2. /\ one \in Seq(Replicas) /\ one # << >>
        /\ other \in Seq(Replicas) /\ other # << >>
    BY RoutingAssumption
  <2>3. /\ RingOwner[one][key] = OwnerOf(one, key)
        /\ RingOwner[other][key] = OwnerOf(other, key)
    BY DEF RingOwner
  <2> QED
    BY <2>1, <2>2, <2>3, RingsAgree
<1>2. RInv /\ RInv' /\ [RoutingNext]_routingVars =>
      [\A router \in Routers, key \in Keys :
          LET before == RingOwner[fleet[router]][key]
              after == RingOwner[fleet'[router]][key]
          IN before # after => \/ after \notin Range(fleet[router])
                               \/ before \notin Range(fleet'[router])]_routingVars
  BY <1>1
<1> QED
  BY <1>2, RoutingInvariance, PTL DEF RoutingSpec, RingsMoveOnlyWhatTheyMust
=============================================================================
