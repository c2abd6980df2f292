------------------------- MODULE OrchestrationProofs -------------------------
(***************************************************************************)
(* Proofs about SessionOrchestration, for any sessions, ingestions,        *)
(* batches, scores and overrides, and for any failures, lost replies,      *)
(* crashes and orphans unless a theorem says otherwise.  What the store    *)
(* does inside an ingestion is taken from StoreProofs: every step of the   *)
(* orchestration is a step of the store, or none.                          *)
(***************************************************************************)
EXTENDS SessionOrchestration, StoreProofs, FiniteSetTheorems

\* The batches an adapter could bring, and the service with any of them: what
\* holds of its steps holds of Next, whose batches are some of these, and of
\* VisualAudioIngestion, whose adapters build their own.
AnyBatch == Seq([bundle : STRING, flagged : BOOLEAN])

OpenNext ==
    \/ \E i \in Ingests, s \in Sessions, batch \in AnyBatch, now \in Nows : Enqueue(i, s, batch, now)
    \/ Serve
    \/ \E orphans \in SUBSET Calls : Restart(orphans)

LedgerEvent == [bundle : STRING, flagged : BOOLEAN, ingest : Ingests]

Decision ==
    [ingest : Ingests, session : Sessions, record : LifecycleSessionRecord,
     state : LifecycleStates, transitioned : BOOLEAN, alert : Alerts,
     ambiguous : BOOLEAN, events : Seq(LedgerEvent)]

Admitted ==
    [pc : { "queued", "appending", "listing" }, session : Sessions, batch : AnyBatch,
     now : Nows, appended : Nat]

Evaluating ==
    [pc : { "evaluating" }, session : Sessions, score : Scores, events : Seq(LedgerEvent)]

Narrating == [pc : { "narrating" }, session : Sessions, decision : Decision]

Idle == [pc : { "new" } \cup Finished]

OrchTypes ==
    /\ ledger \in [Sessions -> Seq(LedgerEvent)]
    /\ chain \in [Sessions -> Seq(Ingests)]
    /\ ingests \in [Ingests -> Idle \cup Admitted \cup Evaluating \cup Narrating]
    /\ wasAmbiguous \in [Sessions -> BOOLEAN]
    /\ published \in Seq(Decision)

Waits(i, s) == ingests[i].pc \in Waiting /\ ingests[i].session = s

\* The chain of a session: each of its ingestions under way once, all but the
\* first still in the queue.
Turns ==
    \A s \in Sessions :
        /\ \A k \in 1..Len(chain[s]) : Waits(chain[s][k], s)
        /\ \A j, k \in 1..Len(chain[s]) : chain[s][j] = chain[s][k] => j = k
        /\ \A k \in 2..Len(chain[s]) : ingests[chain[s][k]].pc = "queued"
        /\ \A i \in Ingests : Waits(i, s) => \E k \in 1..Len(chain[s]) : chain[s][k] = i

\* An ingestion is being evaluated exactly while the store works for it.
Linked(i) ==
    /\ ingests[i].pc = "evaluating" <=> calls[i].pc \notin { "idle", "orphaned" }
    /\ ingests[i].pc = "evaluating" =>
           /\ calls[i].session = ingests[i].session
           /\ calls[i].op.kind = "evaluate"
           /\ calls[i].op.posterior = ingests[i].score.posterior
    /\ calls[i].pc = "orphaned" => ingests[i].pc = "lost"

\* A change the state machine made had its reason, and who has an answer has
\* a record.
Reasoned(c) ==
    /\ calls[c].pc = "returned" => calls[c].result \in LifecycleSessionRecord
    /\ /\ calls[c].pc \in { "saving", "saved", "orphaned", "returned" }
       /\ calls[c].sequence # -1
       /\ calls[c].op.kind = "evaluate"
       => /\ calls[c].result.state = "DISQUALIFIED" => calls[c].op.contradiction = "corroborated"
          /\ calls[c].result.state = "RECOVERED" => calls[c].op.posterior.probability >= 55

OInv ==
    /\ NInv
    /\ OrchTypes
    /\ Turns
    /\ \A i \in Ingests : Linked(i)
    /\ \A c \in Calls : Reasoned(c)

\* A step of the service is one of the open service.
LEMMA NextIsOpen == [Next]_vars => [OpenNext]_vars
BY BatchesAssumption DEF Next, OpenNext, AnyBatch

-----------------------------------------------------------------------------
(* The chain *)

\* An ingestion that has left the queue is the first of its chain.
LEMMA AtWorkIsFirst ==
    ASSUME OrchTypes, Turns, NEW i \in Ingests,
           ingests[i].pc \in Waiting \ { "queued" }
    PROVE  /\ ingests[i].session \in Sessions
           /\ chain[ingests[i].session] \in Seq(Ingests)
           /\ Len(chain[ingests[i].session]) >= 1
           /\ chain[ingests[i].session][1] = i
<1>1. ingests[i] \in Admitted \cup Evaluating \cup Narrating
  BY DEF OrchTypes, Idle, Waiting, Finished
<1>2. ingests[i].session \in Sessions
  BY <1>1 DEF Admitted, Evaluating, Narrating
<1>3. chain[ingests[i].session] \in Seq(Ingests)
  BY <1>2 DEF OrchTypes
<1>4. PICK k \in 1..Len(chain[ingests[i].session]) : chain[ingests[i].session][k] = i
  BY <1>2 DEF Turns, Waits
<1>5. k \notin 2..Len(chain[ingests[i].session])
  BY <1>2, <1>4 DEF Turns
<1>6. Len(chain[ingests[i].session]) \in Nat
  BY <1>3
<1> QED
  BY <1>2, <1>3, <1>4, <1>5, <1>6

\* So no two ingestions of one session are at work.
LEMMA OneAtWork ==
    ASSUME OrchTypes, Turns, NEW i \in Ingests, NEW j \in Ingests,
           ingests[i].pc \in Waiting \ { "queued" }, ingests[j].pc \in Waiting \ { "queued" },
           ingests[i].session = ingests[j].session
    PROVE  i = j
<1>1. chain[ingests[i].session][1] = i
  BY AtWorkIsFirst
<1>2. chain[ingests[j].session][1] = j
  BY AtWorkIsFirst
<1> QED
  BY <1>1, <1>2

\* The first of a chain goes on with its work.
LEMMA WorkKeepsTurns ==
    ASSUME OrchTypes, Turns, UNCHANGED chain, NEW i \in Ingests, NEW ing,
           ingests' = [ingests EXCEPT ![i] = ing],
           NEW s \in Sessions, Waits(i, s), ing.pc \in Waiting, ing.session = s,
           Len(chain[s]) >= 1, chain[s][1] = i
    PROVE  Turns'
<1>1. \A j \in Ingests : ingests'[j] = IF j = i THEN ing ELSE ingests[j]
  BY DEF OrchTypes
<1>2. \A j \in Ingests : \A t : Waits(j, t)' <=> Waits(j, t)
  BY <1>1 DEF Waits
<1>3. ASSUME NEW t \in Sessions, NEW k \in 2..Len(chain[t])
      PROVE  ingests'[chain[t][k]].pc = "queued"
  <2>1. chain[t] \in Seq(Ingests) /\ Len(chain[t]) \in Nat
    BY DEF OrchTypes
  <2>2. k \in 1..Len(chain[t]) /\ 1 \in 1..Len(chain[t]) /\ k # 1
    BY <2>1
  <2>3. chain[t][k] \in Ingests /\ ingests[chain[t][k]].pc = "queued" /\ Waits(chain[t][k], t)
    BY <2>1, <2>2 DEF Turns
  <2>4. chain[t][k] # i
    <3>1. CASE t = s
      BY <2>2, <3>1 DEF Turns
    <3>2. CASE t # s
      BY <2>3, <3>2 DEF Waits
    <3> QED
      BY <3>1, <3>2
  <2> QED
    BY <1>1, <2>3, <2>4
<1>4. ASSUME NEW t \in Sessions, NEW k \in 1..Len(chain[t])
      PROVE  Waits(chain[t][k], t)'
  <2>1. chain[t][k] \in Ingests /\ Waits(chain[t][k], t)
    BY DEF OrchTypes, Turns
  <2>2. Waits(chain[t][k], t) <=> (ingests'[chain[t][k]].pc \in Waiting /\ ingests'[chain[t][k]].session = t)
    BY <1>2, <2>1 DEF Waits
  <2> QED
    BY <2>1, <2>2 DEF Waits
<1>5. ASSUME NEW t \in Sessions
      PROVE  /\ (\A j, k \in 1..Len(chain[t]) : chain[t][j] = chain[t][k] => j = k)'
             /\ (\A j \in Ingests : Waits(j, t) => \E k \in 1..Len(chain[t]) : chain[t][k] = j)'
  <2>1. \A j \in Ingests : Waits(j, t)' => \E k \in 1..Len(chain[t]) : chain[t][k] = j
    BY <1>2 DEF Turns
  <2> QED
    BY <2>1 DEF Turns
<1> QED
  BY <1>3, <1>4, <1>5 DEF Turns

\* A new ingestion goes to the end of the chain.
LEMMA EnqueueKeepsTurns ==
    ASSUME OrchTypes, Turns, NEW i \in Ingests, ingests[i].pc \notin Waiting, NEW ing,
           ingests' = [ingests EXCEPT ![i] = ing],
           NEW s \in Sessions, ing.pc = "queued", ing.session = s,
           chain' = [chain EXCEPT ![s] = Append(@, i)]
    PROVE  Turns'
<1>1. \A j \in Ingests : ingests'[j] = IF j = i THEN ing ELSE ingests[j]
  BY DEF OrchTypes
<1>2. \A t \in Sessions : chain'[t] = IF t = s THEN Append(chain[s], i) ELSE chain[t]
  BY DEF OrchTypes
<1>3. \A j \in Ingests : \A t : Waits(j, t)' <=> (Waits(j, t) \/ (j = i /\ t = s))
  BY <1>1 DEF Waits, Waiting
<1> SUFFICES ASSUME NEW t \in Sessions
             PROVE  /\ \A k \in 1..Len(chain'[t]) : Waits(chain[t][k], t)'
                    /\ \A j, k \in 1..Len(chain'[t]) : chain'[t][j] = chain'[t][k] => j = k
                    /\ \A k \in 2..Len(chain'[t]) : ingests'[chain'[t][k]].pc = "queued"
                    /\ \A j \in Ingests : Waits(j, t)' => \E k \in 1..Len(chain'[t]) : chain'[t][k] = j
  BY DEF Turns
<1>4. /\ chain[t] \in Seq(Ingests) /\ Len(chain[t]) \in Nat
      /\ \A k \in 1..Len(chain[t]) : chain[t][k] \in Ingests /\ Waits(chain[t][k], t)
      /\ \A j, k \in 1..Len(chain[t]) : chain[t][j] = chain[t][k] => j = k
      /\ \A k \in 2..Len(chain[t]) : ingests[chain[t][k]].pc = "queued"
      /\ \A j \in Ingests : Waits(j, t) => \E k \in 1..Len(chain[t]) : chain[t][k] = j
  BY DEF OrchTypes, Turns
<1>5. \A k \in 1..Len(chain[t]) : chain[t][k] # i
  BY <1>4 DEF Waits
<1>6. CASE t # s
  <2>1. chain'[t] = chain[t]
    BY <1>2, <1>6
  <2>2. \A k \in 2..Len(chain[t]) : k \in 1..Len(chain[t])
    BY <1>4
  <2>3. \A k \in 1..Len(chain[t]) : Waits(chain[t][k], t)'
    <3> SUFFICES ASSUME NEW k \in 1..Len(chain[t])
                 PROVE  ingests'[chain[t][k]].pc \in Waiting /\ ingests'[chain[t][k]].session = t
      BY <2>1 DEF Waits
    <3> QED
      BY <1>1, <1>4, <1>5 DEF Waits
  <2>4. \A k \in 2..Len(chain[t]) : ingests'[chain[t][k]].pc = "queued"
    BY <1>1, <1>4, <1>5, <2>2
  <2>5. \A j \in Ingests : Waits(j, t)' => Waits(j, t)
    BY <1>3, <1>6
  <2> QED
    BY <1>4, <2>1, <2>3, <2>4, <2>5
<1>7. CASE t = s
  <2> DEFINE old == chain[s]
             new == Append(chain[s], i)
             n == Len(chain[s])
  <2>1. /\ chain'[t] = new /\ n \in Nat /\ Len(new) = n + 1 /\ new[n + 1] = i
        /\ \A k \in 1..n : new[k] = old[k]
    <3>1. old \in Seq(Ingests)
      BY DEF OrchTypes
    <3>2. chain'[t] = new
      BY <1>2, <1>7
    <3> QED
      BY <3>1, <3>2, AppendProperties
  <2>2. \A k \in 1..n + 1 : k \in 1..n \/ k = n + 1
    BY <2>1
  <2>3. \A k \in 1..n : old[k] \in Ingests /\ Waits(old[k], s) /\ old[k] # i
    BY <1>4, <1>5, <1>7
  <2>4. ASSUME NEW k \in 1..n + 1
        PROVE  ingests'[new[k]].pc \in Waiting /\ ingests'[new[k]].session = s
    BY <1>1, <2>1, <2>2, <2>3 DEF Waits, Waiting
  <2>5. \A k \in 2..n + 1 : ingests'[new[k]].pc = "queued"
    <3>1. \A k \in 2..n + 1 : k \in 2..n \/ k = n + 1
      BY <2>1
    <3>2. \A k \in 2..n : k \in 1..n /\ ingests[old[k]].pc = "queued"
      BY <1>4, <1>7, <2>1
    <3> QED
      BY <1>1, <2>1, <2>3, <3>1, <3>2
  <2>6. \A j, k \in 1..n + 1 : new[j] = new[k] => j = k
    BY <1>4, <1>7, <2>1, <2>2, <2>3
  <2>7. \A j \in Ingests : Waits(j, s)' => \E k \in 1..n + 1 : new[k] = j
    <3> SUFFICES ASSUME NEW j \in Ingests, Waits(j, s)' PROVE \E k \in 1..n + 1 : new[k] = j
      OBVIOUS
    <3>1. CASE j = i
      BY <2>1, <3>1
    <3>2. CASE j # i
      <4>1. PICK k \in 1..n : old[k] = j
        BY <1>3, <1>4, <1>7, <3>2
      <4> QED
        BY <2>1, <4>1
    <3> QED
      BY <3>1, <3>2
  <2>8. chain'[t] = new /\ Len(chain'[t]) = n + 1
    BY <2>1
  <2>9. \A k \in 1..Len(chain'[t]) : Waits(chain[t][k], t)'
    BY <1>7, <2>4, <2>8 DEF Waits
  <2>10. \A k \in 2..Len(chain'[t]) : ingests'[chain'[t][k]].pc = "queued"
    BY <2>5, <2>8
  <2>11. \A j, k \in 1..Len(chain'[t]) : chain'[t][j] = chain'[t][k] => j = k
    BY <2>6, <2>8
  <2>12. \A j \in Ingests : Waits(j, t)' => \E k \in 1..Len(chain'[t]) : chain'[t][k] = j
    BY <1>7, <2>7, <2>8
  <2> QED
    BY <2>9, <2>10, <2>11, <2>12
<1> QED
  BY <1>6, <1>7

\* The first of a chain ends, and its part of the chain with it.
LEMMA EndKeepsTurns ==
    ASSUME OrchTypes, Turns, NEW i \in Ingests, NEW ing,
           ingests' = [ingests EXCEPT ![i] = ing],
           NEW s \in Sessions, Waits(i, s), Len(chain[s]) >= 1, chain[s][1] = i,
           ing.pc \notin Waiting,
           chain' = [chain EXCEPT ![s] = Tail(@)]
    PROVE  Turns'
<1>1. \A j \in Ingests : ingests'[j] = IF j = i THEN ing ELSE ingests[j]
  BY DEF OrchTypes
<1>2. \A t \in Sessions : chain'[t] = IF t = s THEN Tail(chain[s]) ELSE chain[t]
  BY DEF OrchTypes
<1>3. \A j \in Ingests : \A t : Waits(j, t)' <=> Waits(j, t) /\ j # i
  BY <1>1 DEF Waits
<1> SUFFICES ASSUME NEW t \in Sessions
             PROVE  /\ \A k \in 1..Len(chain'[t]) : Waits(chain[t][k], t)'
                    /\ \A j, k \in 1..Len(chain'[t]) : chain'[t][j] = chain'[t][k] => j = k
                    /\ \A k \in 2..Len(chain'[t]) : ingests'[chain'[t][k]].pc = "queued"
                    /\ \A j \in Ingests : Waits(j, t)' => \E k \in 1..Len(chain'[t]) : chain'[t][k] = j
  BY DEF Turns
<1>4. /\ chain[t] \in Seq(Ingests) /\ Len(chain[t]) \in Nat
      /\ \A k \in 1..Len(chain[t]) : chain[t][k] \in Ingests /\ Waits(chain[t][k], t)
      /\ \A j, k \in 1..Len(chain[t]) : chain[t][j] = chain[t][k] => j = k
      /\ \A k \in 2..Len(chain[t]) : ingests[chain[t][k]].pc = "queued"
      /\ \A j \in Ingests : Waits(j, t) => \E k \in 1..Len(chain[t]) : chain[t][k] = j
  BY DEF OrchTypes, Turns
<1>5. CASE t # s
  <2>1. chain'[t] = chain[t]
    BY <1>2, <1>5
  <2>2. \A k \in 1..Len(chain[t]) : chain[t][k] # i /\ ingests'[chain[t][k]] = ingests[chain[t][k]]
    BY <1>1, <1>4, <1>5 DEF Waits
  <2>3. \A k \in 1..Len(chain'[t]) : Waits(chain[t][k], t)'
    BY <1>4, <2>1, <2>2 DEF Waits
  <2>4. \A k \in 2..Len(chain'[t]) : ingests'[chain'[t][k]].pc = "queued"
    <3>1. \A k \in 2..Len(chain[t]) : k \in 1..Len(chain[t])
      BY <1>4
    <3> QED
      BY <1>4, <2>1, <2>2, <3>1
  <2>5. \A j \in Ingests : Waits(j, t)' => \E k \in 1..Len(chain'[t]) : chain'[t][k] = j
    BY <1>3, <1>4, <2>1
  <2>6. \A j, k \in 1..Len(chain'[t]) : chain'[t][j] = chain'[t][k] => j = k
    BY <1>4, <2>1
  <2> QED
    BY <2>3, <2>4, <2>5, <2>6
<1>6. CASE t = s
  <2> DEFINE old == chain[s]
             new == Tail(chain[s])
             n == Len(chain[s])
  <2>1. /\ chain'[t] = new /\ n \in Nat /\ n >= 1 /\ Len(new) = n - 1
        /\ \A k \in 1..n - 1 : new[k] = old[k + 1] /\ k + 1 \in 2..n /\ k + 1 \in 1..n
    <3>1. old \in Seq(Ingests) /\ n \in Nat
      BY DEF OrchTypes
    <3>2. chain'[t] = new
      BY <1>2, <1>6
    <3>3. old # << >>
      BY <3>1
    <3>4. Len(new) = n - 1 /\ \A k \in 1..Len(new) : new[k] = old[k + 1]
      BY <3>1, <3>3, HeadTailProperties
    <3>5. \A k \in 1..n - 1 : k + 1 \in 2..n /\ k + 1 \in 1..n
      BY <3>1
    <3> QED
      BY <3>1, <3>2, <3>4, <3>5
  <2>2. \A k \in 1..n - 1 : /\ new[k] \in Ingests /\ new[k] # i
                            /\ ingests[new[k]].pc = "queued" /\ ingests[new[k]].session = s
    <3> SUFFICES ASSUME NEW k \in 1..n - 1
                 PROVE  /\ new[k] \in Ingests /\ new[k] # i
                        /\ ingests[new[k]].pc = "queued" /\ ingests[new[k]].session = s
      OBVIOUS
    <3>1. new[k] = old[k + 1] /\ k + 1 \in 2..n /\ k + 1 \in 1..n /\ 1 \in 1..n /\ k + 1 # 1
      BY <2>1
    <3>2. old[k + 1] # old[1]
      BY <1>4, <1>6, <3>1
    <3>3. Waits(old[k + 1], s) /\ old[k + 1] \in Ingests /\ ingests[old[k + 1]].pc = "queued"
      BY <1>4, <1>6, <3>1
    <3> QED
      BY <3>1, <3>2, <3>3 DEF Waits
  <2>3. chain'[t] = new /\ Len(chain'[t]) = n - 1
    BY <2>1
  <2>4. \A k \in 1..n - 1 : ingests'[new[k]].pc = "queued" /\ ingests'[new[k]].session = s
    BY <1>1, <2>2
  <2>5. \A k \in 1..Len(chain'[t]) : Waits(chain[t][k], t)'
    BY <1>6, <2>3, <2>4 DEF Waits, Waiting
  <2>6. \A k \in 2..Len(chain'[t]) : ingests'[chain'[t][k]].pc = "queued"
    <3>1. \A k \in 2..n - 1 : k \in 1..n - 1
      BY <2>1
    <3> QED
      BY <2>3, <2>4, <3>1
  <2>7. ASSUME NEW j \in 1..n - 1, NEW k \in 1..n - 1, new[j] = new[k] PROVE j = k
    <3>1. old[j + 1] = old[k + 1] /\ j + 1 \in 1..n /\ k + 1 \in 1..n
      BY <2>1, <2>7
    <3>2. j + 1 = k + 1
      BY <1>4, <1>6, <3>1
    <3> QED
      BY <3>2
  <2>8. ASSUME NEW j \in Ingests, Waits(j, t)' PROVE \E k \in 1..n - 1 : new[k] = j
    <3>1. Waits(j, s) /\ j # i
      BY <1>3, <1>6, <2>8
    <3>2. PICK k \in 1..n : old[k] = j
      BY <1>4, <1>6, <3>1
    <3>3. k # 1 /\ k - 1 \in 1..n - 1 /\ k - 1 + 1 = k
      BY <2>1, <3>1, <3>2
    <3>4. new[k - 1] = old[k]
      BY <2>1, <3>3
    <3> QED
      BY <3>2, <3>3, <3>4
  <2>9. \A j, k \in 1..Len(chain'[t]) : chain'[t][j] = chain'[t][k] => j = k
    BY <2>3, <2>7, ZenonT(60)
  <2>10. \A j \in Ingests : Waits(j, t)' => \E k \in 1..Len(chain'[t]) : chain'[t][k] = j
    BY <2>3, <2>8
  <2> QED
    BY <2>5, <2>6, <2>9, <2>10
<1> QED
  BY <1>5, <1>6

-----------------------------------------------------------------------------
(* The calls of the store *)

\* What a step of a call does to the calls: this one goes on with its
\* operation and keeps its reason, or an orphan is gone.
LEMMA CallStepShape ==
    ASSUME NInv, NEW c \in Calls, Reasoned(c), CallStep(c)
    PROVE  /\ \A d \in Calls \ {c} : calls'[d] = calls[d]
           /\ Reasoned(c)'
           /\ \/ calls[c].pc = "orphaned" /\ calls'[c] = NoCall
              \/ /\ calls[c].pc \notin { "idle", "orphaned" }
                 /\ calls'[c].pc \notin { "idle", "orphaned" }
                 /\ calls'[c].session = calls[c].session
                 /\ calls'[c].op = calls[c].op
<1>0. calls[c] \in CallRecord /\ calls \in [Calls -> CallRecord \cup {NoCall}]
  BY Begun DEF CallStep, LoadLatest, Restore, Act, Save, Advance, Fail, LoseReply, OrphanSave,
               NInv, Types
<1>1. CASE LoadLatest(c)
  <2>1. calls' = [calls EXCEPT ![c] = [calls[c] EXCEPT !.pc = "restoring",
                      !.loaded = LatestRecord(calls[c].session),
                      !.sequence = LatestSequence(calls[c].session)]]
    BY <1>0, <1>1 DEF LoadLatest
  <2>2. calls'[c].pc = "restoring" /\ calls'[c].session = calls[c].session /\ calls'[c].op = calls[c].op
    BY <1>0, <2>1 DEF CallRecord
  <2> QED
    BY <1>0, <1>1, <2>1, <2>2 DEF LoadLatest, Reasoned
<1>2. CASE Restore(c)
  <2>1. calls' = [calls EXCEPT ![c] = [calls[c] EXCEPT !.pc = "acting", !.loaded = NoRecord,
                                                       !.sequence = -1]]
    BY <1>0, <1>2 DEF Restore
  <2>2. calls'[c].pc = "acting" /\ calls'[c].session = calls[c].session /\ calls'[c].op = calls[c].op
    BY <1>0, <2>1 DEF CallRecord
  <2> QED
    BY <1>0, <1>2, <2>1, <2>2 DEF Restore, Reasoned
<1>3. CASE Act(c)
  <2>1. PICK s \in Sessions : s = calls[c].session
    BY <1>0 DEF CallRecord
  <2>2. PICK op \in Evaluations \cup Overrides : op = calls[c].op
    BY <1>0 DEF CallRecord
  <2> DEFINE result == Outcome(s, op)
             pc == IF result.transitioned THEN "saving" ELSE "returned"
             sequence == IF result.transitioned THEN nextSequence[s] ELSE -1
  <2>3. calls' = [calls EXCEPT ![c] = [calls[c] EXCEPT !.pc = pc, !.result = result.record,
                                                       !.sequence = sequence]]
    BY <1>0, <1>3, <2>1, <2>2 DEF Act
  <2>4. sequence # -1 => result.transitioned
    OBVIOUS
  <2>5. result.record \in LifecycleSessionRecord
    BY OutcomeContinues DEF NInv
  <2>6. ASSUME op.kind = "evaluate", result.transitioned
        PROVE  /\ result.record.state = "DISQUALIFIED" => op.contradiction = "corroborated"
               /\ result.record.state = "RECOVERED" => op.posterior.probability >= 55
    <3>1. op \in Evaluations
      BY <2>6, OverridesAssumption
    <3>2. /\ op.posterior \in Posterior /\ op.contradiction \in ContradictionSignal
          /\ op.now \in Nat
      BY <3>1, EvaluationsAssumption, NowsAssumption
    <3>3. CurrentRecord(s, op.now) \in LifecycleSessionRecord
      <4>1. memory[s] \in MaybeRecord
        BY DEF NInv, Types
      <4> QED
        BY <3>2, <4>1 DEF CurrentRecord, InitialLifecycleRecord, LifecycleSessionRecord,
                          LifecycleStates, MaybeRecord
    <3>4. result = EvaluateLifecycleTransition(CurrentRecord(s, op.now), op.posterior,
                                               op.now, op.contradiction)
      BY <2>6 DEF Outcome
    <3> HIDE DEF result
    <3> QED
      BY <2>6, <3>2, <3>3, <3>4, TransitionsHaveReasons
  <2> HIDE DEF result, sequence
  <2>7. /\ calls'[c].pc = pc /\ calls'[c].session = calls[c].session /\ calls'[c].op = calls[c].op
        /\ calls'[c].result = result.record /\ calls'[c].sequence = sequence
    BY <1>0, <2>3 DEF CallRecord
  <2>8. Reasoned(c)'
    BY <2>2, <2>4, <2>5, <2>6, <2>7 DEF Reasoned
  <2> QED
    BY <1>0, <1>3, <2>3, <2>7, <2>8 DEF Act
<1>4. CASE Save(c) \/ LoseReply(c) \/ Fail(c)
  <2>1. PICK pc \in { "saved", "failed", "collided" } :
            calls' = [calls EXCEPT ![c] = [calls[c] EXCEPT !.pc = pc]]
    BY <1>4 DEF Save, LoseReply, Fail, Goto
  <2>2. /\ calls'[c].pc = pc /\ calls'[c].session = calls[c].session /\ calls'[c].op = calls[c].op
        /\ calls'[c].result = calls[c].result /\ calls'[c].sequence = calls[c].sequence
    BY <1>0, <2>1 DEF CallRecord
  <2>3. pc = "saved" => calls[c].pc = "saving"
    BY <1>0, <1>4, <2>1, <2>2 DEF Save, LoseReply, Fail, Goto, CallRecord
  <2>4. Reasoned(c)'
    BY <2>2, <2>3 DEF Reasoned
  <2> QED
    BY <1>0, <1>4, <2>1, <2>2, <2>4 DEF Save, LoseReply, Fail
<1>5. CASE Advance(c)
  <2>1. calls' = [calls EXCEPT ![c] = [calls[c] EXCEPT !.pc = "returned"]] /\ calls[c].pc = "saved"
    BY <1>5 DEF Advance, Goto
  <2>2. /\ calls'[c].pc = "returned" /\ calls'[c].session = calls[c].session
        /\ calls'[c].op = calls[c].op
        /\ calls'[c].result = calls[c].result /\ calls'[c].sequence = calls[c].sequence
    BY <1>0, <2>1 DEF CallRecord
  <2>3. calls[c].result \in LifecycleSessionRecord
    BY <1>0, <2>1, Begun DEF NInv, Numbered, CallRecord
  <2>4. Reasoned(c)'
    BY <2>1, <2>2, <2>3 DEF Reasoned
  <2> QED
    BY <1>0, <2>1, <2>2, <2>4
<1>6. CASE OrphanSave(c)
  BY <1>0, <1>6 DEF OrphanSave, Reasoned, NoCall
<1> QED
  BY <1>1, <1>2, <1>3, <1>4, <1>5, <1>6 DEF CallStep

-----------------------------------------------------------------------------
(* The store as the orchestration uses it *)

\* What an ingestion asks of the store is one of the evaluations it takes.
LEMMA ScoredIsEvaluation ==
    ASSUME OrchTypes, NEW i \in Ingests, ingests[i].pc = "listing", NEW score \in Scores
    PROVE  /\ ingests[i] \in Admitted
           /\ ingests[i].session \in Sessions
           /\ [kind |-> "evaluate", posterior |-> score.posterior,
               contradiction |-> ExtractContradictionSignal(ingests[i].batch,
                                                            ledger[ingests[i].session]),
               now |-> ingests[i].now] \in Evaluations
<1>1. ingests[i] \in Admitted
  BY DEF OrchTypes, Idle, Evaluating, Narrating, Finished
<1>2. ExtractContradictionSignal(ingests[i].batch, ledger[ingests[i].session]) \in ContradictionSignal
  BY DEF ExtractContradictionSignal, ContradictionSignal
<1> QED
  BY <1>1, <1>2, ScoresAssumption DEF Admitted

\* Every step of the orchestration is a step of the store, or only counts a
\* fault, or does not concern it.
LEMMA StoreView ==
    ASSUME OrchTypes, [OpenNext]_vars
    PROVE  StoreMoves
<1>1. CASE UNCHANGED vars
  BY <1>1 DEF StoreMoves, vars, storeVars
<1>2. ASSUME NEW i \in Ingests, NEW s \in Sessions, NEW batch \in AnyBatch, NEW now \in Nows,
             Enqueue(i, s, batch, now)
      PROVE  StoreMoves
  BY <1>2 DEF StoreMoves, Enqueue, storeVars
<1>3. ASSUME NEW i \in Ingests,
             Start(i) \/ AppendNext(i) \/ AllAppended(i) \/ Publish(i)
      PROVE  StoreMoves
  BY <1>3 DEF StoreMoves, Start, AppendNext, AllAppended, Publish, storeVars
<1>4. ASSUME NEW i \in Ingests, LedgerFails(i) \/ LedgerReplyLost(i) PROVE StoreMoves
  BY <1>4 DEF StoreMoves, LedgerFails, LedgerReplyLost
<1>5. ASSUME NEW i \in Ingests, NEW score \in Scores, Score(i, score) PROVE StoreMoves
  <2> DEFINE op == [kind |-> "evaluate", posterior |-> score.posterior,
                    contradiction |-> ExtractContradictionSignal(ingests[i].batch,
                                                                 ledger[ingests[i].session]),
                    now |-> ingests[i].now]
  <2>1. op \in Evaluations /\ ingests[i].session \in Sessions
    BY <1>5, ScoredIsEvaluation DEF Score
  <2>2. MayBegin(ingests[i].session, op) /\ Begin(i, ingests[i].session, op)
    BY <1>5 DEF Score
  <2> HIDE DEF op
  <2> QED
    BY <2>1, <2>2, IngestsAssumption DEF StoreMoves
<1>6. ASSUME NEW i \in Ingests, DecideOn(i) \/ StoreFails(i) PROVE StoreMoves
  <2>1. Settle(i)
    BY <1>6 DEF DecideOn, StoreFails, Settle, Settled
  <2> QED
    BY <2>1, IngestsAssumption DEF StoreMoves
<1>7. ASSUME NEW c \in Calls \ Ingests, NEW s \in Sessions, NEW op \in Overrides,
             ApplyHumanOverride(c, s, op)
      PROVE  StoreMoves
  BY <1>7 DEF StoreMoves, ApplyHumanOverride, NewCall
<1>8. ASSUME NEW c \in Calls, StoreStep(c) PROVE StoreMoves
  BY <1>8 DEF StoreMoves, StoreStep
<1>9. ASSUME NEW orphans \in SUBSET Calls, Restart(orphans) PROVE StoreMoves
  BY <1>9 DEF StoreMoves, Restart
<1>10. ASSUME Serve PROVE StoreMoves
  <2>1. ASSUME NEW i \in Ingests, IngestStep(i) PROVE StoreMoves
    BY <1>3, <1>5, <1>6, <2>1 DEF IngestStep
  <2> QED
    BY <1>4, <1>7, <1>8, <1>10, <2>1 DEF Serve
<1> QED
  BY <1>1, <1>2, <1>9, <1>10 DEF OpenNext

\* So the types and numbers of the store hold in the orchestration too.
LEMMA OrchNumbers ==
    ASSUME OrchTypes, NInv, [OpenNext]_vars
    PROVE  NInv'
<1>1. CASE UNCHANGED << memory, recovered, nextSequence, snapshots, calls, acknowledged >>
  BY <1>1, StutterNumbers
<1>2. ASSUME NEW c \in Calls, NEW s \in Sessions, NEW op \in Evaluations \cup Overrides,
             Begin(c, s, op)
      PROVE  NInv'
  BY <1>2, BeginNumbers
<1>3. ASSUME NEW c \in Calls, CallStep(c) \/ Settle(c) PROVE NInv'
  BY <1>3, LoadLatestNumbers, RestoreNumbers, ActNumbers, SaveNumbers, AdvanceNumbers,
     EndNumbers, OrphanSaveNumbers DEF CallStep
<1>4. ASSUME NEW orphans \in SUBSET Calls, Crash(orphans) PROVE NInv'
  BY <1>4, CrashNumbers
<1> QED
  BY <1>1, <1>2, <1>3, <1>4, StoreView DEF StoreMoves

\* And its trail, as long as no two calls recover a session at once.
LEMMA OrchTrail ==
    ASSUME Overlap # "any", OrchTypes, NInv, TInv, [OpenNext]_vars
    PROVE  TInv'
<1>1. CASE UNCHANGED << memory, recovered, nextSequence, snapshots, calls, acknowledged >>
  BY <1>1, StutterTrail
<1>2. ASSUME NEW c \in Calls, NEW s \in Sessions, NEW op \in Evaluations \cup Overrides,
             MayBegin(s, op), Begin(c, s, op)
      PROVE  TInv'
  BY <1>2, BeginTrail
<1>3. ASSUME NEW c \in Calls, CallStep(c) \/ Settle(c) PROVE TInv'
  BY <1>3, LoadLatestTrail, RestoreTrail, ActTrail, SaveTrail, AdvanceTrail, EndTrail,
     OrphanSaveTrail DEF CallStep
<1>4. ASSUME NEW orphans \in SUBSET Calls, Crash(orphans) PROVE TInv'
  BY <1>4, CrashTrail
<1> QED
  BY <1>1, <1>2, <1>3, <1>4, StoreView DEF StoreMoves

-----------------------------------------------------------------------------
(* Types *)

\* The records an ingestion may be, told apart by how far it is.
LEMMA IngestByPc ==
    ASSUME OrchTypes, NEW i \in Ingests
    PROVE  /\ ingests[i].pc \in { "queued", "appending", "listing" } => ingests[i] \in Admitted
           /\ ingests[i].pc = "evaluating" => ingests[i] \in Evaluating
           /\ ingests[i].pc = "narrating" => ingests[i] \in Narrating
           /\ ingests[i].pc \notin Waiting => ingests[i] \in Idle
<1>1. ingests[i] \in Idle \cup Admitted \cup Evaluating \cup Narrating
  BY DEF OrchTypes
<1>2. ingests[i] \in Idle => ingests[i].pc \notin Waiting
  BY DEF Idle, Waiting, Finished
<1>3. ingests[i] \in Admitted => ingests[i].pc \in { "queued", "appending", "listing" }
  BY DEF Admitted
<1>4. ingests[i] \in Evaluating => ingests[i].pc = "evaluating"
  BY DEF Evaluating
<1>5. ingests[i] \in Narrating => ingests[i].pc = "narrating"
  BY DEF Narrating
<1> QED
  BY <1>1, <1>2, <1>3, <1>4, <1>5 DEF Waiting

\* The event an ingestion appends is one of its batch.
LEMMA NextEventType ==
    ASSUME OrchTypes, NEW i \in Ingests, ingests[i].pc = "appending",
           ingests[i].appended < Len(ingests[i].batch)
    PROVE  /\ ingests[i].batch \in Seq([bundle : STRING, flagged : BOOLEAN])
           /\ ingests[i].appended + 1 \in 1..Len(ingests[i].batch)
           /\ NextEvent(i) \in LedgerEvent
           /\ NextEvent(i).ingest = i
           /\ NextEvent(i).bundle = ingests[i].batch[ingests[i].appended + 1].bundle
           /\ NextEvent(i).flagged = ingests[i].batch[ingests[i].appended + 1].flagged
<1>1. ingests[i] \in Admitted
  BY IngestByPc
<1>2. ingests[i].batch \in Seq([bundle : STRING, flagged : BOOLEAN]) /\ ingests[i].appended \in Nat
  BY <1>1 DEF Admitted, AnyBatch
<1>3. ingests[i].appended + 1 \in 1..Len(ingests[i].batch)
  BY <1>2
<1>4. ingests[i].batch[ingests[i].appended + 1] \in [bundle : STRING, flagged : BOOLEAN]
  BY <1>2, <1>3, ElementOfSeq
<1> QED
  BY <1>2, <1>3, <1>4 DEF NextEvent, LedgerEvent

\* What is decided is a decision, about the session and the events of the
\* ingestion and the record the store returned.
LEMMA DecisionType ==
    ASSUME OrchTypes, NEW i \in Ingests, ingests[i].pc = "evaluating",
           calls[i].result \in LifecycleSessionRecord
    PROVE  /\ ingests[i] \in Evaluating
           /\ ingests[i].session \in Sessions
           /\ DecisionOf(i) \in Decision
           /\ DecisionOf(i).ingest = i
           /\ DecisionOf(i).session = ingests[i].session
           /\ DecisionOf(i).events = ingests[i].events
           /\ DecisionOf(i).record = calls[i].result
           /\ DecisionOf(i).state = calls[i].result.state
           /\ DecisionOf(i).transitioned = (calls[i].sequence # -1)
           /\ DecisionOf(i).alert =
                  AlertFor(calls[i].result.state, calls[i].sequence # -1,
                           ingests[i].score.posterior.probability, ingests[i].score.tight,
                           wasAmbiguous[ingests[i].session])
           /\ DecisionOf(i).ambiguous =
                  (Recommendation(calls[i].result.state,
                                  ingests[i].score.posterior.probability,
                                  ingests[i].score.tight) = "ADJUDICATE")
<1>1. ingests[i] \in Evaluating
  BY IngestByPc
<1>2. ingests[i].session \in Sessions /\ ingests[i].events \in Seq(LedgerEvent)
  BY <1>1 DEF Evaluating
<1> DEFINE alert == AlertFor(calls[i].result.state, calls[i].sequence # -1,
                             ingests[i].score.posterior.probability, ingests[i].score.tight,
                             wasAmbiguous[ingests[i].session])
           ambiguous == Recommendation(calls[i].result.state,
                                       ingests[i].score.posterior.probability,
                                       ingests[i].score.tight) = "ADJUDICATE"
           transitioned == calls[i].sequence # -1
<1>3. DecisionOf(i) = [ingest |-> i, session |-> ingests[i].session, record |-> calls[i].result,
                       state |-> calls[i].result.state, transitioned |-> transitioned,
                       alert |-> alert, ambiguous |-> ambiguous, events |-> ingests[i].events]
  BY DEF DecisionOf, Decide, Transitioned
<1>4. alert \in Alerts
  BY DEF AlertFor, Alerts
<1>5. ambiguous \in BOOLEAN /\ transitioned \in BOOLEAN
  OBVIOUS
<1>6. calls[i].result.state \in LifecycleStates
  BY DEF LifecycleSessionRecord
<1> HIDE DEF alert, ambiguous, transitioned
<1>7. /\ DecisionOf(i) \in Decision
      /\ DecisionOf(i).ingest = i
      /\ DecisionOf(i).session = ingests[i].session
      /\ DecisionOf(i).events = ingests[i].events
      /\ DecisionOf(i).record = calls[i].result
      /\ DecisionOf(i).state = calls[i].result.state
      /\ DecisionOf(i).transitioned = transitioned
      /\ DecisionOf(i).alert = alert
      /\ DecisionOf(i).ambiguous = ambiguous
  BY <1>2, <1>3, <1>4, <1>5, <1>6 DEF Decision
<1> QED
  BY <1>1, <1>2, <1>7 DEF alert, ambiguous, transitioned

\* Whoever is decided on has an answer of the store.
LEMMA AnsweredType ==
    ASSUME OInv, NEW i \in Ingests, ingests[i].pc = "evaluating", calls[i].pc = "returned"
    PROVE  calls[i].result \in LifecycleSessionRecord
BY IngestsAssumption DEF OInv, Reasoned

\* A session's chain loses its first.
LEMMA ReleaseType ==
    ASSUME OrchTypes, Turns, NEW i \in Ingests, ingests[i].pc \in Waiting \ { "queued" },
           Release(i)
    PROVE  chain' \in [Sessions -> Seq(Ingests)]
<1>1. /\ ingests[i].session \in Sessions /\ chain[ingests[i].session] \in Seq(Ingests)
      /\ Len(chain[ingests[i].session]) >= 1
  BY AtWorkIsFirst
<1> DEFINE rest == Tail(chain[ingests[i].session])
<1>2. rest \in Seq(Ingests)
  BY <1>1
<1> HIDE DEF rest
<1>3. chain' = [chain EXCEPT ![ingests[i].session] = rest]
  BY DEF Release, rest
<1> QED
  BY <1>1, <1>2, <1>3 DEF OrchTypes

\* Every step keeps the types.
LEMMA OrchTypesKept ==
    ASSUME OInv, [OpenNext]_vars
    PROVE  OrchTypes'
<1> DEFINE Ing == Idle \cup Admitted \cup Evaluating \cup Narrating
<1>0. /\ OrchTypes /\ Turns
      /\ ledger \in [Sessions -> Seq(LedgerEvent)]
      /\ chain \in [Sessions -> Seq(Ingests)]
      /\ ingests \in [Ingests -> Ing]
      /\ wasAmbiguous \in [Sessions -> BOOLEAN]
      /\ published \in Seq(Decision)
  BY DEF OInv, OrchTypes
<1> DEFINE Goal == /\ ledger' \in [Sessions -> Seq(LedgerEvent)]
                   /\ chain' \in [Sessions -> Seq(Ingests)]
                   /\ ingests' \in [Ingests -> Ing]
                   /\ wasAmbiguous' \in [Sessions -> BOOLEAN]
                   /\ published' \in Seq(Decision)
<1> SUFFICES Goal
  BY DEF OrchTypes
<1>1. ASSUME UNCHANGED orchVars PROVE Goal
  BY <1>0, <1>1 DEF orchVars
<1>2. ASSUME NEW i \in Ingests, NEW s \in Sessions, NEW batch \in AnyBatch, NEW now \in Nows,
             Enqueue(i, s, batch, now)
      PROVE  Goal
  <2>1. [pc |-> "queued", session |-> s, batch |-> batch, now |-> now, appended |-> 0] \in Ing
    BY DEF Admitted
  <2>2. Append(chain[s], i) \in Seq(Ingests)
    BY <1>0
  <2> QED
    BY <1>0, <1>2, <2>1, <2>2 DEF Enqueue
<1>3. ASSUME NEW i \in Ingests, Start(i) \/ AllAppended(i)
      PROVE  Goal
  <2>1. ingests[i] \in Admitted
    BY <1>0, <1>3, IngestByPc DEF Start, AllAppended
  <2>2. PICK pc \in { "appending", "listing" } : ingests' = [ingests EXCEPT ![i].pc = pc]
    BY <1>3 DEF Start, AllAppended
  <2>3. [ingests[i] EXCEPT !.pc = pc] \in Admitted
    BY <2>1 DEF Admitted
  <2> QED
    BY <1>0, <1>3, <2>2, <2>3 DEF Start, AllAppended
<1>4. ASSUME NEW i \in Ingests, AppendNext(i) \/ LedgerReplyLost(i) PROVE Goal
  <2>1. ingests[i].pc = "appending" /\ ingests[i].appended < Len(ingests[i].batch)
    BY <1>4 DEF AppendNext, LedgerReplyLost
  <2>2. ingests[i] \in Admitted /\ ingests[i].session \in Sessions /\ ingests[i].appended \in Nat
    BY <1>0, <2>1, IngestByPc DEF Admitted
  <2>3. NextEvent(i) \in LedgerEvent
    BY <1>0, <2>1, NextEventType
  <2>4. Append(ledger[ingests[i].session], NextEvent(i)) \in Seq(LedgerEvent)
    BY <1>0, <2>2, <2>3
  <2>5. ledger' = [ledger EXCEPT ![ingests[i].session] = Append(@, NextEvent(i))]
    BY <1>4 DEF AppendNext, LedgerReplyLost
  <2>6. ledger' \in [Sessions -> Seq(LedgerEvent)]
    BY <1>0, <2>2, <2>4, <2>5
  <2>7. CASE AppendNext(i)
    <3>1. [ingests[i] EXCEPT !.appended = @ + 1] \in Admitted
      BY <2>2 DEF Admitted
    <3>2. ingests' = [ingests EXCEPT ![i] = [ingests[i] EXCEPT !.appended = @ + 1]]
      BY <2>7 DEF AppendNext
    <3> QED
      BY <1>0, <2>6, <2>7, <3>1, <3>2 DEF AppendNext
  <2>8. CASE LedgerReplyLost(i)
    <3>1. [pc |-> "rejected"] \in Idle
      BY DEF Idle, Finished
    <3>2. chain' \in [Sessions -> Seq(Ingests)]
      BY <1>0, <2>1, <2>8, ReleaseType DEF LedgerReplyLost, Reject, End, Waiting
    <3>3. ingests' = [ingests EXCEPT ![i] = [pc |-> "rejected"]]
      BY <2>8 DEF LedgerReplyLost, Reject, End
    <3> QED
      BY <1>0, <2>6, <2>8, <3>1, <3>2, <3>3 DEF LedgerReplyLost
  <2> QED
    BY <1>4, <2>7, <2>8
<1>5. ASSUME NEW i \in Ingests, LedgerFails(i) \/ StoreFails(i) PROVE Goal
  <2>1. [pc |-> "rejected"] \in Idle
    BY DEF Idle, Finished
  <2>2. ingests[i].pc \in Waiting \ {"queued"} /\ Release(i)
    BY <1>5 DEF LedgerFails, StoreFails, Reject, End, Waiting
  <2>3. chain' \in [Sessions -> Seq(Ingests)]
    BY <1>0, <2>2, ReleaseType
  <2>4. ingests' = [ingests EXCEPT ![i] = [pc |-> "rejected"]]
    BY <1>5 DEF LedgerFails, StoreFails, Reject, End
  <2> QED
    BY <1>0, <1>5, <2>1, <2>3, <2>4 DEF LedgerFails, StoreFails
<1>6. ASSUME NEW i \in Ingests, NEW score \in Scores, Score(i, score) PROVE Goal
  <2>1. ingests[i].session \in Sessions
    BY <1>0, <1>6, ScoredIsEvaluation DEF Score
  <2>2. [pc |-> "evaluating", session |-> ingests[i].session, score |-> score,
         events |-> ledger[ingests[i].session]] \in Ing
    BY <1>0, <2>1 DEF Evaluating
  <2> QED
    BY <1>0, <1>6, <2>2 DEF Score
<1>7. ASSUME NEW i \in Ingests, DecideOn(i) PROVE Goal
  <2>1. /\ DecisionOf(i) \in Decision /\ ingests[i].session \in Sessions
        /\ DecisionOf(i).session \in Sessions
        /\ DecisionOf(i).ambiguous \in BOOLEAN
    <3>1. ingests[i].pc = "evaluating" /\ calls[i].result \in LifecycleSessionRecord
      BY <1>7, AnsweredType DEF DecideOn
    <3>2. DecisionOf(i) \in Decision /\ ingests[i].session \in Sessions
      BY <1>0, <3>1, DecisionType
    <3> QED
      BY <3>2 DEF Decision
  <2>2. wasAmbiguous' \in [Sessions -> BOOLEAN]
    BY <1>0, <1>7, <2>1 DEF DecideOn
  <2>3. CASE DecisionOf(i).alert = "none"
    <3>1. [pc |-> "done"] \in Idle
      BY DEF Idle, Finished
    <3>2. chain' \in [Sessions -> Seq(Ingests)]
      BY <1>0, <1>7, <2>3, ReleaseType DEF DecideOn, End, Waiting
    <3>3. ingests' = [ingests EXCEPT ![i] = [pc |-> "done"]]
      BY <1>7, <2>3 DEF DecideOn, End
    <3>4. published' \in Seq(Decision)
      <4>1. published' = Append(published, DecisionOf(i))
        BY <1>7, <2>3 DEF DecideOn
      <4> QED
        BY <1>0, <2>1, <4>1, AppendProperties
    <3>5. ledger' = ledger
      BY <1>7 DEF DecideOn
    <3> QED
      BY <1>0, <2>2, <3>1, <3>2, <3>3, <3>4, <3>5
  <2>4. CASE DecisionOf(i).alert # "none"
    <3>1. [pc |-> "narrating", session |-> DecisionOf(i).session, decision |-> DecisionOf(i)] \in Narrating
      BY <2>1 DEF Narrating
    <3>2. ingests' = [ingests EXCEPT ![i] = [pc |-> "narrating", session |-> DecisionOf(i).session,
                                             decision |-> DecisionOf(i)]]
      BY <1>7, <2>4 DEF DecideOn
    <3>3. ledger' = ledger /\ chain' = chain /\ published' = published
      BY <1>7, <2>4 DEF DecideOn
    <3> QED
      BY <1>0, <2>2, <3>1, <3>2, <3>3
  <2> QED
    BY <2>3, <2>4
<1>8. ASSUME NEW i \in Ingests, Publish(i) PROVE Goal
  <2>1. ingests[i] \in Narrating
    BY <1>0, <1>8, IngestByPc DEF Publish
  <2>2. ingests[i].decision \in Decision
    BY <2>1 DEF Narrating
  <2>3. [pc |-> "done"] \in Idle
    BY DEF Idle, Finished
  <2>4. chain' \in [Sessions -> Seq(Ingests)]
    BY <1>0, <1>8, ReleaseType DEF Publish, End, Waiting
  <2>5. ingests' = [ingests EXCEPT ![i] = [pc |-> "done"]]
    BY <1>8 DEF Publish, End
  <2>6. published' \in Seq(Decision)
    <3>1. published' = Append(published, ingests[i].decision)
      BY <1>8 DEF Publish
    <3> QED
      BY <1>0, <2>2, <3>1, AppendProperties
  <2>7. ledger' = ledger /\ wasAmbiguous' = wasAmbiguous
    BY <1>8 DEF Publish
  <2> QED
    BY <1>0, <2>3, <2>4, <2>5, <2>6, <2>7
<1>9. ASSUME NEW orphans \in SUBSET Calls, Restart(orphans) PROVE Goal
  <2>1. \A i \in Ingests : ingests[i].pc \in { "new", "done", "rejected", "lost" } => ingests[i] \in Idle
    BY <1>0, IngestByPc DEF Waiting
  <2>2. [pc |-> "lost"] \in Idle
    BY DEF Idle, Finished
  <2>3. ingests' \in [Ingests -> Ing]
    BY <1>9, <2>1, <2>2 DEF Restart
  <2>4. << >> \in Seq(Ingests)
    OBVIOUS
  <2> QED
    BY <1>0, <1>9, <2>3, <2>4 DEF Restart
<1> HIDE DEF Goal
<1>10. ASSUME Serve PROVE Goal
  <2>1. ASSUME NEW i \in Ingests, IngestStep(i) PROVE Goal
    BY <1>3, <1>4, <1>5, <1>6, <1>7, <1>8, <2>1 DEF IngestStep
  <2> QED
    BY <1>1, <1>4, <1>5, <1>10, <2>1 DEF Serve, ApplyHumanOverride, StoreStep
<1> QED
  BY <1>1, <1>2, <1>9, <1>10 DEF OpenNext, vars

-----------------------------------------------------------------------------
(* Turns *)

\* What an ingestion at work becomes, and whether its part of the chain ends:
\* every step of an ingestion does one or the other, and touches no other.
LEMMA WorkOrEnd ==
    ASSUME OInv, NEW i \in Ingests,
           IngestStep(i) \/ LedgerFails(i) \/ LedgerReplyLost(i)
    PROVE  \E ing :
             /\ ingests' = [ingests EXCEPT ![i] = ing]
             /\ ingests[i].pc \in Waiting
             /\ ingests[i].session \in Sessions
             /\ Len(chain[ingests[i].session]) >= 1
             /\ chain[ingests[i].session][1] = i
             /\ \/ /\ UNCHANGED chain
                   /\ ing.pc \in Waiting \ { "queued" }
                   /\ ing.session = ingests[i].session
                \/ /\ Release(i)
                   /\ ing.pc \in { "done", "rejected" }
<1> DEFINE s == ingests[i].session
           Goal == \E ing :
             /\ ingests' = [ingests EXCEPT ![i] = ing]
             /\ ingests[i].pc \in Waiting
             /\ s \in Sessions
             /\ Len(chain[s]) >= 1
             /\ chain[s][1] = i
             /\ \/ /\ UNCHANGED chain
                   /\ ing.pc \in Waiting \ { "queued" }
                   /\ ing.session = s
                \/ /\ Release(i)
                   /\ ing.pc \in { "done", "rejected" }
<1> SUFFICES Goal
  OBVIOUS
<1>0. OrchTypes /\ Turns
  BY DEF OInv
<1>1. ASSUME Start(i) PROVE Goal
  <2>1. ingests[i] \in Admitted /\ ingests[i].pc = "queued" /\ MayRun(i)
    BY <1>0, <1>1, IngestByPc DEF Start
  <2>2. s \in Sessions
    BY <2>1 DEF Admitted
  <2>3. chain[s] \in Seq(Ingests) /\ chain[s] # << >> /\ Head(chain[s]) = i
    BY <1>0, <2>1, <2>2 DEF OrchTypes, MayRun
  <2>4. Len(chain[s]) >= 1 /\ chain[s][1] = i
    BY <2>3
  <2>5. ingests' = [ingests EXCEPT ![i] = [ingests[i] EXCEPT !.pc = "appending"]] /\ UNCHANGED chain
    BY <1>1 DEF Start
  <2>6. /\ [ingests[i] EXCEPT !.pc = "appending"].pc = "appending"
        /\ [ingests[i] EXCEPT !.pc = "appending"].session = s
    BY <2>1 DEF Admitted
  <2> QED
    BY <2>1, <2>2, <2>4, <2>5, <2>6 DEF Waiting
<1>2. ASSUME ingests[i].pc \in Waiting \ { "queued" }, NEW ing,
             ingests' = [ingests EXCEPT ![i] = ing],
             \/ UNCHANGED chain /\ ing.pc \in Waiting \ { "queued" } /\ ing.session = s
             \/ Release(i) /\ ing.pc \in { "done", "rejected" }
      PROVE  Goal
  BY <1>0, <1>2, AtWorkIsFirst
<1> HIDE DEF Goal
<1>3. ASSUME AppendNext(i) \/ AllAppended(i) PROVE Goal
  <2>1. ingests[i].pc = "appending" /\ ingests[i] \in Admitted
    BY <1>0, <1>3, IngestByPc DEF AppendNext, AllAppended
  <2>2. PICK ing : ing \in { [ingests[i] EXCEPT !.appended = @ + 1], [ingests[i] EXCEPT !.pc = "listing"] }
                   /\ ingests' = [ingests EXCEPT ![i] = ing]
    BY <1>3 DEF AppendNext, AllAppended
  <2>3. ing.pc \in Waiting \ { "queued" } /\ ing.session = s
    BY <2>1, <2>2 DEF Admitted, Waiting
  <2> QED
    BY <1>2, <1>3, <2>1, <2>2, <2>3 DEF AppendNext, AllAppended, Waiting
<1>4. ASSUME LedgerFails(i) \/ LedgerReplyLost(i) \/ StoreFails(i) PROVE Goal
  <2>1. ingests' = [ingests EXCEPT ![i] = [pc |-> "rejected"]] /\ Release(i)
    BY <1>4 DEF LedgerFails, LedgerReplyLost, StoreFails, Reject, End
  <2>2. ingests[i].pc \in Waiting \ { "queued" }
    BY <1>4 DEF LedgerFails, LedgerReplyLost, StoreFails, Waiting
  <2> QED
    BY <1>2, <2>1, <2>2
<1>5. ASSUME NEW score \in Scores, Score(i, score) PROVE Goal
  <2> DEFINE ing == [pc |-> "evaluating", session |-> s, score |-> score, events |-> ledger[s]]
  <2>1. ingests' = [ingests EXCEPT ![i] = ing] /\ UNCHANGED chain /\ ingests[i].pc = "listing"
    BY <1>5 DEF Score
  <2>2. ing.pc \in Waiting \ { "queued" } /\ ing.session = s
    BY DEF Waiting
  <2> HIDE DEF ing
  <2> QED
    BY <1>2, <2>1, <2>2 DEF Waiting
<1>6. ASSUME DecideOn(i) PROVE Goal
  <2>1. ingests[i].pc = "evaluating" /\ calls[i].result \in LifecycleSessionRecord
    BY <1>6, AnsweredType DEF DecideOn
  <2>2. DecisionOf(i).session = s
    BY <1>0, <2>1, DecisionType
  <2>3. CASE DecisionOf(i).alert = "none"
    <3>1. ingests' = [ingests EXCEPT ![i] = [pc |-> "done"]] /\ Release(i)
      BY <1>6, <2>3 DEF DecideOn, End
    <3> QED
      BY <1>2, <2>1, <3>1 DEF Waiting
  <2>4. CASE DecisionOf(i).alert # "none"
    <3> DEFINE ing == [pc |-> "narrating", session |-> DecisionOf(i).session, decision |-> DecisionOf(i)]
    <3>1. ingests' = [ingests EXCEPT ![i] = ing] /\ UNCHANGED chain
      BY <1>6, <2>4 DEF DecideOn
    <3>2. ing.pc \in Waiting \ { "queued" } /\ ing.session = s
      BY <2>2 DEF Waiting
    <3> HIDE DEF ing
    <3> QED
      BY <1>2, <2>1, <3>1, <3>2 DEF Waiting
  <2> QED
    BY <2>3, <2>4
<1>7. ASSUME Publish(i) PROVE Goal
  <2>1. ingests' = [ingests EXCEPT ![i] = [pc |-> "done"]] /\ Release(i) /\ ingests[i].pc = "narrating"
    BY <1>7 DEF Publish, End
  <2> QED
    BY <1>2, <2>1 DEF Waiting
<1> QED
  BY <1>1, <1>3, <1>4, <1>5, <1>6, <1>7 DEF IngestStep

\* Every step keeps the turns.
LEMMA TurnsKept ==
    ASSUME OInv, [OpenNext]_vars
    PROVE  Turns'
<1>0. OrchTypes /\ Turns
  BY DEF OInv
<1>1. ASSUME UNCHANGED orchVars PROVE Turns'
  BY <1>0, <1>1 DEF orchVars, Turns, Waits
<1>2. ASSUME NEW i \in Ingests, NEW s \in Sessions, NEW batch \in AnyBatch, NEW now \in Nows,
             Enqueue(i, s, batch, now)
      PROVE  Turns'
  <2> DEFINE ing == [pc |-> "queued", session |-> s, batch |-> batch, now |-> now, appended |-> 0]
  <2>1. ing.pc = "queued" /\ ing.session = s
    OBVIOUS
  <2>2. ingests' = [ingests EXCEPT ![i] = ing]
    BY <1>2 DEF Enqueue
  <2> HIDE DEF ing
  <2> QED
    BY <1>0, <1>2, <2>1, <2>2, EnqueueKeepsTurns DEF Enqueue, Waiting
<1>3. ASSUME NEW i \in Ingests, IngestStep(i) \/ LedgerFails(i) \/ LedgerReplyLost(i)
      PROVE  Turns'
  <2>1. PICK ing :
          /\ ingests' = [ingests EXCEPT ![i] = ing]
          /\ ingests[i].pc \in Waiting
          /\ ingests[i].session \in Sessions
          /\ Len(chain[ingests[i].session]) >= 1
          /\ chain[ingests[i].session][1] = i
          /\ \/ UNCHANGED chain /\ ing.pc \in Waiting \ { "queued" } /\ ing.session = ingests[i].session
             \/ Release(i) /\ ing.pc \in { "done", "rejected" }
    BY <1>3, WorkOrEnd
  <2>2. Waits(i, ingests[i].session)
    BY <2>1 DEF Waits
  <2>3. CASE UNCHANGED chain /\ ing.pc \in Waiting \ { "queued" } /\ ing.session = ingests[i].session
    BY <1>0, <2>1, <2>2, <2>3, WorkKeepsTurns
  <2>4. CASE Release(i) /\ ing.pc \in { "done", "rejected" }
    BY <1>0, <2>1, <2>2, <2>4, EndKeepsTurns DEF Release, Waiting
  <2> QED
    BY <2>1, <2>3, <2>4
<1>4. ASSUME NEW orphans \in SUBSET Calls, Restart(orphans) PROVE Turns'
  <2>1. \A s \in Sessions : chain'[s] = << >> /\ Len(chain'[s]) = 0
    BY <1>4 DEF Restart
  <2>2. \A i \in Ingests : ingests'[i].pc \notin Waiting
    BY <1>4 DEF Restart, Waiting
  <2> QED
    BY <2>1, <2>2 DEF Turns, Waits
<1>5. ASSUME Serve PROVE Turns'
  BY <1>1, <1>3, <1>5 DEF Serve, ApplyHumanOverride, StoreStep
<1> QED
  BY <1>1, <1>2, <1>4, <1>5 DEF OpenNext, vars

-----------------------------------------------------------------------------
(* The store's answers *)

\* Calls keep their reasons, whatever the orchestration does.
LEMMA ReasonsKept ==
    ASSUME OInv, [OpenNext]_vars
    PROVE  \A c \in Calls : Reasoned(c)'
<1> SUFFICES ASSUME NEW d \in Calls PROVE Reasoned(d)'
  OBVIOUS
<1>0. /\ OrchTypes /\ NInv /\ \A c \in Calls : Reasoned(c)
      /\ calls \in [Calls -> CallRecord \cup {NoCall}]
  BY DEF OInv, NInv, Types
<1>1. ASSUME calls'[d] = calls[d] PROVE Reasoned(d)'
  BY <1>0, <1>1 DEF Reasoned
<1>2. ASSUME calls'[d] = NoCall PROVE Reasoned(d)'
  BY <1>2 DEF Reasoned, NoCall
<1>3. ASSUME NEW c \in Calls, NEW s \in Sessions, NEW op \in Evaluations \cup Overrides,
             Begin(c, s, op)
      PROVE  Reasoned(d)'
  <2>1. PICK pc \in { "acting", "loading" } :
            calls' = [calls EXCEPT ![c] = [pc |-> pc, session |-> s, op |-> op, loaded |-> NoRecord,
                                           result |-> NoRecord, sequence |-> -1]]
    BY <1>3 DEF Begin
  <2>2. CASE c = d
    <3>1. calls'[d].pc = pc /\ calls'[d].sequence = -1
      BY <1>0, <2>1, <2>2
    <3> QED
      BY <3>1 DEF Reasoned
  <2>3. CASE c # d
    BY <1>0, <1>1, <2>1, <2>3
  <2> QED
    BY <2>2, <2>3
<1>4. ASSUME NEW c \in Calls, CallStep(c) PROVE Reasoned(d)'
  <2>1. CASE c = d
    BY <1>0, <1>4, <2>1, CallStepShape
  <2>2. CASE c # d
    BY <1>0, <1>1, <1>4, <2>2, CallStepShape
  <2> QED
    BY <2>1, <2>2
<1>5. ASSUME NEW c \in Calls, Settle(c) PROVE Reasoned(d)'
  <2>1. calls' = [calls EXCEPT ![c] = NoCall]
    BY <1>5 DEF Settle
  <2>2. calls'[d] = calls[d] \/ calls'[d] = NoCall
    BY <1>0, <2>1
  <2> QED
    BY <1>1, <1>2, <2>2
<1>6. ASSUME NEW orphans \in SUBSET Calls, Crash(orphans) PROVE Reasoned(d)'
  <2>1. calls'[d] = IF d \in orphans THEN [calls[d] EXCEPT !.pc = "orphaned"]
                    ELSE IF calls[d].pc = "orphaned" THEN calls[d] ELSE NoCall
    BY <1>6 DEF Crash
  <2>2. CASE d \in orphans
    <3>1. calls[d].pc = "saving"
      BY <1>6, <2>2 DEF Crash
    <3>2. calls[d] \in CallRecord
      BY <1>0, <3>1 DEF NoCall
    <3>3. calls'[d] = [calls[d] EXCEPT !.pc = "orphaned"]
      BY <2>1, <2>2
    <3>4. /\ calls'[d].pc = "orphaned" /\ calls'[d].session = calls[d].session
          /\ calls'[d].op = calls[d].op
          /\ calls'[d].result = calls[d].result /\ calls'[d].sequence = calls[d].sequence
      BY <3>2, <3>3 DEF CallRecord
    <3> QED
      BY <1>0, <3>1, <3>4 DEF Reasoned
  <2>3. CASE d \notin orphans
    BY <1>1, <1>2, <2>1, <2>3
  <2> QED
    BY <2>2, <2>3
<1>7. CASE UNCHANGED << memory, recovered, nextSequence, snapshots, calls, acknowledged >>
  BY <1>1, <1>7
<1> QED
  BY <1>0, <1>3, <1>4, <1>5, <1>6, <1>7, StoreView DEF StoreMoves

\* An ingestion and the call it makes stay together.
LEMMA LinksKept ==
    ASSUME OInv, [OpenNext]_vars
    PROVE  \A i \in Ingests : Linked(i)'
<1> SUFFICES ASSUME NEW j \in Ingests PROVE Linked(j)'
  OBVIOUS
<1>0. /\ OrchTypes /\ NInv /\ j \in Calls
      /\ \A i \in Ingests : i \in Calls /\ Linked(i)
      /\ \A c \in Calls : Reasoned(c)
      /\ calls \in [Calls -> CallRecord \cup {NoCall}]
      /\ ingests \in [Ingests -> Idle \cup Admitted \cup Evaluating \cup Narrating]
  BY IngestsAssumption DEF OInv, NInv, Types, OrchTypes
<1>1. ASSUME ingests'[j] = ingests[j], calls'[j] = calls[j] PROVE Linked(j)'
  BY <1>0, <1>1 DEF Linked
<1>2. ASSUME NEW i \in Ingests, NEW ing, ingests' = [ingests EXCEPT ![i] = ing], calls' = calls,
             ingests[i].pc \notin { "evaluating", "lost" }, ing.pc # "evaluating"
      PROVE  Linked(j)'
  <2>1. CASE i = j
    <3>1. ingests'[j] = ing /\ calls'[j] = calls[j]
      BY <1>0, <1>2, <2>1
    <3> QED
      BY <1>0, <1>2, <2>1, <3>1 DEF Linked
  <2>2. CASE i # j
    BY <1>0, <1>1, <1>2, <2>2
  <2> QED
    BY <2>1, <2>2
<1>3. ASSUME NEW i \in Ingests, NEW s \in Sessions, NEW batch \in AnyBatch, NEW now \in Nows,
             Enqueue(i, s, batch, now)
      PROVE  Linked(j)'
  <2> DEFINE ing == [pc |-> "queued", session |-> s, batch |-> batch, now |-> now, appended |-> 0]
  <2>1. ing.pc # "evaluating"
    OBVIOUS
  <2>2. ingests' = [ingests EXCEPT ![i] = ing] /\ calls' = calls /\ ingests[i].pc = "new"
    BY <1>3 DEF Enqueue, storeVars
  <2> HIDE DEF ing
  <2> QED
    BY <1>2, <2>1, <2>2
<1>4. ASSUME NEW i \in Ingests, Start(i) \/ AllAppended(i) \/ AppendNext(i)
      PROVE  Linked(j)'
  <2>1. ingests[i] \in Admitted
    BY <1>0, <1>4, IngestByPc DEF Start, AllAppended, AppendNext
  <2>2. PICK ing : /\ ing \in { [ingests[i] EXCEPT !.pc = "appending"],
                                [ingests[i] EXCEPT !.pc = "listing"],
                                [ingests[i] EXCEPT !.appended = @ + 1] }
                   /\ ingests' = [ingests EXCEPT ![i] = ing]
    BY <1>4 DEF Start, AllAppended, AppendNext
  <2>3. ing.pc # "evaluating" /\ ingests[i].pc \notin { "evaluating", "lost" }
    BY <2>1, <2>2 DEF Admitted
  <2>4. calls' = calls
    BY <1>4 DEF Start, AllAppended, AppendNext, storeVars
  <2> QED
    BY <1>2, <2>2, <2>3, <2>4
<1>5. ASSUME NEW i \in Ingests, LedgerFails(i) \/ LedgerReplyLost(i) \/ Publish(i)
      PROVE  Linked(j)'
  <2>1. PICK pc \in { "rejected", "done" } : ingests' = [ingests EXCEPT ![i] = [pc |-> pc]]
    BY <1>5 DEF LedgerFails, LedgerReplyLost, Publish, Reject, End
  <2>2. calls' = calls /\ ingests[i].pc \notin { "evaluating", "lost" }
    BY <1>5 DEF LedgerFails, LedgerReplyLost, Publish, storeVars
  <2>3. [pc |-> pc].pc # "evaluating"
    OBVIOUS
  <2> QED
    BY <1>2, <2>1, <2>2, <2>3
<1>6. ASSUME NEW i \in Ingests, NEW score \in Scores, Score(i, score) PROVE Linked(j)'
  <2> DEFINE op == [kind |-> "evaluate", posterior |-> score.posterior,
                    contradiction |-> ExtractContradictionSignal(ingests[i].batch,
                                                                 ledger[ingests[i].session]),
                    now |-> ingests[i].now]
             ing == [pc |-> "evaluating", session |-> ingests[i].session, score |-> score,
                     events |-> ledger[ingests[i].session]]
  <2>1. PICK pc \in { "acting", "loading" } :
            calls' = [calls EXCEPT ![i] = [pc |-> pc, session |-> ingests[i].session, op |-> op,
                                           loaded |-> NoRecord, result |-> NoRecord,
                                           sequence |-> -1]]
    BY <1>6 DEF Score, Begin
  <2>2. ingests' = [ingests EXCEPT ![i] = ing]
    BY <1>6 DEF Score
  <2>3. op.kind = "evaluate" /\ op.posterior = score.posterior
    OBVIOUS
  <2>4. ing.pc = "evaluating" /\ ing.session = ingests[i].session /\ ing.score = score
    OBVIOUS
  <2> HIDE DEF op, ing
  <2>5. CASE i = j
    <3>1. ingests'[j] = ing
      BY <1>0, <2>2, <2>5
    <3>2. calls'[j].pc = pc /\ calls'[j].session = ingests[i].session /\ calls'[j].op = op
      BY <1>0, <2>1, <2>5
    <3> QED
      BY <2>3, <2>4, <3>1, <3>2 DEF Linked
  <2>6. CASE i # j
    BY <1>0, <1>1, <2>1, <2>2, <2>6
  <2> QED
    BY <2>5, <2>6
<1>7. ASSUME NEW i \in Ingests, DecideOn(i) \/ StoreFails(i) PROVE Linked(j)'
  <2>1. calls' = [calls EXCEPT ![i] = NoCall]
    BY <1>7 DEF DecideOn, StoreFails
  <2>2. ASSUME NEW ing, ingests' = [ingests EXCEPT ![i] = ing], ing.pc # "evaluating"
        PROVE  Linked(j)'
    <3>1. CASE i = j
      <4>1. ingests'[j] = ing /\ calls'[j] = NoCall
        BY <1>0, <2>1, <2>2, <3>1
      <4> QED
        BY <2>2, <4>1 DEF Linked, NoCall
    <3>2. CASE i # j
      BY <1>0, <1>1, <2>1, <2>2, <3>2
    <3> QED
      BY <3>1, <3>2
  <2>3. CASE StoreFails(i)
    <3>1. ingests' = [ingests EXCEPT ![i] = [pc |-> "rejected"]] /\ [pc |-> "rejected"].pc # "evaluating"
      BY <2>3 DEF StoreFails, Reject, End
    <3> QED
      BY <2>2, <3>1
  <2>4. CASE DecideOn(i) /\ DecisionOf(i).alert = "none"
    <3>1. ingests' = [ingests EXCEPT ![i] = [pc |-> "done"]] /\ [pc |-> "done"].pc # "evaluating"
      BY <2>4 DEF DecideOn, End
    <3> QED
      BY <2>2, <3>1
  <2>5. CASE DecideOn(i) /\ DecisionOf(i).alert # "none"
    <3> DEFINE ing == [pc |-> "narrating", session |-> DecisionOf(i).session, decision |-> DecisionOf(i)]
    <3>1. ingests' = [ingests EXCEPT ![i] = ing]
      BY <2>5 DEF DecideOn
    <3>2. ing.pc # "evaluating"
      OBVIOUS
    <3> HIDE DEF ing
    <3> QED
      BY <2>2, <3>1, <3>2
  <2> QED
    BY <1>7, <2>3, <2>4, <2>5
<1>8. ASSUME NEW c \in Calls \ Ingests, NEW s \in Sessions, NEW op \in Overrides,
             ApplyHumanOverride(c, s, op)
      PROVE  Linked(j)'
  <2>1. calls'[j] = calls[j]
    BY <1>0, <1>8 DEF ApplyHumanOverride, NewCall, Begin
  <2> QED
    BY <1>1, <1>8, <2>1 DEF ApplyHumanOverride, orchVars
<1>9. ASSUME NEW c \in Calls, StoreStep(c) PROVE Linked(j)'
  <2>1. ingests' = ingests
    BY <1>9 DEF StoreStep, orchVars
  <2>2. CASE CallStep(c) /\ c = j
    <3>1. \/ calls[j].pc = "orphaned" /\ calls'[j] = NoCall
          \/ /\ calls[j].pc \notin { "idle", "orphaned" }
             /\ calls'[j].pc \notin { "idle", "orphaned" }
             /\ calls'[j].session = calls[j].session
             /\ calls'[j].op = calls[j].op
      BY <1>0, <2>2, CallStepShape
    <3>2. CASE calls[j].pc = "orphaned" /\ calls'[j] = NoCall
      BY <1>0, <2>1, <3>2 DEF Linked, NoCall
    <3>3. CASE calls[j].pc # "orphaned"
      BY <1>0, <2>1, <3>1, <3>3 DEF Linked
    <3> QED
      BY <3>1, <3>2, <3>3
  <2>3. CASE CallStep(c) /\ c # j
    BY <1>0, <1>1, <2>1, <2>3, CallStepShape
  <2>4. CASE c \notin Ingests /\ Settle(c)
    <3>1. calls'[j] = calls[j]
      BY <1>0, <2>4 DEF Settle
    <3> QED
      BY <1>1, <2>1, <3>1
  <2> QED
    BY <1>9, <2>2, <2>3, <2>4 DEF StoreStep
<1>10. ASSUME NEW orphans \in SUBSET Calls, Restart(orphans) PROVE Linked(j)'
  <2>1. calls'[j] = IF j \in orphans THEN [calls[j] EXCEPT !.pc = "orphaned"]
                    ELSE IF calls[j].pc = "orphaned" THEN calls[j] ELSE NoCall
    BY <1>0, <1>10 DEF Restart, Crash
  <2>2. calls'[j].pc \in { "idle", "orphaned" }
    <3>1. ASSUME j \in orphans PROVE [calls[j] EXCEPT !.pc = "orphaned"].pc = "orphaned"
      <4>1. calls[j].pc = "saving"
        BY <1>10, <3>1 DEF Restart, Crash
      <4>2. calls[j] \in CallRecord
        BY <1>0, <4>1 DEF NoCall
      <4> QED
        BY <4>2 DEF CallRecord
    <3> QED
      BY <2>1, <3>1 DEF NoCall
  <2>3. ingests'[j] = IF ingests[j].pc \in { "new", "done", "rejected", "lost" }
                      THEN ingests[j] ELSE [pc |-> "lost"]
    BY <1>10 DEF Restart
  <2>4. ingests'[j].pc # "evaluating"
    BY <2>3
  <2>5. ASSUME calls'[j].pc = "orphaned" PROVE ingests'[j].pc = "lost"
    <3>1. CASE j \in orphans
      <4>1. calls[j].pc = "saving"
        BY <1>10, <3>1 DEF Restart, Crash
      <4>2. ingests[j].pc = "evaluating"
        BY <1>0, <4>1 DEF Linked
      <4> QED
        BY <2>3, <4>2
    <3>2. CASE j \notin orphans
      <4>1. calls[j].pc = "orphaned"
        BY <2>1, <2>5, <3>2 DEF NoCall
      <4>2. ingests[j].pc = "lost"
        BY <1>0, <4>1 DEF Linked
      <4> QED
        BY <2>3, <4>2
    <3> QED
      BY <3>1, <3>2
  <2> QED
    BY <2>2, <2>4, <2>5 DEF Linked
<1>11. ASSUME UNCHANGED vars PROVE Linked(j)'
  BY <1>1, <1>11 DEF vars, storeVars, orchVars
<1>12. ASSUME Serve PROVE Linked(j)'
  <2>1. ASSUME NEW i \in Ingests, IngestStep(i) PROVE Linked(j)'
    BY <1>4, <1>5, <1>6, <1>7, <2>1 DEF IngestStep
  <2> QED
    BY <1>5, <1>8, <1>9, <1>12, <2>1 DEF Serve
<1> QED
  BY <1>3, <1>10, <1>11, <1>12 DEF OpenNext

-----------------------------------------------------------------------------
(* The invariant *)

\* Nothing is under way at first.
LEMMA InitialOrch == Init => OInv
<1> SUFFICES ASSUME Init PROVE OInv
  OBVIOUS
<1>1. NInv
  BY InitialNumbers DEF Init
<1>2. OrchTypes
  <2>1. << >> \in Seq(LedgerEvent) /\ << >> \in Seq(Ingests) /\ << >> \in Seq(Decision)
    OBVIOUS
  <2>2. [pc |-> "new"] \in Idle
    BY DEF Idle
  <2> QED
    BY <2>1, <2>2 DEF Init, OrchTypes
<1>3. \A i \in Ingests : ingests[i].pc = "new"
  BY DEF Init
<1>4. \A c \in Calls : calls[c].pc = "idle"
  BY DEF Init, StoreInit, NoCall
<1>5. Turns
  <2>1. \A s \in Sessions : Len(chain[s]) = 0
    BY DEF Init
  <2> QED
    BY <1>3, <2>1 DEF Turns, Waits, Waiting
<1>6. \A i \in Ingests : Linked(i)
  BY <1>3, <1>4, IngestsAssumption DEF Linked
<1>7. \A c \in Calls : Reasoned(c)
  BY <1>4 DEF Reasoned
<1> QED
  BY <1>1, <1>2, <1>5, <1>6, <1>7 DEF OInv

\* Every step of the orchestration keeps its invariant.
LEMMA NextOrch == OInv /\ [OpenNext]_vars => OInv'
<1> SUFFICES ASSUME OInv, [OpenNext]_vars PROVE OInv'
  OBVIOUS
<1>1. NInv' /\ OrchTypes' /\ Turns'
  BY OrchNumbers, OrchTypesKept, TurnsKept DEF OInv
<1>2. (\A i \in Ingests : Linked(i)') /\ (\A c \in Calls : Reasoned(c)')
  BY LinksKept, ReasonsKept
<1> QED
  BY <1>1, <1>2 DEF OInv

\* Ingestions take turns, the store works for the one whose turn it is, and
\* whatever it answers has its reason: at every moment of every history of
\* the service.
THEOREM OrchInvariance == Spec => []OInv
BY InitialOrch, NextOrch, NextIsOpen, PTL DEF Spec

\* The type of the whole service, and its promise chains: the chain of a
\* session is exactly its ingestions under way, each once, and only the first
\* has left the queue.
THEOREM OrchTypeCorrect == Spec => []OrchTypeOK
<1>1. OInv => OrchTypeOK
  <2> SUFFICES ASSUME OInv PROVE OrchTypeOK
    OBVIOUS
  <2>1. StoreTypeOK
    BY DEF OInv, NInv, Types, StoreTypeOK, Gapless, MaybeRecord
  <2>2. \A i \in Ingests : ingests[i].pc \in {"new"} \cup Waiting \cup Finished
    BY DEF OInv, OrchTypes, Idle, Admitted, Evaluating, Narrating, Waiting
  <2>3. ASSUME NEW s \in Sessions
        PROVE  /\ IsInjective(chain[s])
               /\ ToSet(chain[s]) =
                     { i \in Ingests : ingests[i].pc \in Waiting /\ ingests[i].session = s }
               /\ \A k \in 2..Len(chain[s]) : ingests[chain[s][k]].pc = "queued"
    <3>1. /\ chain[s] \in Seq(Ingests) /\ DOMAIN chain[s] = 1..Len(chain[s])
          /\ \A k \in 1..Len(chain[s]) : chain[s][k] \in Ingests
      BY DEF OInv, OrchTypes
    <3>2. /\ \A k \in 1..Len(chain[s]) : Waits(chain[s][k], s)
          /\ \A j, k \in 1..Len(chain[s]) : chain[s][j] = chain[s][k] => j = k
          /\ \A k \in 2..Len(chain[s]) : ingests[chain[s][k]].pc = "queued"
          /\ \A i \in Ingests : Waits(i, s) => \E k \in 1..Len(chain[s]) : chain[s][k] = i
      BY DEF OInv, Turns
    <3>3. IsInjective(chain[s])
      BY <3>1, <3>2 DEF IsInjective
    <3>4. ToSet(chain[s]) = { i \in Ingests : ingests[i].pc \in Waiting /\ ingests[i].session = s }
      BY <3>1, <3>2 DEF ToSet, Waits
    <3> QED
      BY <3>2, <3>3, <3>4
  <2>4. wasAmbiguous \in [Sessions -> BOOLEAN]
    BY DEF OInv, OrchTypes
  <2> QED
    BY <2>1, <2>2, <2>3, <2>4 DEF OrchTypeOK
<1> QED
  BY <1>1, OrchInvariance, PTL

-----------------------------------------------------------------------------
(* How a step moves an ingestion, the ledger, and what is published *)

\* What a step may do to one ingestion.
LEMMA IngestMoves ==
    ASSUME OInv, [OpenNext]_vars, NEW i \in Ingests
    PROVE  \/ ingests'[i] = ingests[i]
           \/ ingests'[i].pc \in Finished
           \/ \E s \in Sessions, batch \in AnyBatch, now \in Nows : Enqueue(i, s, batch, now)
           \/ Start(i) \/ AppendNext(i) \/ AllAppended(i)
           \/ \E score \in Scores : Score(i, score)
           \/ DecideOn(i) /\ DecisionOf(i).alert # "none"
<1> DEFINE Goal ==
      \/ ingests'[i] = ingests[i]
      \/ ingests'[i].pc \in Finished
      \/ \E s \in Sessions, batch \in AnyBatch, now \in Nows : Enqueue(i, s, batch, now)
      \/ Start(i) \/ AppendNext(i) \/ AllAppended(i)
      \/ \E score \in Scores : Score(i, score)
      \/ DecideOn(i) /\ DecisionOf(i).alert # "none"
<1> SUFFICES Goal
  OBVIOUS
<1>0. ingests \in [Ingests -> Idle \cup Admitted \cup Evaluating \cup Narrating]
  BY DEF OInv, OrchTypes
<1>1. ASSUME UNCHANGED orchVars PROVE Goal
  BY <1>1 DEF orchVars
<1>2. ASSUME NEW j \in Ingests, NEW s \in Sessions, NEW batch \in AnyBatch, NEW now \in Nows,
             Enqueue(j, s, batch, now)
      PROVE  Goal
  <2>1. CASE i = j
    BY <1>2, <2>1
  <2>2. CASE i # j
    <3>1. ingests'[i] = ingests[i]
      BY <1>0, <1>2, <2>2 DEF Enqueue
    <3> QED
      BY <3>1
  <2> QED
    BY <2>1, <2>2
<1>3. ASSUME NEW j \in Ingests, IngestStep(j) \/ LedgerFails(j) \/ LedgerReplyLost(j)
      PROVE  Goal
  <2>1. CASE i # j
    <3>1. PICK ing : ingests' = [ingests EXCEPT ![j] = ing]
      BY <1>3, WorkOrEnd
    <3> QED
      BY <1>0, <2>1, <3>1
  <2>2. ASSUME NEW pc \in Finished, ingests' = [ingests EXCEPT ![j] = [pc |-> pc]] PROVE Goal
    <3>1. CASE i = j
      <4>1. ingests'[i] = [pc |-> pc]
        BY <1>0, <2>2, <3>1
      <4> QED
        BY <4>1
    <3> QED
      BY <2>1, <3>1
  <2>3. CASE i = j
    <3>1. CASE LedgerFails(i) \/ LedgerReplyLost(i) \/ StoreFails(i)
      BY <2>2, <2>3, <3>1 DEF LedgerFails, LedgerReplyLost, StoreFails, Reject, End, Finished
    <3>2. CASE Publish(i)
      BY <2>2, <2>3, <3>2 DEF Publish, End, Finished
    <3>3. CASE DecideOn(i) /\ DecisionOf(i).alert = "none"
      BY <2>2, <2>3, <3>3 DEF DecideOn, End, Finished
    <3> QED
      BY <1>3, <2>3, <3>1, <3>2, <3>3 DEF IngestStep
  <2> QED
    BY <2>1, <2>3
<1>4. ASSUME NEW orphans \in SUBSET Calls, Restart(orphans) PROVE Goal
  BY <1>4 DEF Restart, Finished
<1> HIDE DEF Goal
<1>5. ASSUME Serve PROVE Goal
  BY <1>1, <1>3, <1>5 DEF Serve, ApplyHumanOverride, StoreStep
<1> QED
  BY <1>1, <1>2, <1>4, <1>5 DEF OpenNext, vars

\* An ingestion that appends puts its event at the end of its session's ledger.
Appends(j) ==
    /\ ingests[j].pc = "appending"
    /\ ingests[j].appended < Len(ingests[j].batch)
    /\ ledger' = [ledger EXCEPT ![ingests[j].session] = Append(@, NextEvent(j))]
    /\ AppendNext(j) \/ ingests'[j].pc \in Finished

\* What a step may do to the ledger.
LEMMA LedgerMoves ==
    ASSUME OInv, [OpenNext]_vars
    PROVE  UNCHANGED ledger \/ \E j \in Ingests : Appends(j)
<1>0. ingests \in [Ingests -> Idle \cup Admitted \cup Evaluating \cup Narrating]
  BY DEF OInv, OrchTypes
<1>1. CASE UNCHANGED vars
  BY <1>1 DEF vars, orchVars
<1>2. ASSUME NEW i \in Ingests, IngestStep(i) \/ LedgerFails(i) PROVE UNCHANGED ledger \/ Appends(i)
  <2>1. CASE AppendNext(i)
    BY <2>1 DEF AppendNext, Appends
  <2>2. CASE ~AppendNext(i)
    BY <1>2, <2>2 DEF IngestStep, Start, AllAppended, Score, DecideOn, Publish, StoreFails, LedgerFails
  <2> QED
    BY <2>1, <2>2
<1>3. ASSUME NEW i \in Ingests, LedgerReplyLost(i) PROVE Appends(i)
  <2>1. ingests'[i] = [pc |-> "rejected"]
    BY <1>0, <1>3 DEF LedgerReplyLost, Reject, End
  <2> QED
    BY <1>3, <2>1 DEF LedgerReplyLost, Appends, Finished
<1>4. CASE \E i \in Ingests, s \in Sessions, batch \in AnyBatch, now \in Nows : Enqueue(i, s, batch, now)
  BY <1>4 DEF Enqueue
<1>5. CASE \E orphans \in SUBSET Calls : Restart(orphans)
  BY <1>5 DEF Restart
<1>6. CASE Serve
  BY <1>2, <1>3, <1>6 DEF Serve, ApplyHumanOverride, StoreStep, orchVars
<1> QED
  BY <1>1, <1>4, <1>5, <1>6 DEF OpenNext

\* The ledger of every session afterwards, entry by entry.
LEMMA LedgerEntries ==
    ASSUME OInv, NEW j \in Ingests, Appends(j)
    PROVE  /\ ingests[j].session \in Sessions
           /\ NextEvent(j) \in LedgerEvent
           /\ \A s \in Sessions : s # ingests[j].session => ledger'[s] = ledger[s]
           /\ Len(ledger[ingests[j].session]) \in Nat
           /\ Len(ledger'[ingests[j].session]) = Len(ledger[ingests[j].session]) + 1
           /\ ledger'[ingests[j].session][Len(ledger[ingests[j].session]) + 1] = NextEvent(j)
           /\ \A k \in 1..Len(ledger[ingests[j].session]) :
                  ledger'[ingests[j].session][k] = ledger[ingests[j].session][k]
<1>0. OrchTypes
  BY DEF OInv
<1>1. ingests[j] \in Admitted
  BY <1>0, IngestByPc DEF Appends
<1>2. PICK s \in Sessions : s = ingests[j].session
  BY <1>1 DEF Admitted
<1>3. ledger[s] \in Seq(LedgerEvent)
  BY <1>0 DEF OrchTypes
<1>4. NextEvent(j) \in LedgerEvent
  BY <1>0, NextEventType DEF Appends
<1>5. ledger' = [ledger EXCEPT ![s] = Append(ledger[s], NextEvent(j))]
  BY <1>2 DEF Appends
<1>6. ledger'[s] = Append(ledger[s], NextEvent(j)) /\ \A t \in Sessions : t # s => ledger'[t] = ledger[t]
  BY <1>0, <1>5 DEF OrchTypes
<1>7. /\ Len(ledger[s]) \in Nat /\ Len(ledger'[s]) = Len(ledger[s]) + 1
      /\ ledger'[s][Len(ledger[s]) + 1] = NextEvent(j)
      /\ \A k \in 1..Len(ledger[s]) : ledger'[s][k] = ledger[s][k]
  BY <1>3, <1>4, <1>6, AppendProperties
<1> QED
  BY <1>2, <1>4, <1>6, <1>7

\* What a step may publish: a decision just taken, or one whose narrative is
\* written.
LEMMA PublishedMoves ==
    ASSUME OInv, [OpenNext]_vars
    PROVE  \/ UNCHANGED published
           \/ \E i \in Ingests :
                 \/ /\ DecideOn(i) /\ DecisionOf(i).alert = "none"
                    /\ published' = Append(published, DecisionOf(i))
                 \/ /\ Publish(i)
                    /\ published' = Append(published, ingests[i].decision)
<1> DEFINE Goal == \/ UNCHANGED published
                   \/ \E i \in Ingests :
                         \/ /\ DecideOn(i) /\ DecisionOf(i).alert = "none"
                            /\ published' = Append(published, DecisionOf(i))
                         \/ /\ Publish(i)
                            /\ published' = Append(published, ingests[i].decision)
<1> SUFFICES Goal
  OBVIOUS
<1>1. CASE UNCHANGED vars
  BY <1>1 DEF vars, orchVars
<1>2. ASSUME NEW i \in Ingests, IngestStep(i) \/ LedgerFails(i) \/ LedgerReplyLost(i) PROVE Goal
  <2>1. CASE DecideOn(i) /\ DecisionOf(i).alert = "none"
    BY <2>1 DEF DecideOn
  <2>2. CASE DecideOn(i) /\ DecisionOf(i).alert # "none"
    BY <2>2 DEF DecideOn
  <2>3. CASE Publish(i)
    BY <2>3 DEF Publish
  <2> QED
    BY <1>2, <2>1, <2>2, <2>3 DEF IngestStep, Start, AppendNext, AllAppended, Score, StoreFails,
                                  LedgerFails, LedgerReplyLost
<1>3. CASE \E i \in Ingests, s \in Sessions, batch \in AnyBatch, now \in Nows : Enqueue(i, s, batch, now)
  BY <1>3 DEF Enqueue
<1>4. CASE \E orphans \in SUBSET Calls : Restart(orphans)
  BY <1>4 DEF Restart
<1>5. CASE Serve
  BY <1>2, <1>5 DEF Serve, ApplyHumanOverride, StoreStep, orchVars
<1> QED
  BY <1>1, <1>3, <1>4, <1>5 DEF OpenNext

\* A sequence of decisions with one more, entry by entry.
LEMMA OneMore ==
    ASSUME OrchTypes, NEW d \in Decision, published' = Append(published, d)
    PROVE  /\ Len(published) \in Nat
           /\ Len(published') = Len(published) + 1
           /\ published'[Len(published) + 1] = d
           /\ \A k \in 1..Len(published) : published'[k] = published[k] /\ published[k] \in Decision
           /\ \A k \in 1..Len(published') : k \in 1..Len(published) \/ k = Len(published) + 1
<1>1. published \in Seq(Decision)
  BY DEF OrchTypes
<1>2. /\ Len(published') = Len(published) + 1
      /\ published'[Len(published) + 1] = d
      /\ \A k \in 1..Len(published) : published'[k] = published[k]
  BY <1>1, AppendProperties
<1>3. \A k \in 1..Len(published) : published[k] \in Decision
  BY <1>1
<1> QED
  BY <1>1, <1>2, <1>3

-----------------------------------------------------------------------------
(* What is published: the invariants *)

\* How much of its batch an ingestion has in the ledger.
Appended(i) ==
    IF ingests[i].pc = "listing" THEN Len(ingests[i].batch) ELSE ingests[i].appended

\* The ledger holds what an ingestion has appended, as its own.
Recorded(i) ==
    ingests[i].pc \in { "appending", "listing" } =>
        /\ Appended(i) \in 0..Len(ingests[i].batch)
        /\ \A n \in 1..Appended(i) :
              \E k \in 1..Len(ledger[ingests[i].session]) :
                  /\ ledger[ingests[i].session][k].ingest = i
                  /\ ledger[ingests[i].session][k].bundle = ingests[i].batch[n].bundle
                  /\ ledger[ingests[i].session][k].flagged = ingests[i].batch[n].flagged

TwoBundlesFlagged(events) == Cardinality(FlaggedBundles(events)) >= 2

\* A corroborated contradiction is in the events it was found in.
Corroborated(i) ==
    ingests[i].pc = "evaluating" /\ calls[i].op.contradiction = "corroborated" =>
        TwoBundlesFlagged(ingests[i].events)

\* The decisions whose alert is the one their move calls for, and whose
\* urgent alert is about two bundles.
Coherent ==
    { d \in Decision :
        /\ d.record.state = d.state
        /\ d.alert = "disqualified" =>
              d.transitioned /\ d.state = "DISQUALIFIED" /\ TwoBundlesFlagged(d.events)
        /\ d.transitioned =>
              /\ d.state = "DISQUALIFIED"    => d.alert = "disqualified"
              /\ d.state = "LOST_CONFIDENCE" => d.alert = "lost"
              /\ d.state = "RECOVERED"       => d.alert = "recovered" }

DInv ==
    /\ \A i \in Ingests : ingests[i].pc = "queued" => ingests[i].appended = 0
    /\ \A i \in Ingests : Recorded(i)
    /\ \A i \in Ingests : Corroborated(i)
    /\ \A i \in Ingests : ingests[i].pc = "narrating" =>
           ingests[i].decision \in Coherent /\ ingests[i].decision.session = ingests[i].session
    /\ \A k \in 1..Len(published) : published[k] \in Coherent

\* The events an ingestion that has read the ledger works with.
EventsRead(i) ==
    IF ingests[i].pc = "evaluating" THEN ingests[i].events ELSE ingests[i].decision.events

HasRead(i) == ingests[i].pc \in { "evaluating", "narrating" }

\* What has been read is in the ledger, and contains what was read before it.
Informed ==
    /\ \A i \in Ingests : HasRead(i) =>
           ToSet(EventsRead(i)) \subseteq ToSet(ledger[ingests[i].session])
    /\ \A k \in 1..Len(published) :
           ToSet(published[k].events) \subseteq ToSet(ledger[published[k].session])
    /\ \A i \in Ingests, k \in 1..Len(published) :
           HasRead(i) /\ published[k].session = ingests[i].session =>
               ToSet(published[k].events) \subseteq ToSet(EventsRead(i))
    /\ \A j, k \in 1..Len(published) :
           j < k /\ published[j].session = published[k].session =>
               ToSet(published[j].events) \subseteq ToSet(published[k].events)

\* The entries of an ingestion stand together, at the end while it appends.
Unmixed ==
    /\ \A i \in Ingests : ingests[i].pc \in { "new", "queued" } =>
           \A s \in Sessions : \A a \in 1..Len(ledger[s]) : ledger[s][a].ingest # i
    /\ \A i \in Ingests : ingests[i].pc = "appending" =>
           \A a, b \in 1..Len(ledger[ingests[i].session]) :
               a <= b /\ ledger[ingests[i].session][a].ingest = i =>
                   ledger[ingests[i].session][b].ingest = i
    /\ \A s \in Sessions : \A a, b, c \in 1..Len(ledger[s]) :
           a < b /\ b < c /\ ledger[s][a].ingest = ledger[s][c].ingest =>
               ledger[s][b].ingest = ledger[s][a].ingest

LInv == Informed /\ Unmixed

\* What was saved for an ingestion, and what an urgent alert announces, is on
\* file.
FInv ==
    /\ \A c \in Calls, s \in Sessions :
           calls[c].pc = "returned" /\ calls[c].sequence # -1 /\ calls[c].session = s =>
               Continues(LatestRecord(s), calls[c].result)
    /\ \A i \in Ingests, s \in Sessions :
           /\ ingests[i].pc = "narrating" /\ ingests[i].session = s
           /\ ingests[i].decision.alert = "disqualified"
           => Continues(LatestRecord(s), ingests[i].decision.record)
    /\ \A k \in 1..Len(published), s \in Sessions :
           published[k].session = s /\ published[k].alert = "disqualified" =>
               Continues(LatestRecord(s), published[k].record)

\* Which of the session's escalations an urgent alert has been about; 0 is none.
Told(s) ==
    { n \in Nat : \/ n = 0
                  \/ \E k \in 1..Len(published) :
                        /\ published[k].session = s /\ published[k].alert = "disqualified"
                        /\ n = EscalationsIn(published[k].record) }

\* An escalation under way is one more than the table knows of, and once it
\* is in the table, one more than anybody was told of.
EInv ==
    /\ \A i \in Ingests, s \in Sessions :
           /\ ingests[i].pc = "evaluating" /\ ingests[i].session = s
           /\ calls[i].result # NoRecord /\ calls[i].result.state = "DISQUALIFIED"
           /\ calls[i].sequence # -1
           => /\ calls[i].pc = "saving" /\ calls[i].sequence = LatestSequence(s) + 1 =>
                     EscalationsIn(LatestRecord(s)) < EscalationsIn(calls[i].result)
              /\ calls[i].pc \in { "saved", "returned" } =>
                     \A n \in Told(s) : n < EscalationsIn(calls[i].result)
    /\ \A i \in Ingests, s \in Sessions :
           /\ ingests[i].pc = "narrating" /\ ingests[i].session = s
           /\ ingests[i].decision.alert = "disqualified"
           => \A n \in Told(s) : n < EscalationsIn(ingests[i].decision.record)
    /\ \A k \in 1..Len(published) : published[k].alert = "disqualified" =>
           1 <= EscalationsIn(published[k].record)
    /\ \A j, k \in 1..Len(published) :
           /\ j < k /\ published[j].session = published[k].session
           /\ published[j].alert = "disqualified" /\ published[k].alert = "disqualified"
           => EscalationsIn(published[j].record) < EscalationsIn(published[k].record)

\* The last decision published of the session is ambiguous.
EndsAmbiguous(s) ==
    \E j \in 1..Len(published) :
        /\ published[j].session = s
        /\ published[j].ambiguous
        /\ \A k \in j + 1..Len(published) : published[k].session # s

\* The engine remembers the last decision it took of a session, published or
\* with its narrative still awaited.
AInv ==
    /\ faults \in [begun : Nat, failures : Nat, lostReplies : Nat, crashes : {0}, orphans : Nat]
    /\ \A i \in Ingests : ingests[i].pc = "narrating" =>
           /\ wasAmbiguous[ingests[i].session] <=> ingests[i].decision.ambiguous
           /\ (ingests[i].decision.alert = "ambiguous") <=>
                  (ingests[i].decision.ambiguous /\ ~EndsAmbiguous(ingests[i].session))
    /\ \A s \in Sessions :
           (\A i \in Ingests : ~(ingests[i].pc = "narrating" /\ ingests[i].session = s)) =>
               (wasAmbiguous[s] <=> EndsAmbiguous(s))
    /\ AmbiguitySpellAlertsOnce

-----------------------------------------------------------------------------
(* Alerts and their reasons *)

\* Nothing an ingestion has recorded is lost while the ledger grows.
LEMMA RecordedStays ==
    ASSUME OInv, [OpenNext]_vars, NEW i \in Ingests, ingests[i].pc \in { "appending", "listing" },
           Recorded(i)
    PROVE  \A n \in 1..Appended(i) :
              \E k \in 1..Len(ledger'[ingests[i].session]) :
                  /\ ledger'[ingests[i].session][k].ingest = i
                  /\ ledger'[ingests[i].session][k].bundle = ingests[i].batch[n].bundle
                  /\ ledger'[ingests[i].session][k].flagged = ingests[i].batch[n].flagged
<1> SUFFICES ASSUME NEW n \in 1..Appended(i)
             PROVE  \E k \in 1..Len(ledger'[ingests[i].session]) :
                        /\ ledger'[ingests[i].session][k].ingest = i
                        /\ ledger'[ingests[i].session][k].bundle = ingests[i].batch[n].bundle
                        /\ ledger'[ingests[i].session][k].flagged = ingests[i].batch[n].flagged
  OBVIOUS
<1>1. ingests[i] \in Admitted
  BY IngestByPc DEF OInv
<1>2. PICK s \in Sessions : s = ingests[i].session
  BY <1>1 DEF Admitted
<1>3. PICK k \in 1..Len(ledger[s]) :
          /\ ledger[s][k].ingest = i
          /\ ledger[s][k].bundle = ingests[i].batch[n].bundle /\ ledger[s][k].flagged = ingests[i].batch[n].flagged
  BY <1>2 DEF Recorded
<1>4. CASE UNCHANGED ledger
  BY <1>2, <1>3, <1>4
<1>5. ASSUME NEW j \in Ingests, Appends(j)
      PROVE  k \in 1..Len(ledger'[s]) /\ ledger'[s][k] = ledger[s][k]
  <2>1. CASE ingests[j].session = s
    BY <1>3, <1>5, <2>1, LedgerEntries
  <2>2. CASE ingests[j].session # s
    BY <1>3, <1>5, <2>2, LedgerEntries
  <2> QED
    BY <2>1, <2>2
<1> QED
  BY <1>2, <1>3, <1>4, <1>5, LedgerMoves

\* What an ingestion appends next, it has recorded.
LEMMA RecordsNext ==
    ASSUME OInv, NEW i \in Ingests, Appends(i)
    PROVE  \E k \in 1..Len(ledger'[ingests[i].session]) :
              /\ ledger'[ingests[i].session][k].ingest = i
              /\ ledger'[ingests[i].session][k].bundle = ingests[i].batch[ingests[i].appended + 1].bundle
              /\ ledger'[ingests[i].session][k].flagged = ingests[i].batch[ingests[i].appended + 1].flagged
<1> DEFINE last == Len(ledger[ingests[i].session]) + 1
<1>1. ledger'[ingests[i].session][last] = NextEvent(i) /\ last \in 1..Len(ledger'[ingests[i].session])
  BY LedgerEntries
<1>2. /\ NextEvent(i).ingest = i
      /\ NextEvent(i).bundle = ingests[i].batch[ingests[i].appended + 1].bundle
      /\ NextEvent(i).flagged = ingests[i].batch[ingests[i].appended + 1].flagged
  BY NextEventType DEF OInv, Appends
<1> HIDE DEF last
<1> QED
  BY <1>1, <1>2

\* An ingestion keeps track of what it has appended.
LEMMA RecordedKept ==
    ASSUME OInv, DInv, [OpenNext]_vars, NEW i \in Ingests
    PROVE  /\ Recorded(i)'
           /\ ingests'[i].pc = "queued" => ingests'[i].appended = 0
<1>0. OrchTypes /\ ingests \in [Ingests -> Idle \cup Admitted \cup Evaluating \cup Narrating]
  BY DEF OInv, OrchTypes
<1>1. CASE ingests'[i] = ingests[i]
  <2>1. Recorded(i) /\ (ingests[i].pc = "queued" => ingests[i].appended = 0)
    BY DEF DInv
  <2>2. Appended(i)' = Appended(i)
    BY <1>1 DEF Appended
  <2>3. ASSUME ingests[i].pc \in { "appending", "listing" }
        PROVE  \A n \in 1..Appended(i) :
                  \E k \in 1..Len(ledger'[ingests[i].session]) :
                      /\ ledger'[ingests[i].session][k].ingest = i
                      /\ ledger'[ingests[i].session][k].bundle = ingests[i].batch[n].bundle
                      /\ ledger'[ingests[i].session][k].flagged = ingests[i].batch[n].flagged
    BY <2>1, <2>3, RecordedStays
  <2>4. ingests[i].pc \in { "appending", "listing" } => Appended(i) \in 0..Len(ingests[i].batch)
    BY <2>1 DEF Recorded
  <2>5. Recorded(i)'
    BY <1>1, <2>2, <2>3, <2>4 DEF Recorded
  <2> QED
    BY <1>1, <2>1, <2>5
<1>2. CASE ingests'[i].pc \in Finished
  BY <1>2 DEF Finished, Recorded
<1>3. CASE \E s \in Sessions, batch \in AnyBatch, now \in Nows : Enqueue(i, s, batch, now)
  <2>1. ingests'[i].pc = "queued" /\ ingests'[i].appended = 0
    BY <1>0, <1>3 DEF Enqueue
  <2> QED
    BY <2>1 DEF Recorded
<1>4. CASE Start(i)
  <2>1. ingests[i].pc = "queued" /\ ingests[i] \in Admitted /\ ingests[i].appended = 0
    BY <1>0, <1>4, IngestByPc DEF Start, DInv
  <2>2. ingests'[i] = [ingests[i] EXCEPT !.pc = "appending"]
    BY <1>0, <1>4 DEF Start
  <2>3. /\ ingests'[i].pc = "appending" /\ ingests'[i].appended = 0
        /\ ingests'[i].batch = ingests[i].batch
    BY <2>1, <2>2 DEF Admitted
  <2>4. Len(ingests[i].batch) \in Nat
    BY <2>1 DEF Admitted, AnyBatch
  <2> QED
    BY <2>3, <2>4 DEF Recorded, Appended
<1>5. CASE AppendNext(i)
  <2>1. /\ ingests[i].pc = "appending" /\ ingests[i] \in Admitted
        /\ ingests[i].appended < Len(ingests[i].batch)
        /\ Recorded(i)
    BY <1>0, <1>5, IngestByPc DEF AppendNext, DInv
  <2>2. ingests'[i] = [ingests[i] EXCEPT !.appended = @ + 1]
    BY <1>0, <1>5 DEF AppendNext
  <2>3. /\ ingests'[i].pc = "appending" /\ ingests'[i].appended = ingests[i].appended + 1
        /\ ingests'[i].batch = ingests[i].batch /\ ingests'[i].session = ingests[i].session
        /\ ingests[i].appended \in Nat /\ Len(ingests[i].batch) \in Nat
    BY <2>1, <2>2 DEF Admitted, AnyBatch
  <2>4. Appended(i) = ingests[i].appended /\ Appended(i)' = ingests[i].appended + 1
    BY <2>1, <2>3 DEF Appended
  <2>5. Appends(i)
    BY <1>5, <2>1 DEF Appends, AppendNext
  <2>6. ASSUME NEW n \in 1..ingests[i].appended + 1
        PROVE  \E k \in 1..Len(ledger'[ingests[i].session]) :
                  /\ ledger'[ingests[i].session][k].ingest = i
                  /\ ledger'[ingests[i].session][k].bundle = ingests[i].batch[n].bundle
                  /\ ledger'[ingests[i].session][k].flagged = ingests[i].batch[n].flagged
    <3>1. CASE n \in 1..ingests[i].appended
      BY <2>1, <2>4, <3>1, RecordedStays
    <3>2. CASE n = ingests[i].appended + 1
      BY <2>5, <3>2, RecordsNext
    <3>3. n \in 1..ingests[i].appended \/ n = ingests[i].appended + 1
      BY <2>3
    <3> QED
      BY <3>1, <3>2, <3>3
  <2>7. ingests[i].appended + 1 \in 0..Len(ingests[i].batch)
    BY <2>1, <2>3
  <2>8. PICK m : m = ingests[i].appended + 1
    OBVIOUS
  <2>9. PICK session, batch : session = ingests[i].session /\ batch = ingests[i].batch
    OBVIOUS
  <2>10. Appended(i)' = m /\ ingests'[i].session = session /\ ingests'[i].batch = batch
    BY <2>3, <2>4, <2>8, <2>9
  <2>11. /\ m \in 0..Len(batch)
         /\ \A n \in 1..m : \E k \in 1..Len(ledger'[session]) :
                /\ ledger'[session][k].ingest = i
                /\ ledger'[session][k].bundle = batch[n].bundle
                /\ ledger'[session][k].flagged = batch[n].flagged
    BY <2>6, <2>7, <2>8, <2>9
  <2>12. Recorded(i)'
    BY <2>10, <2>11 DEF Recorded
  <2> QED
    BY <2>3, <2>12
<1>6. CASE AllAppended(i)
  <2>1. /\ ingests[i].pc = "appending" /\ ingests[i] \in Admitted
        /\ ingests[i].appended = Len(ingests[i].batch)
        /\ Recorded(i)
    BY <1>0, <1>6, IngestByPc DEF AllAppended, DInv
  <2>2. ingests'[i] = [ingests[i] EXCEPT !.pc = "listing"]
    BY <1>0, <1>6 DEF AllAppended
  <2>3. /\ ingests'[i].pc = "listing"
        /\ ingests'[i].batch = ingests[i].batch /\ ingests'[i].session = ingests[i].session
    BY <2>1, <2>2 DEF Admitted
  <2>4. Appended(i)' = Appended(i) /\ Appended(i) \in 0..Len(ingests[i].batch)
    BY <2>1, <2>3 DEF Appended, Recorded
  <2>5. \A n \in 1..Appended(i) :
            \E k \in 1..Len(ledger'[ingests[i].session]) :
                /\ ledger'[ingests[i].session][k].ingest = i
                /\ ledger'[ingests[i].session][k].bundle = ingests[i].batch[n].bundle
                /\ ledger'[ingests[i].session][k].flagged = ingests[i].batch[n].flagged
    BY <2>1, RecordedStays
  <2> QED
    BY <2>3, <2>4, <2>5 DEF Recorded
<1>7. CASE \E score \in Scores : Score(i, score)
  BY <1>0, <1>7 DEF Score, Recorded
<1>8. CASE DecideOn(i) /\ DecisionOf(i).alert # "none"
  BY <1>0, <1>8 DEF DecideOn, Recorded
<1> QED
  BY <1>1, <1>2, <1>3, <1>4, <1>5, <1>6, <1>7, <1>8, IngestMoves

\* Once its batch is in the ledger, a corroborated contradiction is one of
\* the ledger: two bundles are flagged in the events read.
LEMMA CorroboratedInLedger ==
    ASSUME OInv, DInv, NEW i \in Ingests, ingests[i].pc = "listing",
           ExtractContradictionSignal(ingests[i].batch, ledger[ingests[i].session]) = "corroborated"
    PROVE  TwoBundlesFlagged(ledger[ingests[i].session])
<1>1. ingests[i] \in Admitted
  BY IngestByPc DEF OInv
<1>2. PICK s \in Sessions : s = ingests[i].session
  BY <1>1 DEF Admitted
<1> DEFINE batch == ingests[i].batch
           events == ledger[s]
<1>3. /\ batch \in Seq([bundle : STRING, flagged : BOOLEAN]) /\ DOMAIN batch = 1..Len(batch)
      /\ events \in Seq(LedgerEvent) /\ DOMAIN events = 1..Len(events)
  BY <1>1 DEF Admitted, AnyBatch, OInv, OrchTypes
<1>4. \A n \in 1..Len(batch) : \E k \in 1..Len(events) :
          events[k].bundle = batch[n].bundle /\ events[k].flagged = batch[n].flagged
  BY <1>2 DEF DInv, Recorded, Appended
<1>5. Cardinality(FlaggedBundles(events) \cup FlaggedBundles(batch)) >= 2
  BY <1>2 DEF ExtractContradictionSignal
<1> HIDE DEF batch, events
<1>6. FlaggedBundles(batch) \subseteq FlaggedBundles(events)
  <2> SUFFICES ASSUME NEW e \in ToSet(batch), e.flagged
               PROVE  e.bundle \in FlaggedBundles(events)
    BY DEF FlaggedBundles
  <2>1. PICK n \in 1..Len(batch) : e = batch[n]
    BY <1>3 DEF ToSet
  <2>2. PICK k \in 1..Len(events) : events[k].bundle = batch[n].bundle /\ events[k].flagged = batch[n].flagged
    BY <1>4
  <2>3. events[k] \in ToSet(events) /\ events[k].flagged
    BY <1>3, <2>1, <2>2 DEF ToSet
  <2>4. e.bundle = events[k].bundle
    BY <2>1, <2>2
  <2> QED
    BY <2>3, <2>4 DEF FlaggedBundles
<1>7. FlaggedBundles(events) \cup FlaggedBundles(batch) = FlaggedBundles(events)
  BY <1>6
<1> QED
  BY <1>2, <1>5, <1>7 DEF TwoBundlesFlagged, events

\* While an ingestion is evaluated, only its own call takes steps for it.
LEMMA EvaluatingCall ==
    ASSUME OInv, [OpenNext]_vars, NEW i \in Ingests, ingests[i].pc = "evaluating",
           ingests'[i] = ingests[i]
    PROVE  calls'[i] = calls[i] \/ CallStep(i)
<1>0. /\ OrchTypes /\ NInv /\ i \in Calls /\ Linked(i) /\ Linked(i)'
      /\ \A c \in Calls : Reasoned(c)
      /\ calls \in [Calls -> CallRecord \cup {NoCall}]
  BY NextOrch, IngestsAssumption DEF OInv, OrchTypes, NInv, Types
<1>1. calls[i].pc \notin { "idle", "orphaned" } /\ calls'[i].pc \notin { "idle", "orphaned" }
  BY <1>0 DEF Linked
<1>2. CASE UNCHANGED << memory, recovered, nextSequence, snapshots, calls, acknowledged >>
  BY <1>2
<1>3. ASSUME NEW c \in Calls, NEW s \in Sessions, NEW op \in Evaluations \cup Overrides,
             Begin(c, s, op)
      PROVE  calls'[i] = calls[i]
  <2>1. c # i
    BY <1>1, <1>3 DEF Begin, NoCall
  <2> QED
    BY <1>0, <1>3, <2>1 DEF Begin
<1>4. ASSUME NEW c \in Calls, CallStep(c), c # i PROVE calls'[i] = calls[i]
  BY <1>0, <1>4, CallStepShape
<1>5. ASSUME NEW c \in Calls, Settle(c) PROVE calls'[i] = calls[i]
  <2>1. calls' = [calls EXCEPT ![c] = NoCall]
    BY <1>5 DEF Settle
  <2>2. c # i
    BY <1>0, <1>1, <2>1 DEF NoCall
  <2> QED
    BY <1>0, <2>1, <2>2
<1>6. ASSUME NEW orphans \in SUBSET Calls, Crash(orphans) PROVE FALSE
  <2>1. calls'[i] = IF i \in orphans THEN [calls[i] EXCEPT !.pc = "orphaned"]
                    ELSE IF calls[i].pc = "orphaned" THEN calls[i] ELSE NoCall
    BY <1>0, <1>6 DEF Crash
  <2>2. calls[i] \in CallRecord
    BY <1>0, <1>1 DEF NoCall
  <2>3. calls'[i].pc \in { "idle", "orphaned" }
    BY <1>1, <2>1, <2>2 DEF CallRecord, NoCall
  <2> QED
    BY <1>1, <2>3
<1> QED
  BY <1>0, <1>2, <1>3, <1>4, <1>5, <1>6, StoreView DEF StoreMoves

\* An ingestion that is evaluated was scored with this step, or its call goes
\* on with what it was given.
LEMMA EvaluationGoesOn ==
    ASSUME OInv, [OpenNext]_vars, NEW i \in Ingests, ingests'[i].pc = "evaluating"
    PROVE  \/ \E score \in Scores : Score(i, score)
           \/ ingests'[i] = ingests[i] /\ calls'[i].op = calls[i].op
<1>0. /\ OrchTypes /\ NInv /\ i \in Calls /\ Linked(i) /\ Linked(i)'
      /\ \A c \in Calls : Reasoned(c)
      /\ ingests \in [Ingests -> Idle \cup Admitted \cup Evaluating \cup Narrating]
  BY NextOrch, IngestsAssumption DEF OInv, OrchTypes
<1>1. CASE ingests'[i] = ingests[i]
  <2>1. /\ ingests[i].pc = "evaluating"
        /\ calls[i].pc \notin { "idle", "orphaned" } /\ calls'[i].pc \notin { "idle", "orphaned" }
    BY <1>0, <1>1 DEF Linked
  <2>2. calls'[i].op = calls[i].op
    <3>1. CASE calls'[i] = calls[i]
      BY <3>1
    <3>2. CASE CallStep(i)
      BY <1>0, <2>1, <3>2, CallStepShape
    <3> QED
      BY <1>1, <2>1, <3>1, <3>2, EvaluatingCall
  <2> QED
    BY <1>1, <2>2
<1>2. CASE ingests'[i].pc \in Finished
  BY <1>2 DEF Finished
<1>3. CASE \E s \in Sessions, batch \in AnyBatch, now \in Nows : Enqueue(i, s, batch, now)
  BY <1>0, <1>3 DEF Enqueue
<1>4. CASE Start(i) \/ AppendNext(i) \/ AllAppended(i)
  <2>1. ingests[i].pc \in { "queued", "appending" } /\ ingests[i] \in Admitted
    BY <1>0, <1>4, IngestByPc DEF Start, AppendNext, AllAppended
  <2>2. ingests'[i] \in { [ingests[i] EXCEPT !.pc = "appending"], [ingests[i] EXCEPT !.pc = "listing"],
                          [ingests[i] EXCEPT !.appended = @ + 1] }
    BY <1>0, <1>4 DEF Start, AppendNext, AllAppended
  <2>3. ingests'[i].pc # "evaluating"
    BY <2>1, <2>2 DEF Admitted
  <2> QED
    BY <2>3
<1>5. CASE DecideOn(i) /\ DecisionOf(i).alert # "none"
  BY <1>0, <1>5 DEF DecideOn
<1> QED
  BY <1>1, <1>2, <1>3, <1>4, <1>5, IngestMoves

\* What a call is given when an ingestion is scored.
LEMMA ScoredCall ==
    ASSUME OInv, NEW i \in Ingests, NEW score \in Scores, Score(i, score)
    PROVE  /\ ingests[i].pc = "listing" /\ UNCHANGED ledger
           /\ ingests'[i].pc = "evaluating" /\ ingests'[i].session = ingests[i].session
           /\ ingests'[i].events = ledger[ingests[i].session]
           /\ calls'[i].op.contradiction =
                  ExtractContradictionSignal(ingests[i].batch, ledger[ingests[i].session])
<1>0. /\ ingests \in [Ingests -> Idle \cup Admitted \cup Evaluating \cup Narrating]
      /\ calls \in [Calls -> CallRecord \cup {NoCall}] /\ i \in Calls
  BY IngestsAssumption DEF OInv, OrchTypes, NInv, Types
<1> DEFINE contradiction == ExtractContradictionSignal(ingests[i].batch, ledger[ingests[i].session])
           op == [kind |-> "evaluate", posterior |-> score.posterior,
                  contradiction |-> contradiction, now |-> ingests[i].now]
<1>1. PICK pc \in { "acting", "loading" } :
          calls' = [calls EXCEPT ![i] = [pc |-> pc, session |-> ingests[i].session, op |-> op,
                                         loaded |-> NoRecord, result |-> NoRecord,
                                         sequence |-> -1]]
  BY DEF Score, Begin
<1>2. op.contradiction = contradiction
  OBVIOUS
<1>3. /\ ingests'[i] = [pc |-> "evaluating", session |-> ingests[i].session, score |-> score,
                        events |-> ledger[ingests[i].session]]
      /\ ingests[i].pc = "listing" /\ UNCHANGED ledger
  BY <1>0 DEF Score
<1> HIDE DEF op, contradiction
<1>4. calls'[i].op = op
  BY <1>0, <1>1
<1> QED
  BY <1>2, <1>3, <1>4 DEF contradiction

\* A corroborated contradiction stays what it was found to be.
LEMMA CorroboratedKept ==
    ASSUME OInv, DInv, [OpenNext]_vars, NEW i \in Ingests
    PROVE  Corroborated(i)'
<1> SUFFICES ASSUME ingests'[i].pc = "evaluating", calls'[i].op.contradiction = "corroborated"
             PROVE  TwoBundlesFlagged(ingests'[i].events)
  BY DEF Corroborated, TwoBundlesFlagged
<1>1. ASSUME NEW score \in Scores, Score(i, score) PROVE TwoBundlesFlagged(ingests'[i].events)
  BY <1>1, ScoredCall, CorroboratedInLedger
<1>2. CASE ingests'[i] = ingests[i] /\ calls'[i].op = calls[i].op
  BY <1>2 DEF DInv, Corroborated
<1> QED
  BY <1>1, <1>2, EvaluationGoesOn

\* A decision has the alert that its move calls for, and the events for it.
LEMMA DecisionIsCoherent ==
    ASSUME OInv, DInv, NEW i \in Ingests, DecideOn(i)
    PROVE  DecisionOf(i) \in Coherent /\ DecisionOf(i).session = ingests[i].session
<1>1. /\ ingests[i].pc = "evaluating" /\ calls[i].pc = "returned"
      /\ calls[i].result \in LifecycleSessionRecord
  BY AnsweredType DEF DecideOn
<1>2. i \in Calls /\ OrchTypes /\ Reasoned(i) /\ Linked(i) /\ Corroborated(i)
  BY IngestsAssumption DEF OInv, DInv
<1> DEFINE d == DecisionOf(i)
           state == calls[i].result.state
           probability == ingests[i].score.posterior.probability
           tight == ingests[i].score.tight
<1>3. /\ ingests[i] \in Evaluating /\ d \in Decision /\ d.session = ingests[i].session
      /\ d.events = ingests[i].events
      /\ d.record.state = d.state /\ d.state = state /\ d.transitioned = (calls[i].sequence # -1)
      /\ d.alert = AlertFor(state, calls[i].sequence # -1, probability, tight,
                            wasAmbiguous[ingests[i].session])
  BY <1>1, <1>2, DecisionType
<1>4. probability \in Int
  <2>1. ingests[i].score \in [posterior : Posterior, tight : BOOLEAN]
    BY <1>3, ScoresAssumption DEF Evaluating
  <2> QED
    BY <2>1 DEF Posterior
<1>5. ASSUME d.transitioned
      PROVE  /\ state = "DISQUALIFIED" => TwoBundlesFlagged(d.events)
             /\ state = "RECOVERED" => probability >= 55
  <2>1. /\ state = "DISQUALIFIED" => calls[i].op.contradiction = "corroborated"
        /\ state = "RECOVERED" => calls[i].op.posterior.probability >= 55
        /\ calls[i].op.posterior = ingests[i].score.posterior
    BY <1>1, <1>2, <1>3, <1>5 DEF Reasoned, Linked
  <2> QED
    BY <1>1, <1>2, <1>3, <2>1 DEF Corroborated
<1> HIDE DEF d, probability, tight, state
<1>6. /\ d.alert = "disqualified" => d.transitioned /\ state = "DISQUALIFIED"
      /\ d.transitioned =>
            /\ state = "DISQUALIFIED"    => d.alert = "disqualified"
            /\ state = "LOST_CONFIDENCE" => d.alert = "lost"
  BY <1>3 DEF AlertFor
<1>7. d.transitioned /\ state = "RECOVERED" => d.alert = "recovered"
  <2> SUFFICES ASSUME d.transitioned, state = "RECOVERED" PROVE d.alert = "recovered"
    OBVIOUS
  <2>1. ~NearMidpoint(probability)
    BY <1>4, <1>5 DEF NearMidpoint
  <2> QED
    BY <1>3, <2>1 DEF AlertFor, IsConfidentlyAmbiguous
<1>8. d \in Coherent /\ d.session = ingests[i].session
  BY <1>3, <1>5, <1>6, <1>7 DEF Coherent
<1> QED
  BY <1>8 DEF d

\* Nothing has been appended, found or decided at first.
LEMMA InitialDecisions == Init => DInv
<1> SUFFICES ASSUME Init PROVE DInv
  OBVIOUS
<1>1. (\A i \in Ingests : ingests[i].pc = "new") /\ Len(published) = 0
  BY DEF Init
<1> QED
  BY <1>1 DEF DInv, Recorded, Corroborated

\* Every step keeps alerts and their reasons.
LEMMA NextDecisions == OInv /\ DInv /\ [OpenNext]_vars => DInv'
<1> SUFFICES ASSUME OInv, DInv, [OpenNext]_vars PROVE DInv'
  OBVIOUS
<1>0. /\ OrchTypes
      /\ ingests \in [Ingests -> Idle \cup Admitted \cup Evaluating \cup Narrating]
  BY DEF OInv, OrchTypes
<1>1. ASSUME NEW i \in Ingests, ingests'[i].pc = "narrating"
      PROVE  ingests'[i].decision \in Coherent /\ ingests'[i].decision.session = ingests'[i].session
  <2>1. CASE ingests'[i] = ingests[i]
    BY <1>1, <2>1 DEF DInv
  <2>2. CASE DecideOn(i) /\ DecisionOf(i).alert # "none"
    <3>1. ingests'[i].decision = DecisionOf(i) /\ ingests'[i].session = DecisionOf(i).session
      BY <1>0, <2>2 DEF DecideOn
    <3> QED
      BY <2>2, <3>1, DecisionIsCoherent
  <2>3. CASE Start(i) \/ AppendNext(i) \/ AllAppended(i)
    <3>1. ingests[i].pc \in { "queued", "appending" } /\ ingests[i] \in Admitted
      BY <1>0, <2>3, IngestByPc DEF Start, AppendNext, AllAppended
    <3>2. ingests'[i] \in { [ingests[i] EXCEPT !.pc = "appending"], [ingests[i] EXCEPT !.pc = "listing"],
                            [ingests[i] EXCEPT !.appended = @ + 1] }
      BY <1>0, <2>3 DEF Start, AppendNext, AllAppended
    <3>3. ingests'[i].pc # "narrating"
      BY <3>1, <3>2 DEF Admitted
    <3> QED
      BY <1>1, <3>3
  <2>4. CASE \E score \in Scores : Score(i, score)
    BY <1>0, <1>1, <2>4 DEF Score
  <2>5. CASE \E s \in Sessions, batch \in AnyBatch, now \in Nows : Enqueue(i, s, batch, now)
    BY <1>0, <1>1, <2>5 DEF Enqueue
  <2> QED
    BY <1>1, <2>1, <2>2, <2>3, <2>4, <2>5, IngestMoves DEF Finished
<1>2. ASSUME NEW d \in Coherent, published' = Append(published, d), NEW k \in 1..Len(published')
      PROVE  published'[k] \in Coherent
  <2>1. d \in Decision
    BY DEF Coherent
  <2> QED
    BY <1>0, <1>2, <2>1, OneMore DEF DInv
<1>3. ASSUME NEW k \in 1..Len(published')
      PROVE  published'[k] \in Coherent
  <2>1. CASE UNCHANGED published
    BY <1>3, <2>1 DEF DInv
  <2>2. ASSUME NEW i \in Ingests, DecideOn(i), published' = Append(published, DecisionOf(i))
        PROVE  published'[k] \in Coherent
    BY <1>2, <1>3, <2>2, DecisionIsCoherent
  <2>3. ASSUME NEW i \in Ingests, Publish(i), published' = Append(published, ingests[i].decision)
        PROVE  published'[k] \in Coherent
    BY <1>2, <1>3, <2>3 DEF Publish, DInv
  <2> QED
    BY <2>1, <2>2, <2>3, PublishedMoves
<1>4. /\ \A i \in Ingests : (ingests[i].pc = "queued" => ingests[i].appended = 0)'
      /\ \A i \in Ingests : Recorded(i)' /\ Corroborated(i)'
  BY RecordedKept, CorroboratedKept
<1> QED
  BY <1>1, <1>3, <1>4 DEF DInv

\* What is published is coherent in every reachable state.
LEMMA DecisionInvariance == Spec => [](OInv /\ DInv)
BY InitialOrch, InitialDecisions, NextOrch, NextDecisions, NextIsOpen, PTL DEF Spec

\* No move for the worse, and no recovery, is silent: every decision published
\* on a tick that moved the session there carries the alert for it.
THEOREM MovesAlert == Spec => []MovesOfConcernAlert
<1>1. OInv /\ DInv => MovesOfConcernAlert
  <2> SUFFICES ASSUME OInv, DInv, NEW k \in DOMAIN published, published[k].transitioned
               PROVE  /\ published[k].state = "DISQUALIFIED"    => published[k].alert = "disqualified"
                      /\ published[k].state = "LOST_CONFIDENCE" => published[k].alert = "lost"
                      /\ published[k].state = "RECOVERED"       => published[k].alert = "recovered"
    BY DEF MovesOfConcernAlert
  <2>1. k \in 1..Len(published)
    BY DEF OInv, OrchTypes
  <2> QED
    BY <2>1 DEF DInv, Coherent
<1> QED
  BY <1>1, DecisionInvariance, PTL

\* No urgent alert without change-points of two bundles in the ledger it was
\* decided on.
THEOREM UrgentIsCorroborated == Spec => []UrgentAlertsAreCorroborated
<1>1. OInv /\ DInv => UrgentAlertsAreCorroborated
  <2> SUFFICES ASSUME OInv, DInv, NEW k \in DOMAIN published, published[k].alert = "disqualified"
               PROVE  Cardinality(FlaggedBundles(published[k].events)) >= 2
    BY DEF UrgentAlertsAreCorroborated
  <2>1. k \in 1..Len(published)
    BY DEF OInv, OrchTypes
  <2> QED
    BY <2>1 DEF DInv, Coherent, TwoBundlesFlagged
<1> QED
  BY <1>1, DecisionInvariance, PTL

-----------------------------------------------------------------------------
(* Decisions and the ledger *)

\* The ledger of a session only grows.
LEMMA LedgerGrows ==
    ASSUME OInv, [OpenNext]_vars, NEW s \in Sessions
    PROVE  /\ \A k \in 1..Len(ledger[s]) : k \in 1..Len(ledger'[s]) /\ ledger'[s][k] = ledger[s][k]
           /\ ToSet(ledger[s]) \subseteq ToSet(ledger'[s])
<1>1. \A k \in 1..Len(ledger[s]) : k \in 1..Len(ledger'[s]) /\ ledger'[s][k] = ledger[s][k]
  <2>1. ASSUME NEW j \in Ingests, Appends(j)
        PROVE  \A k \in 1..Len(ledger[s]) : k \in 1..Len(ledger'[s]) /\ ledger'[s][k] = ledger[s][k]
    <3>1. CASE ingests[j].session = s
      BY <2>1, <3>1, LedgerEntries
    <3>2. CASE ingests[j].session # s
      BY <2>1, <3>2, LedgerEntries
    <3> QED
      BY <3>1, <3>2
  <2> QED
    BY <2>1, LedgerMoves
<1>2. DOMAIN ledger[s] = 1..Len(ledger[s]) /\ DOMAIN ledger'[s] = 1..Len(ledger'[s])
  <2>1. ledger[s] \in Seq(LedgerEvent) /\ ledger'[s] \in Seq(LedgerEvent)
    BY OrchTypesKept DEF OInv, OrchTypes
  <2> QED
    BY <2>1
<1> QED
  BY <1>1, <1>2 DEF ToSet

\* An ingestion that has read has read before, or reads the whole ledger now.
LEMMA ReadMoves ==
    ASSUME OInv, DInv, [OpenNext]_vars, NEW i \in Ingests, HasRead(i)'
    PROVE  /\ ingests[i].session \in Sessions
           /\ ingests'[i].session = ingests[i].session
           /\ ingests[i].pc \in Waiting \ { "queued" }
           /\ \/ HasRead(i) /\ EventsRead(i)' = EventsRead(i)
              \/ /\ EventsRead(i)' = ledger[ingests[i].session]
                 /\ UNCHANGED << published, ledger >>
<1>0. /\ OrchTypes
      /\ ingests \in [Ingests -> Idle \cup Admitted \cup Evaluating \cup Narrating]
      /\ ingests'[i].pc \in { "evaluating", "narrating" }
  BY DEF OInv, OrchTypes, HasRead
<1>1. CASE ingests'[i] = ingests[i]
  <2>1. ingests[i].session \in Sessions
    BY <1>0, <1>1, IngestByPc DEF Evaluating, Narrating
  <2>2. EventsRead(i)' = EventsRead(i)
    BY <1>1 DEF EventsRead
  <2> QED
    BY <1>0, <1>1, <2>1, <2>2 DEF HasRead, Waiting
<1>2. CASE DecideOn(i) /\ DecisionOf(i).alert # "none"
  <2>1. ingests[i].pc = "evaluating" /\ calls[i].result \in LifecycleSessionRecord
    BY <1>2, AnsweredType DEF DecideOn
  <2>2. /\ ingests[i].session \in Sessions /\ DecisionOf(i).session = ingests[i].session
        /\ DecisionOf(i).events = ingests[i].events
    BY <1>0, <2>1, DecisionType
  <2>3. ingests'[i] = [pc |-> "narrating", session |-> DecisionOf(i).session, decision |-> DecisionOf(i)]
    BY <1>0, <1>2 DEF DecideOn
  <2> QED
    BY <2>1, <2>2, <2>3 DEF HasRead, EventsRead, Waiting
<1>3. CASE \E score \in Scores : Score(i, score)
  <2>1. PICK score \in Scores : Score(i, score)
    BY <1>3
  <2>2. ingests'[i] = [pc |-> "evaluating", session |-> ingests[i].session, score |-> score,
                       events |-> ledger[ingests[i].session]]
    BY <1>0, <2>1 DEF Score
  <2>3. ingests[i].session \in Sessions
    BY <1>0, <2>1, ScoredIsEvaluation DEF Score
  <2> QED
    BY <2>1, <2>2, <2>3 DEF Score, EventsRead, Waiting
<1>4. CASE Start(i) \/ AppendNext(i) \/ AllAppended(i)
  <2>1. ingests[i].pc \in { "queued", "appending" } /\ ingests[i] \in Admitted
    BY <1>0, <1>4, IngestByPc DEF Start, AppendNext, AllAppended
  <2>2. ingests'[i] \in { [ingests[i] EXCEPT !.pc = "appending"], [ingests[i] EXCEPT !.pc = "listing"],
                          [ingests[i] EXCEPT !.appended = @ + 1] }
    BY <1>0, <1>4 DEF Start, AppendNext, AllAppended
  <2>3. ingests'[i].pc \notin { "evaluating", "narrating" }
    BY <2>1, <2>2 DEF Admitted
  <2> QED
    BY <1>0, <2>3
<1>5. CASE \E s \in Sessions, batch \in AnyBatch, now \in Nows : Enqueue(i, s, batch, now)
  BY <1>0, <1>5 DEF Enqueue
<1> QED
  BY <1>0, <1>1, <1>2, <1>3, <1>4, <1>5, IngestMoves DEF Finished

\* What is published is the decision of an ingestion that has read, and ends it.
LEMMA PublisherRead ==
    ASSUME OInv, DInv, [OpenNext]_vars
    PROVE  \/ UNCHANGED published
           \/ \E i \in Ingests, d \in Decision :
                 /\ HasRead(i) /\ ingests[i].pc \in Waiting \ { "queued" }
                 /\ ingests'[i].pc \in Finished
                 /\ d.session = ingests[i].session /\ d.events = EventsRead(i)
                 /\ ingests[i].session \in Sessions
                 /\ published' = Append(published, d)
<1>0. /\ OrchTypes
      /\ ingests \in [Ingests -> Idle \cup Admitted \cup Evaluating \cup Narrating]
  BY DEF OInv, OrchTypes
<1>1. ASSUME NEW i \in Ingests, DecideOn(i), DecisionOf(i).alert = "none",
             published' = Append(published, DecisionOf(i))
      PROVE  \E d \in Decision :
                 /\ HasRead(i) /\ ingests[i].pc \in Waiting \ { "queued" }
                 /\ ingests'[i].pc \in Finished
                 /\ d.session = ingests[i].session /\ d.events = EventsRead(i)
                 /\ ingests[i].session \in Sessions
                 /\ published' = Append(published, d)
  <2>1. ingests[i].pc = "evaluating" /\ calls[i].result \in LifecycleSessionRecord
    BY <1>1, AnsweredType DEF DecideOn
  <2>2. /\ DecisionOf(i) \in Decision /\ DecisionOf(i).session = ingests[i].session
        /\ ingests[i].session \in Sessions /\ DecisionOf(i).events = ingests[i].events
    BY <1>0, <2>1, DecisionType
  <2>3. ingests'[i] = [pc |-> "done"]
    BY <1>0, <1>1 DEF DecideOn, End
  <2> QED
    BY <1>1, <2>1, <2>2, <2>3 DEF HasRead, EventsRead, Waiting, Finished
<1>2. ASSUME NEW i \in Ingests, Publish(i), published' = Append(published, ingests[i].decision)
      PROVE  \E d \in Decision :
                 /\ HasRead(i) /\ ingests[i].pc \in Waiting \ { "queued" }
                 /\ ingests'[i].pc \in Finished
                 /\ d.session = ingests[i].session /\ d.events = EventsRead(i)
                 /\ ingests[i].session \in Sessions
                 /\ published' = Append(published, d)
  <2>1. ingests[i].pc = "narrating" /\ ingests[i] \in Narrating
    BY <1>0, <1>2, IngestByPc DEF Publish
  <2>2. ingests[i].decision \in Decision /\ ingests[i].decision.session = ingests[i].session
        /\ ingests[i].session \in Sessions
    BY <2>1 DEF Narrating, DInv
  <2>3. ingests'[i] = [pc |-> "done"]
    BY <1>0, <1>2 DEF Publish, End
  <2> QED
    BY <1>2, <2>1, <2>2, <2>3 DEF HasRead, EventsRead, Waiting, Finished
<1> QED
  BY <1>1, <1>2, PublishedMoves

\* Every step keeps decisions informed.
LEMMA InformedKept ==
    ASSUME OInv, DInv, Informed, [OpenNext]_vars
    PROVE  Informed'
<1>0. OrchTypes /\ Turns /\ Len(published) \in Nat
      /\ \A k \in 1..Len(published) : published[k] \in Decision
  BY DEF OInv, OrchTypes
<1>1. ASSUME NEW i \in Ingests, HasRead(i)'
      PROVE  ToSet(EventsRead(i)') \subseteq ToSet(ledger'[ingests'[i].session])
  <2>1. /\ ingests[i].session \in Sessions /\ ingests'[i].session = ingests[i].session
        /\ \/ HasRead(i) /\ EventsRead(i)' = EventsRead(i)
           \/ EventsRead(i)' = ledger[ingests[i].session]
    BY <1>1, ReadMoves
  <2>2. ToSet(EventsRead(i)') \subseteq ToSet(ledger[ingests[i].session])
    BY <2>1 DEF Informed
  <2> QED
    BY <2>1, <2>2, LedgerGrows
<1>2. ASSUME NEW k \in 1..Len(published')
      PROVE  ToSet(published'[k].events) \subseteq ToSet(ledger'[published'[k].session])
  <2>1. ASSUME k \in 1..Len(published), published'[k] = published[k]
        PROVE  ToSet(published'[k].events) \subseteq ToSet(ledger'[published'[k].session])
    <3>1. published[k].session \in Sessions
      BY <1>0, <2>1 DEF Decision
    <3>2. ToSet(published[k].events) \subseteq ToSet(ledger[published[k].session])
      BY <2>1 DEF Informed
    <3> QED
      BY <2>1, <3>1, <3>2, LedgerGrows
  <2>2. ASSUME NEW i \in Ingests, NEW d \in Decision, HasRead(i), d.session = ingests[i].session,
               d.events = EventsRead(i), ingests[i].session \in Sessions,
               published' = Append(published, d)
        PROVE  ToSet(published'[k].events) \subseteq ToSet(ledger'[published'[k].session])
    <3>1. CASE k \in 1..Len(published)
      BY <1>0, <2>1, <2>2, <3>1, OneMore
    <3>2. CASE k = Len(published) + 1
      <4>1. published'[k] = d
        BY <1>0, <2>2, <3>2, OneMore
      <4>2. ToSet(d.events) \subseteq ToSet(ledger[d.session])
        BY <2>2 DEF Informed
      <4> QED
        BY <2>2, <4>1, <4>2, LedgerGrows
    <3> QED
      BY <1>0, <1>2, <2>2, <3>1, <3>2, OneMore
  <2> QED
    BY <1>2, <2>1, <2>2, PublisherRead
<1>3. ASSUME NEW i \in Ingests, NEW k \in 1..Len(published'), HasRead(i)',
             published'[k].session = ingests'[i].session
      PROVE  ToSet(published'[k].events) \subseteq ToSet(EventsRead(i)')
  <2>1. /\ ingests[i].session \in Sessions /\ ingests'[i].session = ingests[i].session
        /\ ingests[i].pc \in Waiting \ { "queued" }
        /\ \/ HasRead(i) /\ EventsRead(i)' = EventsRead(i)
           \/ EventsRead(i)' = ledger[ingests[i].session] /\ UNCHANGED published
    BY <1>3, ReadMoves
  <2>2. CASE UNCHANGED published
    <3>1. CASE HasRead(i) /\ EventsRead(i)' = EventsRead(i)
      BY <1>3, <2>1, <2>2, <3>1 DEF Informed
    <3>2. CASE EventsRead(i)' = ledger[ingests[i].session]
      BY <1>3, <2>1, <2>2, <3>2 DEF Informed
    <3> QED
      BY <2>1, <3>1, <3>2
  <2>3. ASSUME NEW j \in Ingests, NEW d \in Decision,
               ingests[j].pc \in Waiting \ { "queued" }, ingests'[j].pc \in Finished,
               d.session = ingests[j].session, published' = Append(published, d),
               HasRead(i), EventsRead(i)' = EventsRead(i)
        PROVE  ToSet(published'[k].events) \subseteq ToSet(EventsRead(i)')
    <3>1. i # j
      BY <1>3, <2>3 DEF HasRead, Finished
    <3>2. ingests[i].session # ingests[j].session
      BY <1>0, <2>1, <2>3, <3>1, OneAtWork
    <3>3. k \in 1..Len(published) /\ published'[k] = published[k]
      BY <1>0, <1>3, <2>1, <2>3, <3>2, OneMore
    <3> QED
      BY <1>3, <2>1, <2>3, <3>3 DEF Informed
  <2>4. CASE HasRead(i) /\ EventsRead(i)' = EventsRead(i)
    <3> SUFFICES ToSet(published'[k].events) \subseteq ToSet(EventsRead(i)')
      OBVIOUS
    <3> QED
      BY <2>2, <2>3, <2>4, PublisherRead
  <2> QED
    BY <2>1, <2>2, <2>4
<1>4. ASSUME NEW j \in 1..Len(published'), NEW k \in 1..Len(published'), j < k,
             published'[j].session = published'[k].session
      PROVE  ToSet(published'[j].events) \subseteq ToSet(published'[k].events)
  <2>1. CASE UNCHANGED published
    BY <1>4, <2>1 DEF Informed
  <2>2. ASSUME NEW i \in Ingests, NEW d \in Decision, HasRead(i), d.session = ingests[i].session,
               d.events = EventsRead(i), published' = Append(published, d)
        PROVE  ToSet(published'[j].events) \subseteq ToSet(published'[k].events)
    <3>1. j \in 1..Len(published) /\ published'[j] = published[j]
      <4>1. j # Len(published) + 1
        BY <1>0, <1>4, <2>2, OneMore
      <4> QED
        BY <1>0, <2>2, <4>1, OneMore
    <3>2. CASE k \in 1..Len(published)
      <4>1. published'[k] = published[k]
        BY <1>0, <2>2, <3>2, OneMore
      <4> QED
        BY <1>4, <3>1, <3>2, <4>1 DEF Informed
    <3>3. CASE k = Len(published) + 1
      <4>1. published'[k] = d
        BY <1>0, <2>2, <3>3, OneMore
      <4> QED
        BY <1>4, <2>2, <3>1, <4>1 DEF Informed
    <3> QED
      BY <1>0, <2>2, <3>2, <3>3, OneMore
  <2> QED
    BY <2>1, <2>2, PublisherRead
<1> QED
  BY <1>1, <1>2, <1>3, <1>4 DEF Informed

\* Every step keeps the batches apart.
LEMMA UnmixedKept ==
    ASSUME OInv, Unmixed, [OpenNext]_vars
    PROVE  Unmixed'
<1>0. /\ OrchTypes /\ Turns
      /\ ingests \in [Ingests -> Idle \cup Admitted \cup Evaluating \cup Narrating]
  BY DEF OInv, OrchTypes
<1>1. ASSUME NEW i \in Ingests, ingests'[i].pc \in { "new", "queued" }
      PROVE  ingests[i].pc \in { "new", "queued" }
  <2>1. CASE ingests'[i] = ingests[i]
    BY <1>1, <2>1
  <2>2. CASE Start(i) \/ AppendNext(i) \/ AllAppended(i)
    <3>1. ingests[i].pc \in { "queued", "appending" } /\ ingests[i] \in Admitted
      BY <1>0, <2>2, IngestByPc DEF Start, AppendNext, AllAppended
    <3>2. CASE AppendNext(i)
      <4>1. ingests'[i] = [ingests[i] EXCEPT !.appended = @ + 1] /\ ingests[i].pc = "appending"
        BY <1>0, <3>2 DEF AppendNext
      <4>2. ingests'[i].pc = "appending"
        BY <3>1, <4>1 DEF Admitted
      <4> QED
        BY <1>1, <4>2
    <3>3. CASE Start(i) \/ AllAppended(i)
      <4>1. ingests'[i] \in { [ingests[i] EXCEPT !.pc = "appending"], [ingests[i] EXCEPT !.pc = "listing"] }
        BY <1>0, <3>3 DEF Start, AllAppended
      <4>2. ingests'[i].pc \in { "appending", "listing" }
        BY <3>1, <4>1 DEF Admitted
      <4> QED
        BY <1>1, <4>2
    <3> QED
      BY <2>2, <3>2, <3>3
  <2>3. CASE \E s \in Sessions, batch \in AnyBatch, now \in Nows : Enqueue(i, s, batch, now)
    BY <2>3 DEF Enqueue
  <2>4. CASE \E score \in Scores : Score(i, score)
    BY <1>0, <1>1, <2>4 DEF Score
  <2>5. CASE DecideOn(i) /\ DecisionOf(i).alert # "none"
    BY <1>0, <1>1, <2>5 DEF DecideOn
  <2> QED
    BY <1>1, <2>1, <2>2, <2>3, <2>4, <2>5, IngestMoves DEF Finished
<1>2. ASSUME NEW i \in Ingests, ingests'[i].pc = "appending"
      PROVE  /\ ingests'[i].session = ingests[i].session /\ ingests[i].session \in Sessions
             /\ \/ ingests[i].pc = "appending"
                \/ ingests[i].pc = "queued" /\ UNCHANGED ledger
  <2>1. CASE ingests'[i] = ingests[i]
    BY <1>0, <1>2, <2>1, IngestByPc DEF Admitted
  <2>2. CASE Start(i) \/ AppendNext(i) \/ AllAppended(i)
    <3>1. ingests[i].pc \in { "queued", "appending" } /\ ingests[i] \in Admitted
      BY <1>0, <2>2, IngestByPc DEF Start, AppendNext, AllAppended
    <3>2. ingests'[i] \in { [ingests[i] EXCEPT !.pc = "appending"], [ingests[i] EXCEPT !.pc = "listing"],
                            [ingests[i] EXCEPT !.appended = @ + 1] }
      BY <1>0, <2>2 DEF Start, AppendNext, AllAppended
    <3>3. ingests'[i].session = ingests[i].session /\ ingests[i].session \in Sessions
      BY <3>1, <3>2 DEF Admitted
    <3>4. ingests[i].pc = "queued" => UNCHANGED ledger
      BY <2>2 DEF Start, AppendNext, AllAppended
    <3> QED
      BY <3>1, <3>3, <3>4
  <2>3. CASE \E s \in Sessions, batch \in AnyBatch, now \in Nows : Enqueue(i, s, batch, now)
    BY <1>0, <1>2, <2>3 DEF Enqueue
  <2>4. CASE \E score \in Scores : Score(i, score)
    BY <1>0, <1>2, <2>4 DEF Score
  <2>5. CASE DecideOn(i) /\ DecisionOf(i).alert # "none"
    BY <1>0, <1>2, <2>5 DEF DecideOn
  <2> QED
    BY <1>2, <2>1, <2>2, <2>3, <2>4, <2>5, IngestMoves DEF Finished
<1>3. CASE UNCHANGED ledger
  <2>1. \A i \in Ingests : ingests'[i].pc \in { "new", "queued" } =>
           \A s \in Sessions : \A a \in 1..Len(ledger[s]) : ledger[s][a].ingest # i
    BY <1>1 DEF Unmixed
  <2>2. ASSUME NEW i \in Ingests, ingests'[i].pc = "appending",
               NEW a \in 1..Len(ledger[ingests'[i].session]), NEW b \in 1..Len(ledger[ingests'[i].session]),
               a <= b, ledger[ingests'[i].session][a].ingest = i
        PROVE  ledger[ingests'[i].session][b].ingest = i
    BY <1>2, <2>2 DEF Unmixed
  <2> QED
    BY <1>3, <2>1, <2>2 DEF Unmixed
<1>4. ASSUME NEW j \in Ingests, Appends(j) PROVE Unmixed'
  <2>1. PICK s \in Sessions : s = ingests[j].session
    BY <1>4, LedgerEntries
  <2> DEFINE n == Len(ledger[s])
  <2>2. /\ \A t \in Sessions : t # s => ledger'[t] = ledger[t]
        /\ n \in Nat /\ Len(ledger'[s]) = n + 1
        /\ ledger'[s][n + 1] = NextEvent(j)
        /\ \A k \in 1..n : ledger'[s][k] = ledger[s][k]
    BY <1>4, <2>1, LedgerEntries
  <2>3. ingests[j].pc = "appending" /\ NextEvent(j).ingest = j
    BY <1>0, <1>4, NextEventType DEF Appends
  <2>4. ASSUME NEW i \in Ingests, ingests'[i].pc \in { "new", "queued" }, NEW t \in Sessions,
               NEW a \in 1..Len(ledger'[t])
        PROVE  ledger'[t][a].ingest # i
    <3>1. ingests[i].pc \in { "new", "queued" } /\ i # j
      BY <1>1, <2>3, <2>4
    <3>2. \A k \in 1..Len(ledger[t]) : ledger[t][k].ingest # i
      BY <3>1 DEF Unmixed
    <3>3. CASE t = s
      BY <2>2, <2>3, <2>4, <3>1, <3>2, <3>3
    <3>4. CASE t # s
      BY <2>2, <2>4, <3>2, <3>4
    <3> QED
      BY <3>3, <3>4
  <2>5. \A a, b \in 1..n : a <= b /\ ledger[s][a].ingest = j => ledger[s][b].ingest = j
    BY <2>1, <2>3 DEF Unmixed
  <2>6. ASSUME NEW i \in Ingests, ingests'[i].pc = "appending",
               NEW a \in 1..Len(ledger'[ingests'[i].session]), NEW b \in 1..Len(ledger'[ingests'[i].session]),
               a <= b, ledger'[ingests'[i].session][a].ingest = i
        PROVE  ledger'[ingests'[i].session][b].ingest = i
    <3>1. PICK t \in Sessions : t = ingests'[i].session /\ t = ingests[i].session
      BY <1>2, <2>6
    <3>2. CASE ingests[i].pc = "queued" /\ UNCHANGED ledger
      <4>1. n = n + 1
        BY <2>2, <3>2
      <4> QED
        BY <2>2, <4>1
    <3>3. CASE ingests[i].pc = "appending" /\ t # s
      BY <2>2, <2>6, <3>1, <3>3 DEF Unmixed
    <3>4. CASE ingests[i].pc = "appending" /\ t = s
      <4>1. i = j
        BY <1>0, <2>1, <2>3, <3>1, <3>4, OneAtWork DEF Waiting
      <4>2. a \in 1..n + 1 /\ b \in 1..n + 1 /\ ledger'[s][a].ingest = j
        BY <2>2, <2>6, <3>1, <3>4, <4>1
      <4>3. ledger'[s][b].ingest = j
        <5>1. CASE b = n + 1
          BY <2>2, <2>3, <5>1
        <5>2. CASE b # n + 1
          <6>1. a \in 1..n /\ b \in 1..n
            BY <2>2, <2>6, <4>2, <5>2
          <6> QED
            BY <2>2, <2>5, <2>6, <4>2, <6>1
        <5> QED
          BY <5>1, <5>2
      <4> QED
        BY <3>1, <3>4, <4>1, <4>3
    <3> QED
      BY <1>2, <2>6, <3>1, <3>2, <3>3, <3>4
  <2>7. ASSUME NEW t \in Sessions, NEW a \in 1..Len(ledger'[t]), NEW b \in 1..Len(ledger'[t]),
               NEW c \in 1..Len(ledger'[t]), a < b, b < c,
               ledger'[t][a].ingest = ledger'[t][c].ingest
        PROVE  ledger'[t][b].ingest = ledger'[t][a].ingest
    <3>1. CASE t # s
      BY <2>2, <2>7, <3>1, SMTT(20) DEF Unmixed
    <3>2. CASE t = s
      <4>1. a \in 1..n /\ b \in 1..n /\ c \in 1..n + 1
        BY <2>2, <2>7, <3>2
      <4>2. CASE c = n + 1
        <5>1. ledger[s][a].ingest = j /\ ledger'[s][a] = ledger[s][a] /\ ledger'[s][b] = ledger[s][b]
          BY <2>2, <2>3, <2>7, <3>2, <4>1, <4>2
        <5> QED
          BY <2>5, <2>7, <3>2, <4>1, <5>1
      <4>3. CASE c # n + 1
        <5>1. c \in 1..n
          BY <2>2, <4>1, <4>3
        <5>2. /\ ledger'[s][a] = ledger[s][a] /\ ledger'[s][b] = ledger[s][b]
              /\ ledger'[s][c] = ledger[s][c]
          BY <2>2, <4>1, <5>1
        <5> QED
          BY <2>7, <3>2, <4>1, <5>1, <5>2 DEF Unmixed
      <4> QED
        BY <4>2, <4>3
    <3> QED
      BY <3>1, <3>2
  <2> QED
    BY <2>4, <2>6, <2>7 DEF Unmixed
<1> QED
  BY <1>3, <1>4, LedgerMoves

\* The ledger is empty at first.
LEMMA InitialLedger == Init => LInv
<1> SUFFICES ASSUME Init PROVE LInv
  OBVIOUS
<1>1. (\A i \in Ingests : ingests[i].pc = "new") /\ Len(published) = 0
      /\ \A s \in Sessions : Len(ledger[s]) = 0
  BY DEF Init
<1> QED
  BY <1>1 DEF LInv, Informed, Unmixed, HasRead

\* What was read stays in the ledger in every reachable state.
LEMMA LedgerInvariance == Spec => [](OInv /\ DInv /\ LInv)
<1>1. OInv /\ DInv /\ LInv /\ [OpenNext]_vars => LInv'
  BY InformedKept, UnmixedKept DEF LInv
<1> QED
  BY <1>1, InitialOrch, InitialDecisions, InitialLedger, NextOrch, NextDecisions, NextIsOpen, PTL DEF Spec

\* Later decisions of a session know all that the earlier ones knew, and the
\* batches of two ingestions never mix in the ledger: what the session lock is
\* for, however many ingestions wait and whichever of them fail.
THEOREM DecisionsFollow == Spec => []DecisionsFollowTheLedger
<1>1. OInv /\ LInv => DecisionsFollowTheLedger
  <2> SUFFICES ASSUME OInv, LInv PROVE DecisionsFollowTheLedger
    OBVIOUS
  <2>1. DOMAIN published = 1..Len(published) /\ \A s \in Sessions : DOMAIN ledger[s] = 1..Len(ledger[s])
    BY DEF OInv, OrchTypes
  <2>2. \A j, k \in DOMAIN published :
            j < k /\ published[j].session = published[k].session =>
                ToSet(published[j].events) \subseteq ToSet(published[k].events)
    BY <2>1 DEF LInv, Informed
  <2>3. ASSUME NEW s \in Sessions
        PROVE  \A a, b, c \in DOMAIN ledger[s] :
                   a < b /\ b < c /\ ledger[s][a].ingest = ledger[s][c].ingest =>
                       ledger[s][b].ingest = ledger[s][a].ingest
    <3>1. DOMAIN ledger[s] = 1..Len(ledger[s])
      BY <2>1
    <3> QED
      BY <3>1 DEF LInv, Unmixed
  <2> QED
    BY <2>2, <2>3 DEF DecisionsFollowTheLedger
<1> QED
  BY <1>1, LedgerInvariance, PTL

-----------------------------------------------------------------------------
(* Urgent alerts and the table *)

\* What a step may do to the table: one row more, or nothing.
LEMMA TableMoves ==
    ASSUME OrchTypes, [OpenNext]_vars
    PROVE  \/ UNCHANGED snapshots
           \/ \E c \in Calls : /\ calls[c].pc \in { "saving", "orphaned" }
                               /\ Insert(calls[c].session, calls[c].sequence, RowOf(c))
<1>1. \A c \in Calls : CallStep(c) \/ Settle(c) =>
          \/ UNCHANGED snapshots
          \/ /\ calls[c].pc \in { "saving", "orphaned" }
             /\ Insert(calls[c].session, calls[c].sequence, RowOf(c))
  BY DEF CallStep, LoadLatest, Restore, Act, Save, Advance, Fail, LoseReply, OrphanSave, Settle
<1> QED
  BY <1>1, StoreView DEF StoreMoves, Begin, Crash

\* The last row of a session is continued by the last row after any step, and
\* is the same row if it has the same number.
LEMMA FileGrows ==
    ASSUME OInv, TInv, [OpenNext]_vars, NEW s \in Sessions
    PROVE  /\ LatestRecord(s) \in MaybeRecord /\ LatestRecord(s)' \in MaybeRecord
           /\ Continues(LatestRecord(s)', LatestRecord(s))
           /\ LatestSequence(s) \in Nat \cup {-1}
           /\ \/ LatestSequence(s)' = LatestSequence(s) /\ LatestRecord(s)' = LatestRecord(s)
              \/ LatestSequence(s)' = LatestSequence(s) + 1
<1>1. NInv /\ NInv' /\ OrchTypes
  BY NextOrch DEF OInv
<1>2. /\ LatestRecord(s) \in MaybeRecord /\ LatestRecord(s)' \in MaybeRecord
      /\ LatestSequence(s) \in Nat \cup {-1}
  <2>1. Gapless(snapshots[s], LatestSequence(s)) /\ Gapless(snapshots'[s], LatestSequence(s)')
    BY <1>1 DEF NInv
  <2>2. LatestRecord(s)' \in MaybeRecord
    <3>1. LatestSequence(s)' \in Nat \cup {-1} /\ DOMAIN snapshots'[s] = 0..LatestSequence(s)'
      BY <2>1 DEF Gapless
    <3>2. \A q \in 0..LatestSequence(s)' : snapshots'[s][q].record \in LifecycleSessionRecord
      BY <2>1 DEF Gapless, Row
    <3>3. CASE LatestSequence(s)' = -1
      <4>1. DOMAIN snapshots'[s] = {}
        BY <3>1, <3>3
      <4> QED
        BY <4>1 DEF LatestRecord, MaybeRecord
    <3>4. CASE LatestSequence(s)' # -1
      <4>1. LatestSequence(s)' \in 0..LatestSequence(s)'
        BY <3>1, <3>4
      <4> QED
        BY <3>2, <4>1 DEF LatestRecord, MaybeRecord
    <3> QED
      BY <3>3, <3>4
  <2> QED
    BY <2>1, <2>2, LatestIsRecord
<1>3. CASE UNCHANGED snapshots
  <2>1. LatestRecord(s)' = LatestRecord(s) /\ LatestSequence(s)' = LatestSequence(s)
    BY <1>3, SameRows
  <2> QED
    BY <1>2, <2>1, ContinuesReflexive
<1>4. ASSUME NEW c \in Calls, calls[c].pc \in { "saving", "orphaned" },
             Insert(calls[c].session, calls[c].sequence, RowOf(c))
      PROVE  /\ Continues(LatestRecord(s)', LatestRecord(s))
             /\ \/ LatestSequence(s)' = LatestSequence(s) /\ LatestRecord(s)' = LatestRecord(s)
                \/ LatestSequence(s)' = LatestSequence(s) + 1
  <2>1. Continues(LatestRecord(s)', LatestRecord(s))
    BY <1>1, <1>4, InsertGrows
  <2>2. PICK t \in Sessions : t = calls[c].session
    BY <1>1, <1>4, Begun DEF CallRecord, NInv
  <2>3. /\ calls[c].sequence = LatestSequence(t) + 1
        /\ LatestSequence(t)' = calls[c].sequence
        /\ \A u \in Sessions \ {t} : snapshots'[u] = snapshots[u]
    BY <1>1, <1>4, <2>2, CallAddsRow
  <2>4. CASE s = t
    BY <2>1, <2>3, <2>4
  <2>5. CASE s # t
    BY <2>1, <2>3, <2>5, SameRows
  <2> QED
    BY <2>4, <2>5
<1> QED
  BY <1>1, <1>2, <1>3, <1>4, TableMoves

\* What is on file stays on file.
LEMMA StaysOnFile ==
    ASSUME OInv, TInv, [OpenNext]_vars, NEW s \in Sessions, NEW record \in LifecycleSessionRecord,
           Continues(LatestRecord(s), record)
    PROVE  Continues(LatestRecord(s)', record)
BY FileGrows, ContinuesTransitive DEF MaybeRecord

\* A call that has returned from a save had returned before, or hears now of
\* its row.
LEMMA CallReturns ==
    ASSUME OInv, [OpenNext]_vars, NEW c \in Calls, calls'[c].pc = "returned", calls'[c].sequence # -1
    PROVE  \/ calls'[c] = calls[c]
           \/ /\ calls[c].pc = "saved" /\ UNCHANGED snapshots
              /\ calls'[c].session = calls[c].session /\ calls'[c].result = calls[c].result
              /\ calls'[c].sequence = calls[c].sequence /\ calls'[c].op = calls[c].op
<1>0. NInv /\ OrchTypes /\ calls \in [Calls -> CallRecord \cup {NoCall}]
  BY DEF OInv, NInv, Types
<1>1. CASE UNCHANGED << memory, recovered, nextSequence, snapshots, calls, acknowledged >>
  BY <1>1
<1>2. ASSUME NEW d \in Calls, NEW s \in Sessions, NEW op \in Evaluations \cup Overrides,
             Begin(d, s, op)
      PROVE  calls'[c] = calls[c]
  <2>1. PICK pc \in { "acting", "loading" } :
            calls' = [calls EXCEPT ![d] = [pc |-> pc, session |-> s, op |-> op, loaded |-> NoRecord,
                                           result |-> NoRecord, sequence |-> -1]]
    BY <1>2 DEF Begin
  <2>2. c # d
    BY <1>0, <2>1
  <2> QED
    BY <1>0, <2>1, <2>2
<1>3. ASSUME NEW d \in Calls, CallStep(d), c # d PROVE calls'[c] = calls[c]
  BY <1>0, <1>3, CallStepShape DEF OInv
<1>4. ASSUME CallStep(c)
      PROVE  /\ calls[c].pc = "saved" /\ UNCHANGED snapshots
             /\ calls'[c].session = calls[c].session /\ calls'[c].result = calls[c].result
             /\ calls'[c].sequence = calls[c].sequence /\ calls'[c].op = calls[c].op
  <2>0. calls[c] \in CallRecord
    BY <1>0, <1>4, Begun DEF CallStep, LoadLatest, Restore, Act, Save, Advance, Fail, LoseReply,
                             OrphanSave, NInv
  <2>1. CASE Advance(c)
    <3>1. calls'[c] = [calls[c] EXCEPT !.pc = "returned"] /\ calls[c].pc = "saved" /\ UNCHANGED snapshots
      BY <1>0, <2>1 DEF Advance, Goto
    <3> QED
      BY <2>0, <3>1 DEF CallRecord
  <2>2. CASE Act(c)
    <3> DEFINE outcome  == Outcome(calls[c].session, calls[c].op)
               pc       == IF outcome.transitioned THEN "saving" ELSE "returned"
               sequence == IF outcome.transitioned THEN nextSequence[calls[c].session] ELSE -1
    <3>1. /\ calls'[c] = [calls[c] EXCEPT !.pc = pc, !.result = outcome.record, !.sequence = sequence]
          /\ pc \in { "saving", "returned" } /\ (pc = "returned" => sequence = -1)
      BY <1>0, <2>2 DEF Act
    <3> HIDE DEF outcome, pc, sequence
    <3>2. calls'[c].pc = pc /\ calls'[c].sequence = sequence
      BY <2>0, <3>1 DEF CallRecord
    <3> QED
      BY <3>1, <3>2
  <2>3. CASE LoadLatest(c) \/ Restore(c)
    <3>1. \/ calls'[c] = [calls[c] EXCEPT !.pc = "restoring",
                                          !.loaded = LatestRecord(calls[c].session),
                                          !.sequence = LatestSequence(calls[c].session)]
          \/ calls'[c] = [calls[c] EXCEPT !.pc = "acting", !.loaded = NoRecord, !.sequence = -1]
      BY <1>0, <2>3 DEF LoadLatest, Restore
    <3>2. calls'[c].pc # "returned"
      BY <2>0, <3>1 DEF CallRecord
    <3> QED
      BY <3>2
  <2>4. CASE Save(c) \/ Fail(c) \/ LoseReply(c)
    <3>1. PICK pc \in { "saved", "failed", "collided" } : calls'[c] = [calls[c] EXCEPT !.pc = pc]
      BY <1>0, <2>4 DEF Save, Fail, LoseReply, Goto
    <3>2. calls'[c].pc = pc
      BY <2>0, <3>1 DEF CallRecord
    <3> QED
      BY <3>2
  <2>5. CASE OrphanSave(c)
    BY <1>0, <2>5 DEF OrphanSave, NoCall
  <2> QED
    BY <1>4, <2>1, <2>2, <2>3, <2>4, <2>5 DEF CallStep
<1>5. ASSUME NEW d \in Calls, Settle(d) PROVE calls'[c] = calls[c]
  BY <1>0, <1>5 DEF Settle, NoCall
<1>6. ASSUME NEW orphans \in SUBSET Calls, Crash(orphans) PROVE FALSE
  <2>1. calls'[c] = IF c \in orphans THEN [calls[c] EXCEPT !.pc = "orphaned"]
                    ELSE IF calls[c].pc = "orphaned" THEN calls[c] ELSE NoCall
    BY <1>6 DEF Crash
  <2>2. CASE c \in orphans
    <3>1. calls[c] \in CallRecord
      BY <1>0, <1>6, <2>2, Begun DEF Crash, NInv
    <3>2. calls'[c].pc = "orphaned"
      BY <2>1, <2>2, <3>1 DEF CallRecord
    <3> QED
      BY <3>2
  <2>3. CASE c \notin orphans
    BY <2>1, <2>3 DEF NoCall
  <2> QED
    BY <2>2, <2>3
<1> QED
  BY <1>0, <1>1, <1>2, <1>3, <1>4, <1>5, <1>6, StoreView DEF StoreMoves

\* Who narrates has narrated before, or decides now.
LEMMA NarratingMoves ==
    ASSUME OInv, DInv, [OpenNext]_vars, NEW i \in Ingests, ingests'[i].pc = "narrating"
    PROVE  /\ ingests[i].session \in Sessions /\ ingests'[i].session = ingests[i].session
           /\ ingests[i].pc \in Waiting \ { "queued" }
           /\ \/ ingests'[i] = ingests[i]
              \/ /\ DecideOn(i) /\ UNCHANGED << published, snapshots >>
                 /\ ingests'[i].decision = DecisionOf(i)
<1>0. /\ OrchTypes
      /\ ingests \in [Ingests -> Idle \cup Admitted \cup Evaluating \cup Narrating]
  BY DEF OInv, OrchTypes
<1>1. /\ ingests[i].session \in Sessions /\ ingests'[i].session = ingests[i].session
      /\ ingests[i].pc \in Waiting \ { "queued" }
  BY ReadMoves DEF HasRead
<1>2. CASE Start(i) \/ AppendNext(i) \/ AllAppended(i)
  <2>1. ingests[i].pc \in { "queued", "appending" } /\ ingests[i] \in Admitted
    BY <1>0, <1>2, IngestByPc DEF Start, AppendNext, AllAppended
  <2>2. ingests'[i] \in { [ingests[i] EXCEPT !.pc = "appending"], [ingests[i] EXCEPT !.pc = "listing"],
                          [ingests[i] EXCEPT !.appended = @ + 1] }
    BY <1>0, <1>2 DEF Start, AppendNext, AllAppended
  <2>3. ingests'[i].pc # "narrating"
    BY <2>1, <2>2 DEF Admitted
  <2> QED
    BY <2>3
<1>3. CASE \E score \in Scores : Score(i, score)
  BY <1>0, <1>3 DEF Score
<1>4. CASE DecideOn(i) /\ DecisionOf(i).alert # "none"
  BY <1>0, <1>1, <1>4 DEF DecideOn
<1>5. CASE \E s \in Sessions, batch \in AnyBatch, now \in Nows : Enqueue(i, s, batch, now)
  BY <1>0, <1>5 DEF Enqueue
<1> QED
  BY <1>1, <1>2, <1>3, <1>4, <1>5, IngestMoves DEF Finished

\* Every step keeps on file what was announced.
LEMMA NextOnFile ==
    ASSUME OInv, DInv, TInv, FInv, [OpenNext]_vars
    PROVE  FInv'
<1>0. /\ OrchTypes /\ NInv /\ \A k \in 1..Len(published) : published[k] \in Decision
      /\ \A i \in Ingests : ingests[i].pc = "narrating" => ingests[i] \in Narrating
      /\ calls \in [Calls -> CallRecord \cup {NoCall}]
  BY IngestByPc DEF OInv, OrchTypes, NInv, Types
<1>1. ASSUME NEW c \in Calls, NEW s \in Sessions, calls'[c].pc = "returned",
             calls'[c].sequence # -1, calls'[c].session = s
      PROVE  Continues(LatestRecord(s)', calls'[c].result)
  <2>1. CASE calls'[c] = calls[c]
    <3>1. Continues(LatestRecord(s), calls[c].result) /\ calls[c].result \in LifecycleSessionRecord
      BY <1>1, <2>1 DEF FInv, OInv, Reasoned
    <3>2. Continues(LatestRecord(s)', calls[c].result)
      BY <3>1, StaysOnFile
    <3> QED
      BY <2>1, <3>2
  <2>2. CASE /\ calls[c].pc = "saved" /\ UNCHANGED snapshots
             /\ calls'[c].session = calls[c].session /\ calls'[c].result = calls[c].result
    <3>1. calls[c] # NoCall
      BY <2>2 DEF NoCall
    <3>2. Continues(LatestRecord(s), calls[c].result)
      BY <1>1, <2>2, <3>1 DEF TInv, Faithful
    <3>3. LatestRecord(s)' = LatestRecord(s)
      BY <2>2, SameRows
    <3> QED
      BY <2>2, <3>2, <3>3
  <2> QED
    BY <1>1, <2>1, <2>2, CallReturns
<1>2. ASSUME NEW i \in Ingests, NEW s \in Sessions, ingests'[i].pc = "narrating",
             ingests'[i].session = s, ingests'[i].decision.alert = "disqualified"
      PROVE  Continues(LatestRecord(s)', ingests'[i].decision.record)
  <2>1. s = ingests[i].session
    BY <1>2, NarratingMoves
  <2>2. CASE ingests'[i] = ingests[i]
    <3>1. ingests[i].decision.record \in LifecycleSessionRecord
      BY <1>0, <1>2, <2>2 DEF Narrating, Decision
    <3>2. Continues(LatestRecord(s), ingests[i].decision.record)
      BY <1>2, <2>1, <2>2 DEF FInv
    <3>3. Continues(LatestRecord(s)', ingests[i].decision.record)
      BY <3>1, <3>2, StaysOnFile
    <3> QED
      BY <2>2, <3>3
  <2>3. CASE /\ DecideOn(i) /\ UNCHANGED << published, snapshots >>
             /\ ingests'[i].decision = DecisionOf(i)
    <3>1. /\ ingests[i].pc = "evaluating" /\ calls[i].pc = "returned"
          /\ calls[i].result \in LifecycleSessionRecord
      BY <2>3, AnsweredType DEF DecideOn
    <3>2. /\ DecisionOf(i).record = calls[i].result
          /\ DecisionOf(i).transitioned = (calls[i].sequence # -1)
      BY <1>0, <3>1, DecisionType
    <3>3. DecisionOf(i).transitioned
      BY <1>2, <2>3, DecisionIsCoherent DEF Coherent
    <3>4. calls[i].session = s /\ i \in Calls
      BY <2>1, <3>1, IngestsAssumption DEF OInv, Linked
    <3>5. Continues(LatestRecord(s), calls[i].result)
      BY <3>1, <3>2, <3>3, <3>4 DEF FInv
    <3>6. LatestRecord(s)' = LatestRecord(s)
      BY <2>3, SameRows
    <3> QED
      BY <2>3, <3>2, <3>5, <3>6
  <2> QED
    BY <1>2, <2>2, <2>3, NarratingMoves
<1>3. ASSUME NEW k \in 1..Len(published'), NEW s \in Sessions, published'[k].session = s,
             published'[k].alert = "disqualified"
      PROVE  Continues(LatestRecord(s)', published'[k].record)
  <2>1. ASSUME NEW d \in Decision, Continues(LatestRecord(s), d.record)
        PROVE  Continues(LatestRecord(s)', d.record)
    BY <2>1, StaysOnFile DEF Decision
  <2>2. ASSUME k \in 1..Len(published), published'[k] = published[k]
        PROVE  Continues(LatestRecord(s)', published'[k].record)
    <3>1. Continues(LatestRecord(s), published[k].record)
      BY <1>3, <2>2 DEF FInv
    <3>2. published[k] \in Decision
      BY <1>0, <2>2
    <3> QED
      BY <2>1, <2>2, <3>1, <3>2
  <2>3. CASE UNCHANGED published
    BY <1>3, <2>2, <2>3
  <2>4. ASSUME NEW i \in Ingests, DecideOn(i), DecisionOf(i).alert = "none",
               published' = Append(published, DecisionOf(i))
        PROVE  Continues(LatestRecord(s)', published'[k].record)
    <3>1. DecisionOf(i) \in Decision
      BY <1>0, <2>4, AnsweredType, DecisionType DEF DecideOn
    <3>2. k # Len(published) + 1
      BY <1>0, <1>3, <2>4, <3>1, OneMore
    <3> QED
      BY <1>0, <1>3, <2>2, <2>4, <3>1, <3>2, OneMore
  <2>5. ASSUME NEW i \in Ingests, Publish(i), published' = Append(published, ingests[i].decision)
        PROVE  Continues(LatestRecord(s)', published'[k].record)
    <3>1. /\ ingests[i].pc = "narrating" /\ ingests[i].decision \in Decision
          /\ ingests[i].decision.session = ingests[i].session
      BY <1>0, <2>5 DEF Publish, Narrating, DInv
    <3>2. CASE k \in 1..Len(published)
      BY <1>0, <2>2, <2>5, <3>1, <3>2, OneMore
    <3>3. CASE k = Len(published) + 1
      <4>1. published'[k] = ingests[i].decision
        BY <1>0, <2>5, <3>1, <3>3, OneMore
      <4>2. Continues(LatestRecord(s), ingests[i].decision.record)
        BY <1>3, <3>1, <4>1 DEF FInv
      <4> QED
        BY <2>1, <3>1, <4>1, <4>2
    <3> QED
      BY <1>0, <1>3, <2>5, <3>1, <3>2, <3>3, OneMore
  <2> QED
    BY <2>3, <2>4, <2>5, PublishedMoves
<1> QED
  BY <1>1, <1>2, <1>3 DEF FInv

\* Nothing has been announced at first.
LEMMA InitialOnFile == Init => FInv
<1> SUFFICES ASSUME Init PROVE FInv
  OBVIOUS
<1>1. (\A i \in Ingests : ingests[i].pc = "new") /\ Len(published) = 0
      /\ \A c \in Calls : calls[c].pc = "idle"
  BY DEF Init, StoreInit, NoCall
<1> QED
  BY <1>1 DEF FInv

\* What was announced is on file in every reachable state, if no two calls
\* recover a session at once.
LEMMA FileInvariance ==
    ASSUME Overlap # "any" PROVE Spec => [](OInv /\ DInv /\ TInv /\ FInv)
<1>1. Init => TInv
  BY InitialTrail DEF Init
<1>2. OInv /\ TInv /\ [OpenNext]_vars => TInv'
  BY OrchTrail DEF OInv
<1>3. OInv /\ DInv /\ TInv /\ FInv /\ [OpenNext]_vars => FInv'
  BY NextOnFile
<1> QED
  BY <1>1, <1>2, <1>3, InitialOrch, InitialDecisions, InitialOnFile, NextOrch, NextDecisions,
     NextIsOpen, PTL DEF Spec

\* An urgent alert is about what is on file: the row the session would be
\* recovered from continues the record that was announced, whatever failed,
\* was lost or crashed between the save and the alert or happens after it.
THEOREM UrgentOnFile == ASSUME Overlap # "any" PROVE Spec => []UrgentAlertsAreOnFile
<1>1. OInv /\ FInv => UrgentAlertsAreOnFile
  <2> SUFFICES ASSUME OInv, FInv PROVE UrgentAlertsAreOnFile
    OBVIOUS
  <2>1. DOMAIN published = 1..Len(published)
    BY DEF OInv, OrchTypes
  <2>2. \A k \in 1..Len(published) : published[k].session \in Sessions
    <3>1. \A k \in 1..Len(published) : published[k] \in Decision
      BY DEF OInv, OrchTypes
    <3> QED
      BY <3>1 DEF Decision
  <2> QED
    BY <2>1, <2>2 DEF FInv, UrgentAlertsAreOnFile
<1> QED
  BY <1>1, FileInvariance, PTL

-----------------------------------------------------------------------------
(* One urgent alert for each escalation *)

\* What continues a record has as many escalations.
LEMMA EscalationsGrow ==
    ASSUME NEW later \in MaybeRecord, NEW earlier \in MaybeRecord, Continues(later, earlier)
    PROVE  /\ EscalationsIn(earlier) \in Nat /\ EscalationsIn(later) \in Nat
           /\ EscalationsIn(earlier) <= EscalationsIn(later)
<1>1. \A record \in LifecycleSessionRecord :
          /\ record.disqualificationAnnotations \in Seq(DisqualificationAnnotation)
          /\ Len(record.disqualificationAnnotations) \in Nat
  BY DEF LifecycleSessionRecord
<1>2. EscalationsIn(earlier) \in Nat /\ EscalationsIn(later) \in Nat
  BY <1>1 DEF EscalationsIn, MaybeRecord
<1>3. CASE earlier = NoRecord
  BY <1>2, <1>3 DEF EscalationsIn
<1>4. CASE earlier # NoRecord
  <2>1. later # NoRecord /\ IsPrefix(earlier.disqualificationAnnotations, later.disqualificationAnnotations)
    BY <1>4 DEF Continues
  <2>2. Len(earlier.disqualificationAnnotations) <= Len(later.disqualificationAnnotations)
    BY <1>1, <1>4, <2>1, PrefixByPlace DEF MaybeRecord
  <2> QED
    BY <1>2, <1>4, <2>1, <2>2 DEF EscalationsIn
<1> QED
  BY <1>2, <1>3, <1>4

\* Nobody was told of an escalation that is not in the table.
LEMMA ToldIsOnFile ==
    ASSUME OInv, FInv, NEW s \in Sessions, NEW n \in Told(s)
    PROVE  n \in Nat /\ n <= EscalationsIn(LatestRecord(s)) /\ EscalationsIn(LatestRecord(s)) \in Nat
<1>1. LatestRecord(s) \in MaybeRecord
  BY LatestIsRecord DEF OInv, NInv
<1>2. EscalationsIn(LatestRecord(s)) \in Nat
  BY <1>1, EscalationsGrow, ContinuesReflexive
<1>3. CASE n = 0
  BY <1>2, <1>3
<1>4. CASE n # 0
  <2>1. PICK k \in 1..Len(published) :
            /\ published[k].session = s /\ published[k].alert = "disqualified"
            /\ n = EscalationsIn(published[k].record)
    BY <1>4 DEF Told
  <2>2. published[k] \in Decision
    BY DEF OInv, OrchTypes
  <2>3. Continues(LatestRecord(s), published[k].record) /\ published[k].record \in MaybeRecord
    BY <2>1, <2>2 DEF FInv, Decision, MaybeRecord
  <2> QED
    BY <1>1, <2>1, <2>3, EscalationsGrow DEF Told
<1> QED
  BY <1>3, <1>4

\* While an ingestion is at work, nobody else tells about its session.
LEMMA ToldStays ==
    ASSUME OInv, DInv, [OpenNext]_vars, NEW i \in Ingests, NEW s \in Sessions, ingests[i].session = s,
           ingests[i].pc \in Waiting \ { "queued" }, ingests'[i].pc \in Waiting
    PROVE  Told(s)' = Told(s)
<1>0. OrchTypes /\ Turns
  BY DEF OInv
<1>1. CASE UNCHANGED published
  BY <1>1 DEF Told
<1>2. ASSUME NEW j \in Ingests, NEW d \in Decision, ingests[j].pc \in Waiting \ { "queued" },
             ingests'[j].pc \in Finished, d.session = ingests[j].session,
             published' = Append(published, d)
      PROVE  Told(s)' = Told(s)
  <2>1. i # j
    BY <1>2 DEF Waiting, Finished
  <2>2. d.session # s
    BY <1>0, <1>2, <2>1, OneAtWork
  <2>3. /\ Len(published) \in Nat /\ Len(published') = Len(published) + 1
        /\ published'[Len(published) + 1] = d
        /\ \A k \in 1..Len(published) : published'[k] = published[k]
        /\ \A k \in 1..Len(published') : k \in 1..Len(published) \/ k = Len(published) + 1
    BY <1>0, <1>2, OneMore
  <2>4. \A n : (\E k \in 1..Len(published') :
                   /\ published'[k].session = s /\ published'[k].alert = "disqualified"
                   /\ n = EscalationsIn(published'[k].record))
           <=> (\E k \in 1..Len(published) :
                   /\ published[k].session = s /\ published[k].alert = "disqualified"
                   /\ n = EscalationsIn(published[k].record))
    <3> SUFFICES ASSUME NEW n
                 PROVE  (\E k \in 1..Len(published') :
                            /\ published'[k].session = s /\ published'[k].alert = "disqualified"
                            /\ n = EscalationsIn(published'[k].record))
                    <=> (\E k \in 1..Len(published) :
                            /\ published[k].session = s /\ published[k].alert = "disqualified"
                            /\ n = EscalationsIn(published[k].record))
      OBVIOUS
    <3>1. ASSUME NEW k \in 1..Len(published'), published'[k].session = s
          PROVE  k \in 1..Len(published) /\ published'[k] = published[k]
      BY <2>2, <2>3, <3>1
    <3>2. ASSUME NEW k \in 1..Len(published)
          PROVE  k \in 1..Len(published') /\ published'[k] = published[k]
      BY <2>3
    <3> QED
      BY <3>1, <3>2
  <2> QED
    BY <2>4 DEF Told
<1> QED
  BY <1>1, <1>2, PublisherRead

\* An evaluation that escalates and whose row would be the next has one
\* escalation more than the table.
LEMMA ActEscalates ==
    ASSUME OInv, TInv, NEW c \in Calls, Act(c), calls[c].op.kind = "evaluate",
           calls'[c].sequence # -1, calls'[c].result.state = "DISQUALIFIED",
           NEW s \in Sessions, calls[c].session = s, calls'[c].sequence = LatestSequence(s) + 1
    PROVE  EscalationsIn(LatestRecord(s)) < EscalationsIn(calls'[c].result)
<1>0. /\ NInv /\ calls \in [Calls -> CallRecord \cup {NoCall}] /\ calls[c] \in CallRecord
      /\ calls[c].pc = "acting"
  BY Begun DEF OInv, NInv, Types, Act
<1>1. PICK op \in Evaluations \cup Overrides : op = calls[c].op
  BY <1>0 DEF CallRecord
<1> DEFINE result == Outcome(s, op)
           pc == IF result.transitioned THEN "saving" ELSE "returned"
           sequence == IF result.transitioned THEN nextSequence[s] ELSE -1
<1>2. calls'[c] = [calls[c] EXCEPT !.pc = pc, !.result = result.record, !.sequence = sequence]
  BY <1>0, <1>1 DEF Act
<1>3. /\ op \in Evaluations /\ op.posterior \in Posterior
      /\ op.contradiction \in ContradictionSignal /\ op.now \in Nat
  BY <1>1, EvaluationsAssumption, OverridesAssumption, NowsAssumption
<1> DEFINE current == CurrentRecord(s, op.now)
<1>4. memory[s] \in MaybeRecord /\ LatestRecord(s) \in MaybeRecord
  BY <1>0, LatestIsRecord DEF NInv, Types
<1>5. current \in LifecycleSessionRecord
  BY <1>3, <1>4 DEF CurrentRecord, InitialLifecycleRecord, LifecycleSessionRecord,
                    LifecycleStates, MaybeRecord
<1>6. result = EvaluateLifecycleTransition(current, op.posterior, op.now, op.contradiction)
  BY <1>1 DEF Outcome
<1>7. sequence = -1 \/ (result.transitioned /\ sequence = nextSequence[s])
  OBVIOUS
<1>8. result.record \in LifecycleSessionRecord
  BY <1>0, OutcomeContinues DEF NInv
<1> HIDE DEF result, sequence, pc
<1>9. calls'[c].result = result.record /\ calls'[c].sequence = sequence
  BY <1>0, <1>2 DEF CallRecord
<1>10. result.transitioned /\ nextSequence[s] = LatestSequence(s) + 1
  BY <1>7, <1>9
<1>11. Len(result.record.disqualificationAnnotations) = Len(current.disqualificationAnnotations) + 1
  <2> HIDE DEF current
  <2> QED
    BY <1>3, <1>5, <1>6, <1>9, <1>10, TransitionsHaveReasons
<1>12. EscalationsIn(memory[s]) = Len(current.disqualificationAnnotations)
  BY DEF EscalationsIn, CurrentRecord, InitialLifecycleRecord
<1>13. Continues(memory[s], LatestRecord(s))
  <2>1. s \in recovered
    BY <1>0 DEF TInv, Recovering
  <2> QED
    BY <1>10, <2>1 DEF TInv, Current
<1>14. EscalationsIn(LatestRecord(s)) <= EscalationsIn(memory[s]) /\ EscalationsIn(LatestRecord(s)) \in Nat
       /\ EscalationsIn(memory[s]) \in Nat
  BY <1>4, <1>13, EscalationsGrow
<1>15. EscalationsIn(result.record) = Len(result.record.disqualificationAnnotations)
  BY <1>8, NoRecordIsNoRecord DEF EscalationsIn
<1> QED
  BY <1>9, <1>11, <1>12, <1>14, <1>15

\* An ingestion under evaluation whose call has a result was so before, and
\* only its own call took a step for it.
LEMMA EvaluatingMoves ==
    ASSUME OInv, [OpenNext]_vars, NEW i \in Ingests, ingests'[i].pc = "evaluating",
           calls'[i].result # NoRecord
    PROVE  /\ ingests'[i] = ingests[i]
           /\ i \in Calls
           /\ ingests[i].session \in Sessions
           /\ calls[i].session = ingests[i].session
           /\ calls[i].op.kind = "evaluate"
           /\ calls'[i] = calls[i] \/ CallStep(i)
<1>0. /\ OrchTypes /\ i \in Calls /\ Linked(i)
      /\ ingests \in [Ingests -> Idle \cup Admitted \cup Evaluating \cup Narrating]
      /\ calls \in [Calls -> CallRecord \cup {NoCall}]
  BY IngestsAssumption DEF OInv, OrchTypes, NInv, Types
<1>1. CASE ingests'[i] = ingests[i]
  <2>1. ingests[i].session \in Sessions
    BY <1>0, <1>1, IngestByPc DEF Evaluating
  <2>2. calls'[i] = calls[i] \/ CallStep(i)
    BY <1>1, EvaluatingCall
  <2> QED
    BY <1>0, <1>1, <2>1, <2>2 DEF Linked
<1>2. ASSUME NEW score \in Scores, Score(i, score) PROVE FALSE
  <2>1. PICK call \in { calls'[i] } : calls' = [calls EXCEPT ![i] = call]
    BY <1>0, <1>2 DEF Score, Begin
  <2>2. calls'[i].result = NoRecord
    BY <1>0, <1>2 DEF Score, Begin
  <2> QED
    BY <2>2
<1>3. CASE Start(i) \/ AppendNext(i) \/ AllAppended(i)
  <2>1. ingests[i].pc \in { "queued", "appending" } /\ ingests[i] \in Admitted
    BY <1>0, <1>3, IngestByPc DEF Start, AppendNext, AllAppended
  <2>2. ingests'[i] \in { [ingests[i] EXCEPT !.pc = "appending"], [ingests[i] EXCEPT !.pc = "listing"],
                          [ingests[i] EXCEPT !.appended = @ + 1] }
    BY <1>0, <1>3 DEF Start, AppendNext, AllAppended
  <2>3. ingests'[i].pc # "evaluating"
    BY <2>1, <2>2 DEF Admitted
  <2> QED
    BY <2>3
<1>4. CASE DecideOn(i) /\ DecisionOf(i).alert # "none"
  BY <1>0, <1>4 DEF DecideOn
<1>5. CASE \E s \in Sessions, batch \in AnyBatch, now \in Nows : Enqueue(i, s, batch, now)
  BY <1>0, <1>5 DEF Enqueue
<1> QED
  BY <1>1, <1>2, <1>3, <1>4, <1>5, IngestMoves DEF Finished

\* Every step keeps an escalation under way ahead of the table and of what
\* has been told.
LEMMA EscalationKept ==
    ASSUME OInv, DInv, TInv, FInv, EInv, [OpenNext]_vars, NEW i \in Ingests, NEW s \in Sessions,
           ingests'[i].pc = "evaluating", ingests'[i].session = s,
           calls'[i].result # NoRecord, calls'[i].result.state = "DISQUALIFIED",
           calls'[i].sequence # -1
    PROVE  /\ calls'[i].pc = "saving" /\ calls'[i].sequence = LatestSequence(s)' + 1 =>
                  EscalationsIn(LatestRecord(s)') < EscalationsIn(calls'[i].result)
           /\ calls'[i].pc \in { "saved", "returned" } =>
                  \A n \in Told(s)' : n < EscalationsIn(calls'[i].result)
<1>0. /\ ingests'[i] = ingests[i] /\ i \in Calls /\ ingests[i].session = s
      /\ calls[i].session = s /\ calls[i].op.kind = "evaluate"
      /\ calls'[i] = calls[i] \/ CallStep(i)
      /\ ingests[i].pc = "evaluating"
      /\ calls \in [Calls -> CallRecord \cup {NoCall}] /\ NInv
  BY EvaluatingMoves DEF OInv, NInv, Types
<1>1. Told(s)' = Told(s)
  BY <1>0, ToldStays DEF Waiting
<1>2. /\ LatestRecord(s) \in MaybeRecord /\ LatestSequence(s) \in Nat \cup {-1}
      /\ \/ LatestSequence(s)' = LatestSequence(s) /\ LatestRecord(s)' = LatestRecord(s)
         \/ LatestSequence(s)' = LatestSequence(s) + 1
  BY FileGrows
<1>3. ASSUME calls[i].result # NoRecord, calls[i].result.state = "DISQUALIFIED",
             calls[i].sequence # -1
      PROVE  /\ calls[i].pc = "saving" /\ calls[i].sequence = LatestSequence(s) + 1 =>
                    EscalationsIn(LatestRecord(s)) < EscalationsIn(calls[i].result)
             /\ calls[i].pc \in { "saved", "returned" } =>
                    \A n \in Told(s) : n < EscalationsIn(calls[i].result)
  BY <1>0, <1>3 DEF EInv
<1>4. CASE calls'[i] = calls[i]
  <2>1. ASSUME calls[i].pc = "saving", calls[i].sequence = LatestSequence(s)' + 1
        PROVE  EscalationsIn(LatestRecord(s)') < EscalationsIn(calls[i].result)
    <3>1. calls[i] # NoCall
      BY <2>1 DEF NoCall
    <3>2. calls[i].sequence \in Nat /\ calls[i].sequence <= LatestSequence(s) + 1
      BY <1>0, <2>1, <3>1 DEF NInv, Numbered
    <3>3. LatestSequence(s)' = LatestSequence(s) /\ LatestRecord(s)' = LatestRecord(s)
      BY <1>2, <2>1, <3>2
    <3> QED
      BY <1>3, <1>4, <2>1, <3>3
  <2> QED
    BY <1>1, <1>3, <1>4, <2>1
<1>5. CASE CallStep(i)
  <2>0. calls[i] \in CallRecord
    BY <1>0, <1>5, Begun DEF CallStep, LoadLatest, Restore, Act, Save, Advance, Fail, LoseReply,
                             OrphanSave, NInv
  <2>1. CASE Act(i)
    <3>1. calls'[i].sequence = LatestSequence(s) + 1 =>
              EscalationsIn(LatestRecord(s)) < EscalationsIn(calls'[i].result)
      BY <1>0, <2>1, ActEscalates
    <3>2. UNCHANGED snapshots
      BY <2>1 DEF Act
    <3>3. LatestRecord(s)' = LatestRecord(s) /\ LatestSequence(s)' = LatestSequence(s)
      BY <3>2, SameRows
    <3> DEFINE outcome  == Outcome(calls[i].session, calls[i].op)
               pc       == IF outcome.transitioned THEN "saving" ELSE "returned"
               sequence == IF outcome.transitioned THEN nextSequence[calls[i].session] ELSE -1
    <3>4. /\ calls'[i] = [calls[i] EXCEPT !.pc = pc, !.result = outcome.record, !.sequence = sequence]
          /\ pc \in { "saving", "returned" } /\ (pc = "returned" => sequence = -1)
      BY <1>0, <2>1 DEF Act
    <3> HIDE DEF outcome, pc, sequence
    <3>5. calls'[i].pc = pc /\ calls'[i].sequence = sequence
      BY <2>0, <3>4 DEF CallRecord
    <3> QED
      BY <3>1, <3>3, <3>4, <3>5
  <2>2. CASE Save(i)
    <3>1. PICK pc \in { "saved", "collided" } : calls'[i] = [calls[i] EXCEPT !.pc = pc]
      BY <1>0, <2>2 DEF Save, Goto
    <3>2. calls'[i].pc = pc /\ calls'[i].result = calls[i].result /\ calls'[i].sequence = calls[i].sequence
      BY <2>0, <3>1 DEF CallRecord
    <3>3. CASE pc = "saved"
      <4>1. Insert(s, calls[i].sequence, RowOf(i)) /\ calls[i].pc = "saving"
        <5>1. "collided" # "saved"
          OBVIOUS
        <5>2. calls' = [calls EXCEPT ![i].pc = "collided"] => calls'[i].pc = "collided"
          BY <1>0, <2>0 DEF CallRecord
        <5> QED
          BY <1>0, <2>2, <3>2, <3>3, <5>2 DEF Save, Goto
      <4>2. calls[i].sequence = LatestSequence(s) + 1
        BY <1>0, <4>1, CallAddsRow
      <4>3. EscalationsIn(LatestRecord(s)) < EscalationsIn(calls[i].result)
        BY <1>3, <3>2, <4>1, <4>2
      <4>4. calls[i].result \in MaybeRecord
        BY <2>0 DEF CallRecord, MaybeRecord
      <4>5. EscalationsIn(calls[i].result) \in Nat
        BY <4>4, EscalationsGrow, ContinuesReflexive
      <4>6. ASSUME NEW n \in Told(s) PROVE n < EscalationsIn(calls[i].result)
        BY <4>3, <4>5, <4>6, ToldIsOnFile
      <4> QED
        BY <1>1, <3>2, <3>3, <4>6
    <3>4. CASE pc = "collided"
      BY <3>2, <3>4
    <3> QED
      BY <3>3, <3>4
  <2>3. CASE Advance(i)
    <3>1. calls'[i] = [calls[i] EXCEPT !.pc = "returned"] /\ calls[i].pc = "saved"
      BY <1>0, <2>3 DEF Advance, Goto
    <3>2. calls'[i].pc = "returned" /\ calls'[i].result = calls[i].result /\ calls'[i].sequence = calls[i].sequence
      BY <2>0, <3>1 DEF CallRecord
    <3> QED
      BY <1>1, <1>3, <3>1, <3>2
  <2>4. CASE Fail(i) \/ LoseReply(i)
    <3>1. calls'[i] = [calls[i] EXCEPT !.pc = "failed"]
      BY <1>0, <2>4 DEF Fail, LoseReply, Goto
    <3>2. calls'[i].pc = "failed"
      BY <2>0, <3>1 DEF CallRecord
    <3> QED
      BY <3>2
  <2>5. CASE LoadLatest(i) \/ Restore(i)
    <3>1. \/ calls'[i] = [calls[i] EXCEPT !.pc = "restoring",
                                          !.loaded = LatestRecord(calls[i].session),
                                          !.sequence = LatestSequence(calls[i].session)]
          \/ calls'[i] = [calls[i] EXCEPT !.pc = "acting", !.loaded = NoRecord, !.sequence = -1]
      BY <1>0, <2>5 DEF LoadLatest, Restore
    <3>2. calls'[i].pc \in { "restoring", "acting" }
      BY <2>0, <3>1 DEF CallRecord
    <3> QED
      BY <3>2
  <2>6. CASE OrphanSave(i)
    <3>1. calls'[i] = NoCall
      BY <1>0, <2>6 DEF OrphanSave
    <3> QED
      BY <3>1 DEF NoCall
  <2> QED
    BY <1>5, <2>1, <2>2, <2>3, <2>4, <2>5, <2>6 DEF CallStep
<1> QED
  BY <1>0, <1>4, <1>5

\* Every step keeps an urgent alert under way ahead of what has been told.
LEMMA AlertUnderWayKept ==
    ASSUME OInv, DInv, EInv, [OpenNext]_vars, NEW i \in Ingests, NEW s \in Sessions,
           ingests'[i].pc = "narrating", ingests'[i].session = s,
           ingests'[i].decision.alert = "disqualified"
    PROVE  \A n \in Told(s)' : n < EscalationsIn(ingests'[i].decision.record)
<1>0. /\ OrchTypes /\ ingests[i].session = s /\ ingests[i].pc \in Waiting \ { "queued" }
      /\ \/ ingests'[i] = ingests[i]
         \/ /\ DecideOn(i) /\ UNCHANGED << published, snapshots >>
            /\ ingests'[i].decision = DecisionOf(i)
  BY NarratingMoves DEF OInv
<1>1. Told(s)' = Told(s)
  BY <1>0, ToldStays DEF Waiting
<1>2. CASE ingests'[i] = ingests[i]
  BY <1>0, <1>1, <1>2 DEF EInv
<1>3. CASE DecideOn(i) /\ ingests'[i].decision = DecisionOf(i)
  <2>1. /\ ingests[i].pc = "evaluating" /\ calls[i].pc = "returned"
        /\ calls[i].result \in LifecycleSessionRecord
    BY <1>3, AnsweredType DEF DecideOn
  <2>2. /\ DecisionOf(i).record = calls[i].result /\ DecisionOf(i).state = calls[i].result.state
        /\ DecisionOf(i).transitioned = (calls[i].sequence # -1)
    BY <1>0, <2>1, DecisionType
  <2>3. DecisionOf(i).transitioned /\ DecisionOf(i).state = "DISQUALIFIED"
    BY <1>3, DecisionIsCoherent DEF Coherent
  <2>4. calls[i].result # NoRecord
    BY <2>1, NoRecordIsNoRecord
  <2>5. \A n \in Told(s) : n < EscalationsIn(calls[i].result)
    BY <1>0, <2>1, <2>2, <2>3, <2>4 DEF EInv
  <2> QED
    BY <1>1, <1>3, <2>2, <2>5
<1> QED
  BY <1>0, <1>2, <1>3

\* Every step keeps the urgent alerts of a session about later and later
\* escalations.
LEMMA UrgentAlertsAscend ==
    ASSUME OInv, DInv, EInv, [OpenNext]_vars
    PROVE  /\ \A k \in 1..Len(published') : published'[k].alert = "disqualified" =>
                  1 <= EscalationsIn(published'[k].record)
           /\ \A j, k \in 1..Len(published') :
                  /\ j < k /\ published'[j].session = published'[k].session
                  /\ published'[j].alert = "disqualified" /\ published'[k].alert = "disqualified"
                  => EscalationsIn(published'[j].record) < EscalationsIn(published'[k].record)
<1> DEFINE Ascend ==
      /\ \A k \in 1..Len(published') : published'[k].alert = "disqualified" =>
             1 <= EscalationsIn(published'[k].record)
      /\ \A j, k \in 1..Len(published') :
             /\ j < k /\ published'[j].session = published'[k].session
             /\ published'[j].alert = "disqualified" /\ published'[k].alert = "disqualified"
             => EscalationsIn(published'[j].record) < EscalationsIn(published'[k].record)
<1> SUFFICES Ascend
  OBVIOUS
<1>0. /\ OrchTypes /\ \A k \in 1..Len(published) : published[k] \in Decision
      /\ \A k \in 1..Len(published) : published[k].alert = "disqualified" =>
             1 <= EscalationsIn(published[k].record)
      /\ \A j, k \in 1..Len(published) :
             /\ j < k /\ published[j].session = published[k].session
             /\ published[j].alert = "disqualified" /\ published[k].alert = "disqualified"
             => EscalationsIn(published[j].record) < EscalationsIn(published[k].record)
      /\ \A i \in Ingests : ingests[i].pc = "narrating" => ingests[i] \in Narrating
  <2>1. OrchTypes /\ published \in Seq(Decision)
    BY DEF OInv, OrchTypes
  <2>2. \A k \in 1..Len(published) : published[k] \in Decision
    BY <2>1
  <2>3. \A i \in Ingests : ingests[i].pc = "narrating" => ingests[i] \in Narrating
    BY <2>1, IngestByPc
  <2> QED
    BY <2>1, <2>2, <2>3 DEF EInv
<1>1. CASE UNCHANGED published
  BY <1>0, <1>1
<1>2. ASSUME NEW d \in Decision, published' = Append(published, d),
             d.alert = "disqualified" =>
                 \A n \in Told(d.session) : n < EscalationsIn(d.record) /\ EscalationsIn(d.record) \in Nat
      PROVE  Ascend
  <2>1. /\ Len(published) \in Nat
        /\ published'[Len(published) + 1] = d
        /\ \A k \in 1..Len(published) : published'[k] = published[k]
        /\ \A k \in 1..Len(published') : k \in 1..Len(published) \/ k = Len(published) + 1
    BY <1>0, <1>2, OneMore
  <2>2. 0 \in Told(d.session)
    BY DEF Told
  <2>3. d.alert = "disqualified" => 1 <= EscalationsIn(d.record)
    BY <1>2, <2>2
  <2>4. ASSUME NEW k \in 1..Len(published), published[k].session = d.session,
               published[k].alert = "disqualified", d.alert = "disqualified"
        PROVE  EscalationsIn(published[k].record) < EscalationsIn(d.record)
    <3>1. published[k].record \in MaybeRecord
      BY <1>0 DEF Decision, MaybeRecord
    <3>2. EscalationsIn(published[k].record) \in Nat
      BY <3>1, EscalationsGrow, ContinuesReflexive
    <3>3. EscalationsIn(published[k].record) \in Told(d.session)
      BY <2>4, <3>2 DEF Told
    <3> QED
      BY <1>2, <2>4, <3>3
  <2>5. ASSUME NEW k \in 1..Len(published'), published'[k].alert = "disqualified"
        PROVE  1 <= EscalationsIn(published'[k].record)
    BY <1>0, <2>1, <2>3, <2>5
  <2>6. ASSUME NEW j \in 1..Len(published'), NEW k \in 1..Len(published'),
               j < k, published'[j].session = published'[k].session,
               published'[j].alert = "disqualified", published'[k].alert = "disqualified"
        PROVE  EscalationsIn(published'[j].record) < EscalationsIn(published'[k].record)
    <3>1. j \in 1..Len(published)
      BY <2>1, <2>6
    <3>2. CASE k \in 1..Len(published)
      BY <1>0, <2>1, <2>6, <3>1, <3>2
    <3>3. CASE k = Len(published) + 1
      BY <2>1, <2>4, <2>6, <3>1, <3>3
    <3> QED
      BY <2>1, <3>2, <3>3
  <2> QED
    BY <2>5, <2>6
<1> HIDE DEF Ascend
<1>3. ASSUME NEW i \in Ingests, DecideOn(i), DecisionOf(i).alert = "none",
             published' = Append(published, DecisionOf(i))
      PROVE  Ascend
  <2>1. DecisionOf(i) \in Decision
    BY <1>0, <1>3, AnsweredType, DecisionType DEF DecideOn
  <2> QED
    BY <1>2, <1>3, <2>1
<1>4. ASSUME NEW i \in Ingests, Publish(i), published' = Append(published, ingests[i].decision)
      PROVE  Ascend
  <2>1. /\ ingests[i].pc = "narrating" /\ ingests[i].decision \in Decision
        /\ ingests[i].decision.session = ingests[i].session /\ ingests[i].session \in Sessions
    BY <1>0, <1>4 DEF Publish, Narrating, DInv
  <2>2. ingests[i].decision.record \in MaybeRecord
    BY <2>1 DEF Decision, MaybeRecord
  <2>3. EscalationsIn(ingests[i].decision.record) \in Nat
    BY <2>2, EscalationsGrow, ContinuesReflexive
  <2>4. ingests[i].decision.alert = "disqualified" =>
            \A n \in Told(ingests[i].decision.session) : n < EscalationsIn(ingests[i].decision.record)
    BY <2>1 DEF EInv
  <2> QED
    BY <1>2, <1>4, <2>1, <2>3, <2>4
<1> QED
  BY <1>1, <1>3, <1>4, PublishedMoves

\* Every step keeps the count of escalations.
LEMMA NextEscalations == OInv /\ DInv /\ TInv /\ FInv /\ EInv /\ [OpenNext]_vars => EInv'
<1> SUFFICES ASSUME OInv, DInv, TInv, FInv, EInv, [OpenNext]_vars PROVE EInv'
  OBVIOUS
<1>1. \A i \in Ingests, s \in Sessions :
          /\ ingests'[i].pc = "evaluating" /\ ingests'[i].session = s
          /\ calls'[i].result # NoRecord /\ calls'[i].result.state = "DISQUALIFIED"
          /\ calls'[i].sequence # -1
          => /\ calls'[i].pc = "saving" /\ calls'[i].sequence = LatestSequence(s)' + 1 =>
                    EscalationsIn(LatestRecord(s)') < EscalationsIn(calls'[i].result)
             /\ calls'[i].pc \in { "saved", "returned" } =>
                    \A n \in Told(s)' : n < EscalationsIn(calls'[i].result)
  BY EscalationKept
<1>2. \A i \in Ingests, s \in Sessions :
          /\ ingests'[i].pc = "narrating" /\ ingests'[i].session = s
          /\ ingests'[i].decision.alert = "disqualified"
          => \A n \in Told(s)' : n < EscalationsIn(ingests'[i].decision.record)
  BY AlertUnderWayKept
<1> QED
  BY <1>1, <1>2, UrgentAlertsAscend DEF EInv, EscalationsIn

\* Nothing is under way and nothing told at first.
LEMMA InitialEscalations == Init => EInv
<1> SUFFICES ASSUME Init PROVE EInv
  OBVIOUS
<1>1. (\A i \in Ingests : ingests[i].pc = "new") /\ Len(published) = 0
  BY DEF Init
<1> QED
  BY <1>1 DEF EInv

\* Nobody is alarmed twice by one disqualification: each urgent alert of a
\* session was about an escalation of its own, and all of them are on file.
THEOREM OneAlertEach == ASSUME Overlap # "any" PROVE Spec => []OneUrgentAlertEach
<1>1. ASSUME OInv, FInv, EInv, NEW s \in Sessions
      PROVE  Cardinality(UrgentAlerts(s)) <= EscalationsIn(LatestRecord(s))
  <2>1. /\ DOMAIN published = 1..Len(published)
        /\ \A k \in 1..Len(published) : published[k] \in Decision
    BY <1>1 DEF OInv, OrchTypes
  <2> DEFINE count == EscalationsIn(LatestRecord(s))
             about == [k \in UrgentAlerts(s) |-> EscalationsIn(published[k].record)]
  <2>2. LatestRecord(s) \in MaybeRecord
    BY <1>1, LatestIsRecord DEF OInv, NInv
  <2>3. count \in Nat
    BY <2>2, EscalationsGrow, ContinuesReflexive
  <2>4. ASSUME NEW k \in UrgentAlerts(s)
        PROVE  EscalationsIn(published[k].record) \in 1..count
    <3>1. /\ k \in 1..Len(published) /\ published[k].session = s
          /\ published[k].alert = "disqualified" /\ published[k] \in Decision
      BY <2>1, <2>4 DEF UrgentAlerts
    <3>2. published[k].record \in MaybeRecord
      BY <3>1 DEF Decision, MaybeRecord
    <3>3. 1 <= EscalationsIn(published[k].record)
      BY <1>1, <3>1 DEF EInv
    <3>4. Continues(LatestRecord(s), published[k].record)
      BY <1>1, <3>1 DEF FInv
    <3> QED
      BY <2>2, <2>3, <3>2, <3>3, <3>4, EscalationsGrow
  <2>5. ASSUME NEW j \in UrgentAlerts(s), NEW k \in UrgentAlerts(s), j # k
        PROVE  EscalationsIn(published[j].record) # EscalationsIn(published[k].record)
    <3>1. /\ j \in 1..Len(published) /\ k \in 1..Len(published)
          /\ published[j].session = published[k].session
          /\ published[j].alert = "disqualified" /\ published[k].alert = "disqualified"
      BY <2>1, <2>5 DEF UrgentAlerts
    <3>2. EscalationsIn(published[j].record) \in Nat /\ EscalationsIn(published[k].record) \in Nat
      BY <2>4, <2>5, <2>3
    <3>3. Len(published) \in Nat
      BY <1>1 DEF OInv, OrchTypes
    <3>4. j < k \/ k < j
      BY <2>5, <3>1, <3>3
    <3> QED
      BY <1>1, <3>1, <3>2, <3>4 DEF EInv
  <2>6. about \in Injection(UrgentAlerts(s), 1..count)
    <3>1. about \in [UrgentAlerts(s) -> 1..count]
      BY <2>4
    <3>2. \A j, k \in UrgentAlerts(s) : about[j] = about[k] => j = k
      BY <2>5
    <3> QED
      BY <3>1, <3>2 DEF Injection, IsInjective
  <2>7. IsFiniteSet(1..count) /\ Cardinality(1..count) = count
    BY <2>3, FS_Interval
  <2>8. Cardinality(UrgentAlerts(s)) <= Cardinality(1..count)
    <3> HIDE DEF about, count
    <3> QED
      BY <2>6, <2>7, FS_Injection
  <2> QED
    BY <2>7, <2>8
<1>2. OInv /\ FInv /\ EInv => OneUrgentAlertEach
  BY <1>1 DEF OneUrgentAlertEach, EscalationsIn
<1>3. OInv /\ DInv /\ TInv /\ FInv /\ EInv /\ [OpenNext]_vars => EInv'
  BY NextEscalations
<1> QED
  BY <1>2, <1>3, FileInvariance, InitialEscalations, NextIsOpen, PTL DEF Spec

-----------------------------------------------------------------------------
(* Ambiguous spells *)

\* A decision alerts of ambiguity when it is ambiguous and the one before was not.
LEMMA AmbiguousAlert ==
    ASSUME OInv, NEW i \in Ingests, DecideOn(i)
    PROVE  DecisionOf(i).alert = "ambiguous" <=>
               (DecisionOf(i).ambiguous /\ ~wasAmbiguous[ingests[i].session])
<1>1. /\ ingests[i].pc = "evaluating" /\ OrchTypes
      /\ calls[i].result \in LifecycleSessionRecord
  BY AnsweredType DEF OInv, DecideOn
<1> DEFINE s == ingests[i].session
           state == calls[i].result.state
           transitioned == calls[i].sequence # -1
           probability == ingests[i].score.posterior.probability
           tight == ingests[i].score.tight
<1>2. /\ DecisionOf(i).alert = AlertFor(state, transitioned, probability, tight, wasAmbiguous[s])
      /\ DecisionOf(i).ambiguous = (Recommendation(state, probability, tight) = "ADJUDICATE")
      /\ s \in Sessions
  BY <1>1, DecisionType
<1>3. wasAmbiguous[s] \in BOOLEAN /\ transitioned \in BOOLEAN
  BY <1>1, <1>2 DEF OrchTypes
<1> HIDE DEF s, state, transitioned, probability, tight
<1> DEFINE ordinary == /\ state \notin { "DISQUALIFIED", "LOST_CONFIDENCE" }
                       /\ ~(state = "UNKNOWN" /\ probability < AbstentionProbabilityThreshold)
           confident == IsConfidentlyAmbiguous(probability, tight)
<1>4. Recommendation(state, probability, tight) = "ADJUDICATE" <=> (ordinary /\ confident)
  BY DEF Recommendation
<1>5. AlertFor(state, transitioned, probability, tight, wasAmbiguous[s]) = "ambiguous" <=>
          (ordinary /\ confident /\ ~wasAmbiguous[s])
  BY <1>3 DEF AlertFor
<1> QED
  BY <1>2, <1>4, <1>5 DEF s

\* What a step may count, unless the process is lost.
LEMMA FaultsMove ==
    ASSUME [OpenNext]_vars
    PROVE  \/ UNCHANGED faults
           \/ faults' = [faults EXCEPT !.begun = @ + 1]
           \/ faults.failures < MaxFailures /\ faults' = [faults EXCEPT !.failures = @ + 1]
           \/ faults.lostReplies < MaxLostReplies /\ faults' = [faults EXCEPT !.lostReplies = @ + 1]
           \/ \E orphans \in SUBSET Calls : Restart(orphans)
<1>1. CASE UNCHANGED vars
  BY <1>1 DEF vars, storeVars
<1>2. CASE \E i \in Ingests, s \in Sessions, batch \in AnyBatch, now \in Nows : Enqueue(i, s, batch, now)
  BY <1>2 DEF Enqueue, storeVars
<1>3. ASSUME NEW i \in Ingests, IngestStep(i)
      PROVE  UNCHANGED faults
  BY <1>3 DEF IngestStep, Start, AppendNext, AllAppended, Score, DecideOn, Publish, StoreFails, storeVars
<1>4. ASSUME NEW i \in Ingests, LedgerFails(i) \/ LedgerReplyLost(i)
      PROVE  \/ faults.failures < MaxFailures /\ faults' = [faults EXCEPT !.failures = @ + 1]
             \/ faults.lostReplies < MaxLostReplies /\ faults' = [faults EXCEPT !.lostReplies = @ + 1]
  BY <1>4 DEF LedgerFails, LedgerReplyLost
<1>5. ASSUME NEW c \in Calls, NEW s \in Sessions, NEW op \in Overrides, ApplyHumanOverride(c, s, op)
      PROVE  faults' = [faults EXCEPT !.begun = @ + 1]
  BY <1>5 DEF ApplyHumanOverride, NewCall
<1>6. ASSUME NEW c \in Calls, StoreStep(c)
      PROVE  \/ UNCHANGED faults
             \/ faults.failures < MaxFailures /\ faults' = [faults EXCEPT !.failures = @ + 1]
             \/ faults.lostReplies < MaxLostReplies /\ faults' = [faults EXCEPT !.lostReplies = @ + 1]
  BY <1>6 DEF StoreStep, CallStep, LoadLatest, Restore, Act, Save, Advance, Fail, LoseReply,
              OrphanSave, Settle
<1> QED
  BY <1>1, <1>2, <1>3, <1>4, <1>5, <1>6 DEF OpenNext, Serve

\* Without crashes the process is never lost.
LEMMA NeverRestarts ==
    ASSUME MaxCrashes = 0, AInv, [OpenNext]_vars
    PROVE  /\ faults' \in [begun : Nat, failures : Nat, lostReplies : Nat, crashes : {0}, orphans : Nat]
           /\ \A orphans \in SUBSET Calls : ~Restart(orphans)
<1>0. faults \in [begun : Nat, failures : Nat, lostReplies : Nat, crashes : {0}, orphans : Nat]
  BY DEF AInv
<1>1. \A orphans \in SUBSET Calls : ~Restart(orphans)
  BY <1>0 DEF Restart, Crash
<1> QED
  BY <1>0, <1>1, FaultsMove

\* What the engine remembers of a session changes with a decision on it.
LEMMA MemoryOfEngineMoves ==
    ASSUME [OpenNext]_vars, \A orphans \in SUBSET Calls : ~Restart(orphans)
    PROVE  \/ UNCHANGED wasAmbiguous
           \/ \E i \in Ingests : DecideOn(i)
<1>1. CASE UNCHANGED vars
  BY <1>1 DEF vars, orchVars
<1>2. CASE \E i \in Ingests, s \in Sessions, batch \in AnyBatch, now \in Nows : Enqueue(i, s, batch, now)
  BY <1>2 DEF Enqueue
<1>3. ASSUME NEW i \in Ingests, IngestStep(i) \/ LedgerFails(i) \/ LedgerReplyLost(i)
      PROVE  UNCHANGED wasAmbiguous \/ DecideOn(i)
  BY <1>3 DEF IngestStep, Start, AppendNext, AllAppended, Score, Publish, StoreFails, LedgerFails,
              LedgerReplyLost
<1>4. CASE Serve
  BY <1>3, <1>4 DEF Serve, ApplyHumanOverride, StoreStep, orchVars
<1> QED
  BY <1>1, <1>2, <1>4 DEF OpenNext

\* A narrative ends with the decision published.
LEMMA NarrativeEnds ==
    ASSUME OInv, [OpenNext]_vars, \A orphans \in SUBSET Calls : ~Restart(orphans),
           NEW i \in Ingests, ingests[i].pc = "narrating"
    PROVE  ingests'[i] = ingests[i] \/ Publish(i)
<1>0. ingests \in [Ingests -> Idle \cup Admitted \cup Evaluating \cup Narrating]
  BY DEF OInv, OrchTypes
<1>1. CASE UNCHANGED orchVars
  BY <1>1 DEF orchVars
<1>2. ASSUME NEW j \in Ingests, NEW s \in Sessions, NEW batch \in AnyBatch, NEW now \in Nows,
             Enqueue(j, s, batch, now)
      PROVE  ingests'[i] = ingests[i]
  <2>1. i # j
    BY <1>2 DEF Enqueue
  <2> QED
    BY <1>0, <1>2, <2>1 DEF Enqueue
<1>3. ASSUME NEW j \in Ingests, IngestStep(j) \/ LedgerFails(j) \/ LedgerReplyLost(j)
      PROVE  ingests'[i] = ingests[i] \/ Publish(i)
  <2>1. CASE i # j
    <3>1. PICK ing : ingests' = [ingests EXCEPT ![j] = ing]
      BY <1>3, WorkOrEnd
    <3> QED
      BY <1>0, <2>1, <3>1
  <2>2. CASE i = j
    BY <1>3, <2>2 DEF IngestStep, Start, AppendNext, AllAppended, Score, DecideOn, StoreFails,
                      LedgerFails, LedgerReplyLost
  <2> QED
    BY <2>1, <2>2
<1>4. CASE Serve
  BY <1>1, <1>3, <1>4 DEF Serve, ApplyHumanOverride, StoreStep
<1> QED
  BY <1>1, <1>2, <1>4 DEF OpenNext, vars

\* One decision more is the last of its session, and of no other.
LEMMA LastDecision ==
    ASSUME OrchTypes, NEW d \in Decision, published' = Append(published, d), NEW s \in Sessions
    PROVE  /\ d.session = s => (EndsAmbiguous(s)' <=> d.ambiguous)
           /\ d.session # s => (EndsAmbiguous(s)' <=> EndsAmbiguous(s))
<1> DEFINE n == Len(published)
<1>1. /\ n \in Nat /\ Len(published') = n + 1
      /\ published'[n + 1] = d
      /\ \A k \in 1..n : published'[k] = published[k]
      /\ \A k \in 1..Len(published') : k \in 1..n \/ k = n + 1
  BY OneMore
<1> HIDE DEF n
<1>2. EndsAmbiguous(s)' <=>
          \E j \in 1..n + 1 :
              /\ published'[j].session = s /\ published'[j].ambiguous
              /\ \A k \in j + 1..n + 1 : published'[k].session # s
  BY <1>1 DEF EndsAmbiguous
<1>3. EndsAmbiguous(s) <=>
          \E j \in 1..n :
              /\ published[j].session = s /\ published[j].ambiguous
              /\ \A k \in j + 1..n : published[k].session # s
  BY DEF EndsAmbiguous, n
<1>4. ASSUME d.session = s
      PROVE  EndsAmbiguous(s)' <=> d.ambiguous
  <2>1. ASSUME NEW j \in 1..n + 1, \A k \in j + 1..n + 1 : published'[k].session # s
        PROVE  j = n + 1
    <3>1. j <= n => n + 1 \in j + 1..n + 1
      BY <1>1
    <3> QED
      BY <1>1, <1>4, <2>1, <3>1
  <2>2. n + 1 \in 1..n + 1 /\ \A k \in n + 1 + 1..n + 1 : published'[k].session # s
    BY <1>1
  <2> QED
    BY <1>1, <1>2, <1>4, <2>1, <2>2
<1>5. ASSUME d.session # s
      PROVE  EndsAmbiguous(s)' <=> EndsAmbiguous(s)
  <2>1. ASSUME NEW j \in 1..n + 1, published'[j].session = s
        PROVE  j \in 1..n /\ published'[j] = published[j]
    BY <1>1, <1>5, <2>1
  <2>2. ASSUME NEW j \in 1..n
        PROVE  (\A k \in j + 1..n + 1 : published'[k].session # s) <=>
                   (\A k \in j + 1..n : published[k].session # s)
    <3>1. \A k \in j + 1..n : k \in 1..n /\ k \in j + 1..n + 1
      BY <1>1
    <3>2. \A k \in j + 1..n + 1 : k = n + 1 \/ (k \in 1..n /\ k \in j + 1..n)
      BY <1>1
    <3> QED
      BY <1>1, <1>5, <3>1, <3>2
  <2>3. \A j \in 1..n : j \in 1..n + 1
    BY <1>1
  <2> QED
    BY <1>1, <1>2, <1>3, <2>1, <2>2, <2>3
<1> QED
  BY <1>4, <1>5

\* Whether a spell goes on at the new decision is whether the session ended
\* ambiguous; for the old ones nothing changes.
LEMMA SpellsGoOn ==
    ASSUME OrchTypes, NEW d \in Decision, published' = Append(published, d),
           AmbiguitySpellAlertsOnce, d.session \in Sessions,
           d.alert = "ambiguous" <=> (d.ambiguous /\ ~EndsAmbiguous(d.session))
    PROVE  AmbiguitySpellAlertsOnce'
<1>0. PICK n \in Nat : n = Len(published)
  BY OneMore
<1>1. /\ n \in Nat /\ Len(published') = n + 1
      /\ published'[n + 1] = d
      /\ \A k \in 1..n : published'[k] = published[k]
      /\ \A k \in 1..Len(published') : k \in 1..n \/ k = n + 1
      /\ DOMAIN published = 1..n
  BY <1>0, OneMore DEF OrchTypes
<1>2. DOMAIN published' = 1..n + 1
  <2>1. published' \in Seq(Decision)
    BY AppendProperties DEF OrchTypes
  <2> QED
    BY <1>1, <2>1
<1>3. EndsAmbiguous(d.session) <=>
          \E j \in 1..n :
              /\ published[j].session = d.session /\ published[j].ambiguous
              /\ \A k \in j + 1..n : published[k].session # d.session
  BY <1>0 DEF EndsAmbiguous
<1>4. ASSUME NEW k \in 1..n
      PROVE  GoesOn(k)' <=> GoesOn(k)
  <2>1. \A j \in 1..k - 1 : j \in 1..n /\ \A i \in j + 1..k - 1 : i \in 1..n
    BY <1>1
  <2> QED
    BY <1>1, <2>1 DEF GoesOn
<1>5. GoesOn(n + 1)' <=> EndsAmbiguous(d.session)
  <2>1. GoesOn(n + 1)' <=>
            \E j \in 1..n + 1 - 1 :
                /\ published'[j].session = published'[n + 1].session
                /\ published'[j].ambiguous
                /\ \A i \in j + 1..n + 1 - 1 : published'[i].session # published'[n + 1].session
    BY <1>1 DEF GoesOn
  <2>2. n + 1 - 1 = n /\ \A j \in 1..n : \A i \in j + 1..n : i \in 1..n
    BY <1>1
  <2> QED
    BY <1>1, <1>3, <2>1, <2>2
<1>6. ASSUME NEW k \in 1..n + 1
      PROVE  published'[k].alert = "ambiguous" <=> (published'[k].ambiguous /\ ~GoesOn(k)')
  <2>1. CASE k \in 1..n
    BY <1>1, <1>4, <2>1 DEF AmbiguitySpellAlertsOnce
  <2>2. CASE k = n + 1
    BY <1>1, <1>5, <2>2
  <2> QED
    BY <1>1, <2>1, <2>2
<1> QED
  BY <1>2, <1>6 DEF AmbiguitySpellAlertsOnce

\* While an ingestion is at work its session ends as it did.
LEMMA EndsStay ==
    ASSUME OInv, DInv, [OpenNext]_vars, NEW i \in Ingests, NEW s \in Sessions, ingests[i].session = s,
           ingests[i].pc \in Waiting \ { "queued" }, ingests'[i].pc \in Waiting
    PROVE  EndsAmbiguous(s)' <=> EndsAmbiguous(s)
<1>0. OrchTypes /\ Turns
  BY DEF OInv
<1>1. CASE UNCHANGED published
  BY <1>1 DEF EndsAmbiguous
<1>2. ASSUME NEW j \in Ingests, NEW d \in Decision, ingests[j].pc \in Waiting \ { "queued" },
             ingests'[j].pc \in Finished, d.session = ingests[j].session,
             published' = Append(published, d)
      PROVE  EndsAmbiguous(s)' <=> EndsAmbiguous(s)
  <2>1. i # j
    BY <1>2 DEF Waiting, Finished
  <2>2. d.session # s
    BY <1>0, <1>2, <2>1, OneAtWork
  <2> QED
    BY <1>0, <1>2, <2>2, LastDecision
<1> QED
  BY <1>1, <1>2, PublisherRead

\* Nobody narrates a session while another ingestion of it is decided on.
LEMMA NobodyNarrates ==
    ASSUME OInv, NEW i \in Ingests, DecideOn(i)
    PROVE  /\ ingests[i].session \in Sessions
           /\ \A j \in Ingests : ~(ingests[j].pc = "narrating" /\ ingests[j].session = ingests[i].session)
<1>1. ingests[i].pc = "evaluating" /\ OrchTypes /\ Turns
  BY DEF DecideOn, OInv
<1>2. ASSUME NEW j \in Ingests, ingests[j].pc = "narrating", ingests[j].session = ingests[i].session
      PROVE  FALSE
  <2>1. i = j
    BY <1>1, <1>2, OneAtWork DEF Waiting
  <2> QED
    BY <1>1, <1>2, <2>1
<1>3. ingests[i].session \in Sessions
  BY <1>1, IngestByPc DEF Evaluating
<1> QED
  BY <1>2, <1>3

\* Who narrates, narrates what the engine remembers.
LEMMA NarratedIsRemembered ==
    ASSUME MaxCrashes = 0, OInv, DInv, AInv, [OpenNext]_vars, NEW i \in Ingests,
           ingests'[i].pc = "narrating"
    PROVE  /\ wasAmbiguous'[ingests'[i].session] <=> ingests'[i].decision.ambiguous
           /\ (ingests'[i].decision.alert = "ambiguous") <=>
                  (ingests'[i].decision.ambiguous /\ ~EndsAmbiguous(ingests[i].session)')
<1>0. /\ OrchTypes /\ Turns /\ ingests[i].session \in Sessions
      /\ ingests'[i].session = ingests[i].session
      /\ ingests[i].pc \in Waiting \ { "queued" }
      /\ \/ ingests'[i] = ingests[i]
         \/ /\ DecideOn(i) /\ UNCHANGED << published, snapshots >>
            /\ ingests'[i].decision = DecisionOf(i)
      /\ \A orphans \in SUBSET Calls : ~Restart(orphans)
      /\ wasAmbiguous \in [Sessions -> BOOLEAN]
  BY NarratingMoves, NeverRestarts DEF OInv, OrchTypes
<1>1. PICK s \in Sessions : s = ingests[i].session
  BY <1>0
<1>2. EndsAmbiguous(s)' <=> EndsAmbiguous(s)
  BY <1>0, <1>1, EndsStay DEF Waiting
<1>3. CASE ingests'[i] = ingests[i]
  <2>1. /\ wasAmbiguous[s] <=> ingests[i].decision.ambiguous
        /\ (ingests[i].decision.alert = "ambiguous") <=>
               (ingests[i].decision.ambiguous /\ ~EndsAmbiguous(s))
    BY <1>1, <1>3 DEF AInv
  <2>2. ASSUME NEW j \in Ingests, DecideOn(j) PROVE wasAmbiguous'[s] = wasAmbiguous[s]
    <3>1. ingests[j].session # s
      BY <1>1, <1>3, <2>2, NobodyNarrates
    <3> QED
      BY <1>0, <2>2, <3>1 DEF DecideOn
  <2>3. wasAmbiguous'[s] = wasAmbiguous[s]
    BY <1>0, <2>2, MemoryOfEngineMoves
  <2> QED
    BY <1>1, <1>2, <1>3, <2>1, <2>3
<1>4. CASE DecideOn(i) /\ ingests'[i].decision = DecisionOf(i)
  <2>1. \A j \in Ingests : ~(ingests[j].pc = "narrating" /\ ingests[j].session = s)
    BY <1>1, <1>4, NobodyNarrates
  <2>2. wasAmbiguous[s] <=> EndsAmbiguous(s)
    BY <2>1 DEF AInv
  <2>3. DecisionOf(i).alert = "ambiguous" <=> (DecisionOf(i).ambiguous /\ ~wasAmbiguous[s])
    BY <1>1, <1>4, AmbiguousAlert
  <2>4. wasAmbiguous'[s] = DecisionOf(i).ambiguous
    BY <1>0, <1>1, <1>4 DEF DecideOn
  <2> QED
    BY <1>0, <1>1, <1>2, <1>4, <2>2, <2>3, <2>4
<1> QED
  BY <1>0, <1>3, <1>4

\* When nobody narrates a session, the engine remembers how it ended.
LEMMA EndIsRemembered ==
    ASSUME MaxCrashes = 0, OInv, DInv, AInv, [OpenNext]_vars, NEW s \in Sessions,
           \A i \in Ingests : ~(ingests'[i].pc = "narrating" /\ ingests'[i].session = s)
    PROVE  wasAmbiguous'[s] <=> EndsAmbiguous(s)'
<1>0. /\ OrchTypes /\ \A orphans \in SUBSET Calls : ~Restart(orphans)
      /\ wasAmbiguous \in [Sessions -> BOOLEAN]
      /\ ingests \in [Ingests -> Idle \cup Admitted \cup Evaluating \cup Narrating]
      /\ \A i \in Ingests : ingests[i].pc = "narrating" =>
             /\ ingests[i] \in Narrating /\ ingests[i].decision \in Decision
             /\ ingests[i].decision.session = ingests[i].session
  BY NeverRestarts, IngestByPc DEF OInv, OrchTypes, Narrating, DInv
<1>1. ASSUME NEW i \in Ingests, ingests[i].pc = "narrating", ingests[i].session = s
      PROVE  wasAmbiguous'[s] <=> EndsAmbiguous(s)'
  <2>1. Publish(i)
    BY <1>0, <1>1, NarrativeEnds
  <2>2. published' = Append(published, ingests[i].decision) /\ UNCHANGED wasAmbiguous
    BY <2>1 DEF Publish
  <2>3. EndsAmbiguous(s)' <=> ingests[i].decision.ambiguous
    BY <1>0, <1>1, <2>2, LastDecision
  <2>4. wasAmbiguous[s] <=> ingests[i].decision.ambiguous
    BY <1>1 DEF AInv
  <2> QED
    BY <2>2, <2>3, <2>4
<1>2. ASSUME \A i \in Ingests : ~(ingests[i].pc = "narrating" /\ ingests[i].session = s)
      PROVE  wasAmbiguous'[s] <=> EndsAmbiguous(s)'
  <2>1. wasAmbiguous[s] <=> EndsAmbiguous(s)
    BY <1>2 DEF AInv
  <2>2. ASSUME NEW i \in Ingests, DecideOn(i)
        PROVE  wasAmbiguous'[s] <=> EndsAmbiguous(s)'
    <3>1. /\ ingests[i].pc = "evaluating" /\ calls[i].result \in LifecycleSessionRecord
          /\ wasAmbiguous' = [wasAmbiguous EXCEPT ![ingests[i].session] = DecisionOf(i).ambiguous]
      BY <2>2, AnsweredType DEF DecideOn
    <3>2. /\ DecisionOf(i) \in Decision /\ DecisionOf(i).session = ingests[i].session
          /\ ingests[i].session \in Sessions
      BY <1>0, <3>1, DecisionType
    <3>3. CASE DecisionOf(i).alert = "none"
      <4>1. published' = Append(published, DecisionOf(i))
        BY <2>2, <3>3 DEF DecideOn
      <4>2. CASE ingests[i].session = s
        <5>1. EndsAmbiguous(s)' <=> DecisionOf(i).ambiguous
          BY <1>0, <3>2, <4>1, <4>2, LastDecision
        <5>2. wasAmbiguous'[s] = DecisionOf(i).ambiguous
          BY <1>0, <3>1, <4>2
        <5> QED
          BY <5>1, <5>2
      <4>3. CASE ingests[i].session # s
        <5>1. EndsAmbiguous(s)' <=> EndsAmbiguous(s)
          BY <1>0, <3>2, <4>1, <4>3, LastDecision
        <5>2. wasAmbiguous'[s] = wasAmbiguous[s]
          BY <1>0, <3>1, <4>3
        <5> QED
          BY <2>1, <5>1, <5>2
      <4> QED
        BY <4>2, <4>3
    <3>4. CASE DecisionOf(i).alert # "none"
      <4>1. /\ UNCHANGED published
            /\ ingests' = [ingests EXCEPT ![i] = [pc |-> "narrating", session |-> DecisionOf(i).session,
                                                  decision |-> DecisionOf(i)]]
        BY <2>2, <3>4 DEF DecideOn
      <4>2. ingests'[i].pc = "narrating" /\ ingests'[i].session = DecisionOf(i).session
        BY <1>0, <4>1
      <4>3. ingests[i].session # s
        BY <3>2, <4>2
      <4>4. wasAmbiguous'[s] = wasAmbiguous[s]
        BY <1>0, <3>1, <4>3
      <4>5. EndsAmbiguous(s)' <=> EndsAmbiguous(s)
        BY <4>1 DEF EndsAmbiguous
      <4> QED
        BY <2>1, <4>4, <4>5
    <3> QED
      BY <3>3, <3>4
  <2>3. CASE \A i \in Ingests : ~DecideOn(i)
    <3>1. UNCHANGED wasAmbiguous
      BY <1>0, <2>3, MemoryOfEngineMoves
    <3>2. CASE UNCHANGED published
      <4>1. EndsAmbiguous(s)' <=> EndsAmbiguous(s)
        BY <3>2 DEF EndsAmbiguous
      <4> QED
        BY <2>1, <3>1, <4>1
    <3>3. ASSUME NEW i \in Ingests, Publish(i), published' = Append(published, ingests[i].decision)
          PROVE  wasAmbiguous'[s] <=> EndsAmbiguous(s)'
      <4>1. ingests[i].decision \in Decision /\ ingests[i].decision.session # s
        BY <1>0, <1>2, <3>3 DEF Publish
      <4>2. EndsAmbiguous(s)' <=> EndsAmbiguous(s)
        BY <1>0, <3>3, <4>1, LastDecision
      <4> QED
        BY <2>1, <3>1, <4>2
    <3> QED
      BY <2>3, <3>2, <3>3, PublishedMoves
  <2> QED
    BY <2>2, <2>3
<1> QED
  BY <1>1, <1>2

\* Every step keeps spells alerted of once.
LEMMA SpellsKept ==
    ASSUME MaxCrashes = 0, OInv, DInv, AInv, [OpenNext]_vars
    PROVE  AmbiguitySpellAlertsOnce'
<1>0. OrchTypes /\ AmbiguitySpellAlertsOnce
  BY DEF OInv, AInv
<1>1. CASE UNCHANGED published
  <2>1. \A k : GoesOn(k)' <=> GoesOn(k)
    BY <1>1 DEF GoesOn
  <2> QED
    BY <1>0, <1>1, <2>1 DEF AmbiguitySpellAlertsOnce
<1>2. ASSUME NEW i \in Ingests, DecideOn(i), published' = Append(published, DecisionOf(i))
      PROVE  AmbiguitySpellAlertsOnce'
  <2>1. /\ ingests[i].pc = "evaluating" /\ calls[i].result \in LifecycleSessionRecord
    BY <1>2, AnsweredType DEF DecideOn
  <2>2. /\ DecisionOf(i) \in Decision /\ DecisionOf(i).session = ingests[i].session
        /\ ingests[i].session \in Sessions
    BY <1>0, <2>1, DecisionType
  <2>3. wasAmbiguous[ingests[i].session] <=> EndsAmbiguous(ingests[i].session)
    BY <1>2, NobodyNarrates DEF AInv
  <2>4. DecisionOf(i).alert = "ambiguous" <=>
            (DecisionOf(i).ambiguous /\ ~EndsAmbiguous(DecisionOf(i).session))
    BY <1>2, <2>2, <2>3, AmbiguousAlert
  <2> QED
    BY <1>0, <1>2, <2>2, <2>4, SpellsGoOn
<1>3. ASSUME NEW i \in Ingests, Publish(i), published' = Append(published, ingests[i].decision)
      PROVE  AmbiguitySpellAlertsOnce'
  <2>1. ingests[i].pc = "narrating" /\ ingests[i] \in Narrating
    BY <1>0, <1>3, IngestByPc DEF Publish
  <2>2. /\ ingests[i].decision \in Decision /\ ingests[i].decision.session = ingests[i].session
        /\ ingests[i].session \in Sessions
    BY <2>1 DEF Narrating, DInv
  <2>3. (ingests[i].decision.alert = "ambiguous") <=>
            (ingests[i].decision.ambiguous /\ ~EndsAmbiguous(ingests[i].session))
    BY <2>1 DEF AInv
  <2> QED
    BY <1>0, <1>3, <2>2, <2>3, SpellsGoOn
<1> QED
  BY <1>1, <1>2, <1>3, PublishedMoves

\* Nothing has been decided at first.
LEMMA InitialSpells == Init => AInv
<1> SUFFICES ASSUME Init PROVE AInv
  OBVIOUS
<1>1. /\ \A i \in Ingests : ingests[i].pc = "new"
      /\ published = << >> /\ Len(published) = 0 /\ DOMAIN published = {}
      /\ \A s \in Sessions : wasAmbiguous[s] = FALSE
      /\ faults = [begun |-> 0, failures |-> 0, lostReplies |-> 0, crashes |-> 0, orphans |-> 0]
  BY DEF Init, StoreInit
<1>2. \A s \in Sessions : ~EndsAmbiguous(s)
  BY <1>1 DEF EndsAmbiguous
<1> QED
  BY <1>1, <1>2 DEF AInv, AmbiguitySpellAlertsOnce

\* Every step keeps what the engine remembers.
LEMMA NextSpells ==
    ASSUME MaxCrashes = 0 PROVE OInv /\ DInv /\ AInv /\ [OpenNext]_vars => AInv'
<1> SUFFICES ASSUME OInv, DInv, AInv, [OpenNext]_vars PROVE AInv'
  OBVIOUS
<1>1. ASSUME NEW i \in Ingests, ingests'[i].pc = "narrating"
      PROVE  /\ wasAmbiguous'[ingests'[i].session] <=> ingests'[i].decision.ambiguous
             /\ (ingests'[i].decision.alert = "ambiguous") <=>
                    (ingests'[i].decision.ambiguous /\ ~EndsAmbiguous(ingests[i].session)')
             /\ ingests'[i].session = ingests[i].session
             /\ ingests[i].session \in Sessions
  BY <1>1, NarratedIsRemembered, NarratingMoves
<1>2. \A s \in Sessions :
          (\A i \in Ingests : ~(ingests'[i].pc = "narrating" /\ ingests'[i].session = s)) =>
              (wasAmbiguous'[s] <=> EndsAmbiguous(s)')
  BY EndIsRemembered
<1> QED
  BY <1>1, <1>2, SpellsKept, NeverRestarts DEF AInv

\* In the life of a process, an ambiguous spell of a session alerts once, on
\* its first decision; a crash forgets the spell, and it may alert again.
THEOREM SpellAlertsOnce == ASSUME MaxCrashes = 0 PROVE Spec => []AmbiguitySpellAlertsOnce
<1>1. OInv /\ DInv /\ AInv /\ [OpenNext]_vars => AInv'
  BY NextSpells
<1>2. AInv => AmbiguitySpellAlertsOnce
  BY DEF AInv
<1> QED
  BY <1>1, <1>2, InitialSpells, DecisionInvariance, NextIsOpen, PTL DEF Spec

-----------------------------------------------------------------------------
(* What is corroborated is acted upon *)

\* The store, when its calls take turns and the database does as it is told.
StoreInv == TInv /\ FaultsCount /\ SInv /\ Unknown /\ RInv /\ CInv

\* Two change-points that corroborate each other.
Contradict(e, f) == e.flagged /\ f.flagged /\ e.bundle # f.bundle

\* What an ingestion under way has in the ledger is in its session's, and
\* from its batch.
Sourced(i) ==
    ingests[i].pc \in Waiting =>
        \A s \in Sessions : \A k \in 1..Len(ledger[s]) : ledger[s][k].ingest = i =>
            /\ s = ingests[i].session
            /\ ingests[i].pc \in { "appending", "listing" } /\ ledger[s][k].flagged =>
                   \E n \in 1..Len(ingests[i].batch) : ingests[i].batch[n].flagged

\* The store was told of everything that contradicts what the ingestion
\* brought: nobody has added to the ledger since.
WellInformed(i) ==
    ingests[i].pc = "evaluating" =>
        /\ ingests[i].events = ledger[ingests[i].session]
        /\ \A k, l \in 1..Len(ingests[i].events) :
               /\ ingests[i].events[k].ingest = i
               /\ Contradict(ingests[i].events[k], ingests[i].events[l])
               => calls[i].op.contradiction = "corroborated"

IsDecided(i) == ingests[i].pc \in { "narrating", "done" }

\* Two change-points that corroborate each other, and that were both decided
\* upon, are on file as a disqualification.
ActedUpon(s) ==
    \A k, l \in 1..Len(ledger[s]) :
        /\ IsDecided(ledger[s][k].ingest) /\ IsDecided(ledger[s][l].ingest)
        /\ Contradict(ledger[s][k], ledger[s][l])
        => EscalationsIn(LatestRecord(s)) >= 1

WInv ==
    /\ \A i \in Ingests : Sourced(i)
    /\ \A i \in Ingests : WellInformed(i)
    /\ \A s \in Sessions : ActedUpon(s)

\* The counters of faults stay numbers here too.
LEMMA FaultsKept == ASSUME FaultsCount, [OpenNext]_vars PROVE FaultsCount'
<1>1. ASSUME NEW orphans \in SUBSET Calls, Restart(orphans) PROVE FaultsCount'
  BY <1>1, CrashFaults DEF Restart
<1>2. CASE \/ UNCHANGED faults
           \/ faults' = [faults EXCEPT !.begun = @ + 1]
           \/ faults' = [faults EXCEPT !.failures = @ + 1]
           \/ faults' = [faults EXCEPT !.lostReplies = @ + 1]
  BY <1>2 DEF FaultsCount
<1> QED
  BY <1>1, <1>2, FaultsMove

\* Every step of the service keeps the store's invariant.
LEMMA StoreInvKept ==
    ASSUME Overlap = "none", MaxFailures = 0, MaxLostReplies = 0, MaxOrphans = 0,
           OInv, StoreInv, [OpenNext]_vars
    PROVE  StoreInv'
<1>1. StoreMoves /\ NInv /\ OrchTypes
  BY StoreView DEF OInv
<1>2. TInv' /\ FaultsCount'
  BY <1>1, OrchTrail, FaultsKept DEF StoreInv
<1>3. SInv' /\ Unknown' /\ RInv' /\ CInv'
  BY <1>1, NextSerial, NextUnknown, NextRests, NextConcluded DEF StoreInv
<1> QED
  BY <1>2, <1>3 DEF StoreInv

\* An entry of the ledger was there, or is the next event of an ingestion.
LEMMA EntryMoves ==
    ASSUME OInv, [OpenNext]_vars, NEW s \in Sessions, NEW k \in 1..Len(ledger'[s])
    PROVE  \/ k \in 1..Len(ledger[s]) /\ ledger'[s][k] = ledger[s][k]
           \/ \E j \in Ingests : /\ Appends(j) /\ s = ingests[j].session
                                 /\ ledger'[s][k] = NextEvent(j)
<1>1. CASE UNCHANGED ledger
  BY <1>1
<1>2. ASSUME NEW j \in Ingests, Appends(j)
      PROVE  \/ k \in 1..Len(ledger[s]) /\ ledger'[s][k] = ledger[s][k]
             \/ s = ingests[j].session /\ ledger'[s][k] = NextEvent(j)
  <2>1. CASE s # ingests[j].session
    BY <1>2, <2>1, LedgerEntries
  <2>2. CASE s = ingests[j].session
    <3>1. /\ Len(ledger[s]) \in Nat /\ Len(ledger'[s]) = Len(ledger[s]) + 1
          /\ ledger'[s][Len(ledger[s]) + 1] = NextEvent(j)
          /\ \A n \in 1..Len(ledger[s]) : ledger'[s][n] = ledger[s][n]
      BY <1>2, <2>2, LedgerEntries
    <3>2. k \in 1..Len(ledger[s]) \/ k = Len(ledger[s]) + 1
      BY <3>1
    <3> QED
      BY <2>2, <3>1, <3>2
  <2> QED
    BY <2>1, <2>2
<1> QED
  BY <1>1, <1>2, LedgerMoves

\* An ingestion under way has begun with this step, or goes on for its session
\* and with its batch.
LEMMA WorkGoesOn ==
    ASSUME OInv, [OpenNext]_vars, NEW i \in Ingests, ingests'[i].pc \in Waiting
    PROVE  \/ ingests[i].pc = "new"
           \/ /\ ingests[i].pc \in Waiting /\ ingests'[i].session = ingests[i].session
              /\ ingests'[i].pc \in { "queued", "appending", "listing" } =>
                     /\ ingests[i].pc \in { "queued", "appending", "listing" }
                     /\ ingests'[i].batch = ingests[i].batch
<1>0. OrchTypes /\ ingests \in [Ingests -> Idle \cup Admitted \cup Evaluating \cup Narrating]
  BY DEF OInv, OrchTypes
<1>1. CASE ingests'[i] = ingests[i]
  BY <1>1
<1>2. CASE ingests'[i].pc \in Finished
  BY <1>2 DEF Finished, Waiting
<1>3. CASE \E s \in Sessions, batch \in AnyBatch, now \in Nows : Enqueue(i, s, batch, now)
  BY <1>3 DEF Enqueue
<1>4. CASE Start(i) \/ AppendNext(i) \/ AllAppended(i)
  <2>1. ingests[i].pc \in { "queued", "appending" } /\ ingests[i] \in Admitted
    BY <1>0, <1>4, IngestByPc DEF Start, AppendNext, AllAppended
  <2>2. ingests'[i] \in { [ingests[i] EXCEPT !.pc = "appending"], [ingests[i] EXCEPT !.pc = "listing"],
                          [ingests[i] EXCEPT !.appended = @ + 1] }
    BY <1>0, <1>4 DEF Start, AppendNext, AllAppended
  <2>3. ingests'[i].session = ingests[i].session /\ ingests'[i].batch = ingests[i].batch
    BY <2>1, <2>2 DEF Admitted
  <2> QED
    BY <2>1, <2>3 DEF Waiting
<1>5. CASE \E score \in Scores : Score(i, score)
  BY <1>0, <1>5 DEF Score, Waiting
<1>6. CASE DecideOn(i) /\ DecisionOf(i).alert # "none"
  BY <1>0, <1>6 DEF DecideOn, DecisionOf, Waiting
<1> QED
  BY <1>1, <1>2, <1>3, <1>4, <1>5, <1>6, IngestMoves

\* Entries keep to the session and the batch they came from.
LEMMA SourcedKept ==
    ASSUME OInv, Unmixed, [OpenNext]_vars, NEW i \in Ingests, Sourced(i)
    PROVE  Sourced(i)'
<1> SUFFICES ASSUME ingests'[i].pc \in Waiting, NEW s \in Sessions, NEW k \in 1..Len(ledger'[s]),
                    ledger'[s][k].ingest = i
             PROVE  /\ s = ingests'[i].session
                    /\ ingests'[i].pc \in { "appending", "listing" } /\ ledger'[s][k].flagged =>
                           \E n \in 1..Len(ingests'[i].batch) : ingests'[i].batch[n].flagged
  BY DEF Sourced
<1>1. CASE k \in 1..Len(ledger[s]) /\ ledger'[s][k] = ledger[s][k]
  <2>1. ingests[i].pc \notin { "new", "queued" }
    BY <1>1 DEF Unmixed
  <2>2. /\ ingests[i].pc \in Waiting /\ ingests'[i].session = ingests[i].session
        /\ ingests'[i].pc \in { "appending", "listing" } =>
               /\ ingests[i].pc \in { "appending", "listing" }
               /\ ingests'[i].batch = ingests[i].batch
    BY <2>1, WorkGoesOn
  <2>3. /\ s = ingests[i].session
        /\ ingests[i].pc \in { "appending", "listing" } /\ ledger[s][k].flagged =>
               \E n \in 1..Len(ingests[i].batch) : ingests[i].batch[n].flagged
    BY <1>1, <2>2 DEF Sourced
  <2> QED
    BY <1>1, <2>2, <2>3
<1>2. ASSUME NEW j \in Ingests, Appends(j), s = ingests[j].session, ledger'[s][k] = NextEvent(j)
      PROVE  /\ s = ingests'[i].session
             /\ ingests'[i].pc \in { "appending", "listing" } /\ ledger'[s][k].flagged =>
                    \E n \in 1..Len(ingests'[i].batch) : ingests'[i].batch[n].flagged
  <2>1. /\ ingests[j].pc = "appending" /\ NextEvent(j).ingest = j
        /\ ingests[j].appended + 1 \in 1..Len(ingests[j].batch)
        /\ NextEvent(j).flagged = ingests[j].batch[ingests[j].appended + 1].flagged
    BY <1>2, NextEventType DEF Appends, OInv
  <2>2. i = j
    BY <1>2, <2>1
  <2>3. /\ ingests'[i].session = ingests[i].session
        /\ ingests'[i].pc \in { "appending", "listing" } => ingests'[i].batch = ingests[i].batch
    BY <2>1, <2>2, WorkGoesOn
  <2>4. ledger'[s][k].flagged => \E n \in 1..Len(ingests[i].batch) : ingests[i].batch[n].flagged
    BY <1>2, <2>1, <2>2
  <2> QED
    BY <1>2, <2>2, <2>3, <2>4
<1> QED
  BY <1>1, <1>2, EntryMoves

\* The bundles flagged in a sequence of events are finitely many.
LEMMA FlaggedBundlesFinite ==
    ASSUME NEW S, NEW events \in Seq(S)
    PROVE  IsFiniteSet(FlaggedBundles(events))
<1> DEFINE bundles == { events[k].bundle : k \in 1..Len(events) }
           seq == [k \in 1..Len(events) |-> events[k].bundle]
<1>1. seq \in Seq(bundles) /\ Len(seq) = Len(events) /\ \A k \in 1..Len(events) : seq[k] = events[k].bundle
  OBVIOUS
<1>2. \A b \in bundles : \E k \in 1..Len(seq) : seq[k] = b
  BY <1>1
<1>3. FlaggedBundles(events) \subseteq bundles
  BY DEF FlaggedBundles, ToSet
<1> HIDE DEF bundles, seq
<1>4. IsFiniteSet(bundles)
  BY <1>1, <1>2 DEF IsFiniteSet
<1> QED
  BY <1>3, <1>4, FS_Subset

\* Two things are two.
LEMMA PairCardinality ==
    ASSUME NEW x, NEW y, x # y
    PROVE  Cardinality({ x, y }) = 2
<1>1. IsFiniteSet({ x }) /\ Cardinality({ x }) = 1
  BY FS_Singleton
<1>2. { x, y } = { x } \cup { y } /\ y \notin { x }
  OBVIOUS
<1> QED
  BY <1>1, <1>2, FS_AddElement

\* Two change-points that corroborate each other are seen as a corroborated
\* contradiction by whoever brings one of them.
LEMMA ContradictionIsSeen ==
    ASSUME OInv, NEW i \in Ingests, Sourced(i), ingests[i].pc = "listing",
           NEW s \in Sessions, s = ingests[i].session,
           NEW k \in 1..Len(ledger[s]), NEW l \in 1..Len(ledger[s]),
           ledger[s][k].ingest = i, Contradict(ledger[s][k], ledger[s][l])
    PROVE  ExtractContradictionSignal(ingests[i].batch, ledger[s]) = "corroborated"
<1>1. ingests[i] \in Admitted /\ ledger[s] \in Seq(LedgerEvent)
  BY IngestByPc DEF OInv, OrchTypes
<1> DEFINE batch == ingests[i].batch
           events == ledger[s]
<1>2. batch \in Seq([bundle : STRING, flagged : BOOLEAN]) /\ events \in Seq(LedgerEvent)
  BY <1>1 DEF Admitted, AnyBatch
<1>3. PICK n \in 1..Len(batch) : batch[n].flagged
  BY DEF Sourced, Waiting, Contradict
<1>4. /\ events[k] \in ToSet(events) /\ events[k].flagged
      /\ events[l] \in ToSet(events) /\ events[l].flagged
      /\ events[k].bundle # events[l].bundle
  BY <1>2 DEF ToSet, Contradict
<1> HIDE DEF batch, events
<1>5. FlaggedBundles(batch) # {}
  <2>1. batch[n] \in ToSet(batch)
    BY <1>2, <1>3 DEF ToSet
  <2>2. batch[n].bundle \in FlaggedBundles(batch)
    BY <1>3, <2>1 DEF FlaggedBundles
  <2> QED
    BY <2>2
<1>6. IsFiniteSet(FlaggedBundles(events) \cup FlaggedBundles(batch))
  BY <1>2, FlaggedBundlesFinite, FS_Union
<1>7. { events[k].bundle, events[l].bundle } \subseteq FlaggedBundles(events) \cup FlaggedBundles(batch)
  BY <1>4 DEF FlaggedBundles
<1>8. Cardinality({ events[k].bundle, events[l].bundle }) = 2
  BY <1>4, PairCardinality
<1>9. Cardinality(FlaggedBundles(events) \cup FlaggedBundles(batch)) >= 2
  <2>1. Cardinality({ events[k].bundle, events[l].bundle })
            <= Cardinality(FlaggedBundles(events) \cup FlaggedBundles(batch))
    BY <1>6, <1>7, FS_Subset
  <2> QED
    BY <1>6, <1>8, <2>1, FS_CardinalityType
<1> QED
  BY <1>5, <1>9 DEF ExtractContradictionSignal, batch, events

\* The store stays told of everything: the ledger of the session does not grow
\* while one of its ingestions is evaluated.
LEMMA WellInformedKept ==
    ASSUME OInv, [OpenNext]_vars, NEW i \in Ingests, Sourced(i), WellInformed(i)
    PROVE  WellInformed(i)'
<1> SUFFICES ASSUME ingests'[i].pc = "evaluating"
             PROVE  /\ ingests'[i].events = ledger'[ingests'[i].session]
                    /\ \A k, l \in 1..Len(ingests'[i].events) :
                           /\ ingests'[i].events[k].ingest = i
                           /\ Contradict(ingests'[i].events[k], ingests'[i].events[l])
                           => calls'[i].op.contradiction = "corroborated"
  BY DEF WellInformed, Contradict
<1>1. ASSUME NEW score \in Scores, Score(i, score)
      PROVE  /\ ingests'[i].events = ledger'[ingests'[i].session]
             /\ \A k, l \in 1..Len(ingests'[i].events) :
                    /\ ingests'[i].events[k].ingest = i
                    /\ Contradict(ingests'[i].events[k], ingests'[i].events[l])
                    => calls'[i].op.contradiction = "corroborated"
  <2>1. /\ ingests[i].pc = "listing" /\ UNCHANGED ledger
        /\ ingests'[i].session = ingests[i].session
        /\ ingests'[i].events = ledger[ingests[i].session]
        /\ calls'[i].op.contradiction =
               ExtractContradictionSignal(ingests[i].batch, ledger[ingests[i].session])
    BY <1>1, ScoredCall
  <2>2. PICK s \in Sessions : s = ingests[i].session
    BY <2>1, IngestByPc DEF Admitted, OInv
  <2>3. ASSUME NEW k \in 1..Len(ledger[s]), NEW l \in 1..Len(ledger[s]),
               ledger[s][k].ingest = i, Contradict(ledger[s][k], ledger[s][l])
        PROVE  calls'[i].op.contradiction = "corroborated"
    BY <2>1, <2>2, <2>3, ContradictionIsSeen
  <2> QED
    BY <2>1, <2>2, <2>3
<1>2. CASE ingests'[i] = ingests[i] /\ calls'[i].op = calls[i].op
  <2>1. PICK s \in Sessions : s = ingests[i].session
    BY <1>2, IngestByPc DEF Evaluating, OInv
  <2>2. ASSUME NEW j \in Ingests, Appends(j) PROVE ledger'[s] = ledger[s]
    <3>1. ingests[j].pc = "appending"
      BY <2>2 DEF Appends
    <3>2. ingests[j].session # s
      BY <1>2, <2>1, <3>1, OneAtWork DEF OInv, Waiting
    <3> QED
      BY <2>2, <3>2, LedgerEntries
  <2>3. ledger'[s] = ledger[s]
    BY <2>2, LedgerMoves
  <2> QED
    BY <1>2, <2>1, <2>3 DEF WellInformed
<1> QED
  BY <1>1, <1>2, EvaluationGoesOn

\* An ingestion is decided upon by its decision.
LEMMA DecidedMoves ==
    ASSUME OInv, [OpenNext]_vars, NEW i \in Ingests, IsDecided(i)'
    PROVE  IsDecided(i) \/ DecideOn(i)
<1>0. ingests \in [Ingests -> Idle \cup Admitted \cup Evaluating \cup Narrating]
  BY DEF OInv, OrchTypes
<1>1. ASSUME UNCHANGED ingests PROVE IsDecided(i)
  BY <1>1 DEF IsDecided
<1>2. ASSUME NEW j \in Ingests, NEW s \in Sessions, NEW batch \in AnyBatch, NEW now \in Nows,
             Enqueue(j, s, batch, now)
      PROVE  IsDecided(i)
  BY <1>0, <1>2 DEF Enqueue, IsDecided
<1>3. ASSUME NEW j \in Ingests, IngestStep(j) \/ LedgerFails(j) \/ LedgerReplyLost(j)
      PROVE  IsDecided(i) \/ DecideOn(i)
  <2>1. CASE i # j
    <3>1. PICK ing : ingests' = [ingests EXCEPT ![j] = ing]
      BY <1>3, WorkOrEnd
    <3> QED
      BY <1>0, <2>1, <3>1 DEF IsDecided
  <2>2. CASE i = j
    <3>1. CASE LedgerFails(i) \/ LedgerReplyLost(i) \/ StoreFails(i)
      BY <1>0, <3>1 DEF LedgerFails, LedgerReplyLost, StoreFails, Reject, End, IsDecided
    <3>2. CASE Publish(i) \/ DecideOn(i)
      BY <3>2 DEF Publish, IsDecided
    <3>3. CASE Start(i) \/ AppendNext(i) \/ AllAppended(i)
      <4>1. ingests[i].pc \in { "queued", "appending" } /\ ingests[i] \in Admitted
        BY <3>3, IngestByPc DEF Start, AppendNext, AllAppended, OInv
      <4>2. ingests'[i] \in { [ingests[i] EXCEPT !.pc = "appending"], [ingests[i] EXCEPT !.pc = "listing"],
                              [ingests[i] EXCEPT !.appended = @ + 1] }
        BY <1>0, <3>3 DEF Start, AppendNext, AllAppended
      <4>3. ingests'[i].pc \in { "appending", "listing", "queued" }
        BY <4>1, <4>2 DEF Admitted
      <4> QED
        BY <4>3 DEF IsDecided
    <3>4. CASE \E score \in Scores : Score(i, score)
      BY <1>0, <3>4 DEF Score, IsDecided
    <3> QED
      BY <1>3, <2>2, <3>1, <3>2, <3>3, <3>4 DEF IngestStep
  <2> QED
    BY <2>1, <2>2
<1>4. ASSUME NEW orphans \in SUBSET Calls, Restart(orphans) PROVE IsDecided(i)
  BY <1>4 DEF Restart, IsDecided
<1>5. CASE Serve
  BY <1>1, <1>3, <1>5 DEF Serve, ApplyHumanOverride, StoreStep, orchVars
<1> QED
  BY <1>1, <1>2, <1>4, <1>5 DEF OpenNext, vars, orchVars

\* When an ingestion is decided upon, what it brought and what contradicts it
\* is on file.
LEMMA DecisionActs ==
    ASSUME OInv, StoreInv, NEW i \in Ingests, Sourced(i), WellInformed(i), DecideOn(i),
           NEW s \in Sessions, NEW k \in 1..Len(ledger[s]), NEW l \in 1..Len(ledger[s]),
           ledger[s][k].ingest = i,
           Contradict(ledger[s][k], ledger[s][l]) \/ Contradict(ledger[s][l], ledger[s][k])
    PROVE  EscalationsIn(LatestRecord(s)) >= 1
<1>1. /\ ingests[i].pc = "evaluating" /\ calls[i].pc = "returned"
      /\ i \in Calls /\ Linked(i)
  BY IngestsAssumption DEF DecideOn, OInv
<1>2. s = ingests[i].session /\ ingests[i].events = ledger[s]
  BY <1>1 DEF Sourced, WellInformed, Waiting
<1>3. Contradict(ledger[s][k], ledger[s][l])
  BY DEF Contradict
<1>4. calls[i].op.contradiction = "corroborated"
  BY <1>1, <1>2, <1>3 DEF WellInformed
<1>5. calls[i] # NoCall /\ calls[i].session = s /\ calls[i].op.kind = "evaluate"
  BY <1>1, <1>2 DEF Linked, NoCall
<1>6. Concluded(calls[i], LatestRecord(s))
  BY <1>1, <1>5 DEF StoreInv, CInv
<1> QED
  BY <1>1, <1>4, <1>5, <1>6 DEF Concluded

\* What was acted upon stays on file, and a decision acts upon the rest.
LEMMA ActedUponKept ==
    ASSUME Overlap = "none", OInv, StoreInv, WInv, [OpenNext]_vars, NEW s \in Sessions
    PROVE  ActedUpon(s)'
<1>1. ASSUME NEW k \in 1..Len(ledger'[s]), NEW i \in Ingests, ledger'[s][k].ingest = i, IsDecided(i)'
      PROVE  k \in 1..Len(ledger[s]) /\ ledger'[s][k] = ledger[s][k]
  <2>1. ASSUME NEW j \in Ingests, Appends(j), ledger'[s][k] = NextEvent(j) PROVE FALSE
    <3>1. ingests[j].pc = "appending" /\ NextEvent(j).ingest = j
      BY <2>1, NextEventType DEF Appends, OInv
    <3>2. i = j
      BY <1>1, <2>1, <3>1
    <3> QED
      BY <1>1, <3>1, <3>2, DecidedMoves DEF IsDecided, DecideOn
  <2> QED
    BY <2>1, EntryMoves
<1>2. ASSUME NEW k \in 1..Len(ledger'[s])
      PROVE  ledger'[s][k].ingest \in Ingests
  <2>1. ledger'[s] \in Seq(LedgerEvent)
    BY NextOrch DEF OInv, OrchTypes
  <2>2. ledger'[s][k] \in LedgerEvent
    BY <2>1
  <2> QED
    BY <2>2 DEF LedgerEvent
<1>3. ASSUME EscalationsIn(LatestRecord(s)) >= 1 PROVE EscalationsIn(LatestRecord(s)') >= 1
  <2>1. /\ LatestRecord(s) \in MaybeRecord /\ LatestRecord(s)' \in MaybeRecord
        /\ Continues(LatestRecord(s)', LatestRecord(s))
    BY FileGrows DEF StoreInv
  <2>2. /\ EscalationsIn(LatestRecord(s)) \in Nat /\ EscalationsIn(LatestRecord(s)') \in Nat
        /\ EscalationsIn(LatestRecord(s)) <= EscalationsIn(LatestRecord(s)')
    BY <2>1, EscalationsGrow
  <2> QED
    BY <1>3, <2>2
<1>4. ASSUME NEW k \in 1..Len(ledger'[s]), NEW l \in 1..Len(ledger'[s]),
             ingests'[ledger'[s][k].ingest].pc \in { "narrating", "done" },
             ingests'[ledger'[s][l].ingest].pc \in { "narrating", "done" },
             Contradict(ledger'[s][k], ledger'[s][l])
      PROVE  EscalationsIn(LatestRecord(s)') >= 1
  <2>1. PICK i, j \in Ingests : i = ledger'[s][k].ingest /\ j = ledger'[s][l].ingest
    BY <1>2
  <2>2. IsDecided(i)' /\ IsDecided(j)'
    BY <1>4, <2>1 DEF IsDecided
  <2>3. /\ k \in 1..Len(ledger[s]) /\ ledger'[s][k] = ledger[s][k]
        /\ l \in 1..Len(ledger[s]) /\ ledger'[s][l] = ledger[s][l]
    BY <1>1, <2>1, <2>2
  <2>4. i = ledger[s][k].ingest /\ j = ledger[s][l].ingest /\ Contradict(ledger[s][k], ledger[s][l])
    BY <1>4, <2>1, <2>3
  <2>5. CASE DecideOn(i) \/ DecideOn(j)
    BY <1>3, <2>3, <2>4, <2>5, DecisionActs DEF WInv
  <2>6. CASE IsDecided(i) /\ IsDecided(j)
    BY <1>3, <2>3, <2>4, <2>6 DEF WInv, ActedUpon
  <2> QED
    BY <2>2, <2>5, <2>6, DecidedMoves
<1> QED
  BY <1>4 DEF ActedUpon, IsDecided, Contradict, EscalationsIn

\* Every step keeps the ingestions informed and their findings acted upon.
LEMMA NextActed ==
    ASSUME Overlap = "none", OInv, Unmixed, StoreInv, WInv, [OpenNext]_vars
    PROVE  WInv'
<1>1. ASSUME NEW i \in Ingests PROVE Sourced(i)' /\ WellInformed(i)'
  BY SourcedKept, WellInformedKept DEF WInv
<1>2. ASSUME NEW s \in Sessions PROVE ActedUpon(s)'
  BY ActedUponKept
<1> QED
  BY <1>1, <1>2 DEF WInv

\* Nothing is under way at first, and nothing in the ledger.
LEMMA InitialActed == Init => StoreInv /\ WInv
<1> SUFFICES ASSUME Init PROVE StoreInv /\ WInv
  OBVIOUS
<1>1. StoreInv
  BY InitialTrail, InitialSerial, InitialRest, InitialConcluded DEF Init, StoreInv
<1>2. /\ \A i \in Ingests : ingests[i].pc = "new"
      /\ \A s \in Sessions : ledger[s] = << >>
  BY DEF Init
<1>3. WInv
  BY <1>2 DEF WInv, Sourced, WellInformed, ActedUpon, Waiting
<1> QED
  BY <1>1, <1>3

\* Nothing failed and nobody was lost.
Untroubled ==
    /\ \A i \in Ingests : ingests[i].pc \notin { "rejected", "lost" }
    /\ \A c \in Calls : calls[c].pc # "failed"

\* Where the database refuses nothing and loses no reply, no call fails.
LEMMA NoCallFails ==
    ASSUME MaxFailures = 0, MaxLostReplies = 0, OInv, FaultsCount, Untroubled, StoreMoves,
           NEW c \in Calls
    PROVE  calls'[c].pc # "failed"
<1>0. /\ calls \in [Calls -> CallRecord \cup {NoCall}] /\ calls[c].pc # "failed"
      /\ faults.failures \in Nat /\ faults.lostReplies \in Nat
  BY DEF OInv, NInv, Types, Untroubled, FaultsCount
<1>1. CASE UNCHANGED << memory, recovered, nextSequence, snapshots, calls, acknowledged >>
  BY <1>0, <1>1
<1>2. ASSUME NEW d \in Calls, NEW s \in Sessions, NEW op \in Evaluations \cup Overrides, Begin(d, s, op)
      PROVE  calls'[c].pc # "failed"
  <2>1. PICK pc \in { "acting", "loading" } :
            calls' = [calls EXCEPT ![d] = [pc |-> pc, session |-> s, op |-> op,
                                           loaded |-> NoRecord, result |-> NoRecord,
                                           sequence |-> -1]]
    BY <1>2 DEF Begin
  <2> QED
    BY <1>0, <2>1
<1>3. ASSUME NEW d \in Calls, CallStep(d) \/ Settle(d) PROVE calls'[c].pc # "failed"
  <2>0. calls[d].pc # "idle" => calls[d] \in CallRecord
    BY Begun DEF OInv, NInv
  <2>1. CASE LoadLatest(d) \/ Restore(d)
    <3>1. \/ calls' = [calls EXCEPT ![d] = [calls[d] EXCEPT !.pc = "restoring",
                                                            !.loaded = LatestRecord(calls[d].session),
                                                            !.sequence = LatestSequence(calls[d].session)]]
          \/ calls' = [calls EXCEPT ![d] = [calls[d] EXCEPT !.pc = "acting", !.loaded = NoRecord,
                                                            !.sequence = -1]]
      BY <1>0, <2>1 DEF LoadLatest, Restore
    <3>2. calls[d] \in CallRecord
      BY <2>0, <2>1 DEF LoadLatest, Restore
    <3> QED
      BY <1>0, <3>1, <3>2, ZenonT(60) DEF CallRecord
  <2>2. CASE Act(d)
    <3> DEFINE result == Outcome(calls[d].session, calls[d].op)
               pc == IF result.transitioned THEN "saving" ELSE "returned"
               sequence == IF result.transitioned THEN nextSequence[calls[d].session] ELSE -1
    <3>1. /\ calls' = [calls EXCEPT ![d] = [calls[d] EXCEPT !.pc = pc, !.result = result.record,
                                                            !.sequence = sequence]]
          /\ pc \in { "saving", "returned" }
      BY <1>0, <2>2 DEF Act
    <3>2. calls[d] \in CallRecord
      BY <2>0, <2>2 DEF Act
    <3> HIDE DEF result, pc, sequence
    <3> QED
      BY <1>0, <3>1, <3>2 DEF CallRecord
  <2>3. CASE Save(d) \/ Advance(d)
    <3>1. PICK pc \in { "saved", "collided", "returned" } : calls' = [calls EXCEPT ![d].pc = pc]
      BY <2>3 DEF Save, Advance, Goto
    <3>2. calls[d] \in CallRecord
      BY <2>0, <2>3 DEF Save, Advance
    <3> QED
      BY <1>0, <3>1, <3>2 DEF CallRecord
  <2>4. CASE Fail(d) \/ LoseReply(d)
    BY <1>0, <2>4 DEF Fail, LoseReply
  <2>5. CASE OrphanSave(d) \/ Settle(d)
    BY <1>0, <2>5 DEF OrphanSave, Settle, NoCall
  <2> QED
    BY <1>3, <2>1, <2>2, <2>3, <2>4, <2>5 DEF CallStep
<1>4. ASSUME NEW orphans \in SUBSET Calls, Crash(orphans) PROVE calls'[c].pc # "failed"
  <2>1. calls'[c] = IF c \in orphans THEN [calls[c] EXCEPT !.pc = "orphaned"]
                    ELSE IF calls[c].pc = "orphaned" THEN calls[c] ELSE NoCall
    BY <1>4 DEF Crash
  <2>2. c \in orphans => calls[c] \in CallRecord
    BY <1>4, Begun DEF Crash, OInv, NInv
  <2> QED
    BY <1>0, <2>1, <2>2 DEF CallRecord, NoCall
<1> QED
  BY <1>1, <1>2, <1>3, <1>4 DEF StoreMoves

\* And no ingestion is rejected.
LEMMA NextUntroubled ==
    ASSUME MaxFailures = 0, MaxLostReplies = 0, MaxCrashes = 0,
           OInv, StoreInv, Untroubled, [OpenNext]_vars
    PROVE  Untroubled'
<1>0. /\ ingests \in [Ingests -> Idle \cup Admitted \cup Evaluating \cup Narrating]
      /\ faults.failures \in Nat /\ faults.lostReplies \in Nat /\ faults.crashes \in Nat
      /\ StoreMoves
  BY StoreView DEF OInv, OrchTypes, StoreInv, FaultsCount
<1>1. ASSUME NEW c \in Calls PROVE calls'[c].pc # "failed"
  BY <1>0, NoCallFails DEF StoreInv
<1>2. ASSUME NEW i \in Ingests, ingests'[i].pc \in { "rejected", "lost" } PROVE FALSE
  <2>0. ingests[i].pc \notin { "rejected", "lost" }
    BY DEF Untroubled
  <2>1. ASSUME UNCHANGED ingests PROVE FALSE
    BY <1>2, <2>0, <2>1
  <2>2. ASSUME NEW j \in Ingests, NEW s \in Sessions, NEW batch \in AnyBatch, NEW now \in Nows,
               Enqueue(j, s, batch, now)
        PROVE  FALSE
    BY <1>0, <1>2, <2>0, <2>2 DEF Enqueue
  <2>3. ASSUME NEW j \in Ingests, LedgerFails(j) \/ LedgerReplyLost(j) PROVE FALSE
    BY <1>0, <2>3 DEF LedgerFails, LedgerReplyLost
  <2>4. ASSUME NEW j \in Ingests, IngestStep(j) PROVE FALSE
    <3>1. CASE i # j
      <4>1. PICK ing : ingests' = [ingests EXCEPT ![j] = ing]
        BY <2>4, WorkOrEnd
      <4> QED
        BY <1>0, <1>2, <2>0, <3>1, <4>1
    <3>2. CASE i = j
      <4>1. CASE StoreFails(i)
        <5>1. /\ i \in Calls /\ calls[i].pc = "collided" /\ calls[i] # NoCall
              /\ \E s \in Sessions : s = calls[i].session
          BY <4>1, IngestsAssumption, Begun DEF StoreFails, Untroubled, OInv, NInv, CallRecord
        <5>2. calls[i].pc # "collided"
          BY <5>1 DEF StoreInv, SInv, Exact
        <5> QED
          BY <5>1, <5>2
      <4>2. CASE Start(i) \/ AppendNext(i) \/ AllAppended(i)
        <5>1. ingests[i].pc \in { "queued", "appending" } /\ ingests[i] \in Admitted
          BY <4>2, IngestByPc DEF Start, AppendNext, AllAppended, OInv
        <5>2. ingests'[i] \in { [ingests[i] EXCEPT !.pc = "appending"], [ingests[i] EXCEPT !.pc = "listing"],
                                [ingests[i] EXCEPT !.appended = @ + 1] }
          BY <1>0, <4>2 DEF Start, AppendNext, AllAppended
        <5> QED
          BY <1>2, <5>1, <5>2 DEF Admitted
      <4>3. CASE \E score \in Scores : Score(i, score)
        BY <1>0, <1>2, <4>3 DEF Score
      <4>4. CASE DecideOn(i) \/ Publish(i)
        BY <1>0, <1>2, <4>4 DEF DecideOn, Publish, End
      <4> QED
        BY <2>4, <3>2, <4>1, <4>2, <4>3, <4>4 DEF IngestStep
    <3> QED
      BY <3>1, <3>2
  <2>5. ASSUME NEW orphans \in SUBSET Calls, Restart(orphans) PROVE FALSE
    BY <1>0, <2>5 DEF Restart, Crash
  <2>6. ASSUME Serve PROVE FALSE
    BY <2>1, <2>3, <2>4, <2>6 DEF Serve, ApplyHumanOverride, StoreStep, orchVars
  <2> QED
    BY <2>1, <2>2, <2>5, <2>6 DEF OpenNext, vars, orchVars
<1> QED
  BY <1>1, <1>2 DEF Untroubled

\* A set of two at least has two members.
LEMMA TwoMembers ==
    ASSUME NEW S, Cardinality(S) >= 2
    PROVE  \E x, y \in S : x # y
<1>1. S # {}
  BY FS_EmptySet
<1>2. PICK x \in S : TRUE
  BY <1>1
<1>3. S # { x }
  BY FS_Singleton, SMTT(20)
<1> QED
  BY <1>2, <1>3

\* The invariants together, for any batches.
LEMMA ActedInvariance ==
    ASSUME Overlap = "none", MaxFailures = 0, MaxLostReplies = 0, MaxOrphans = 0
    PROVE  /\ Init => OInv /\ DInv /\ LInv /\ StoreInv /\ WInv
           /\ OInv /\ DInv /\ LInv /\ StoreInv /\ WInv /\ [OpenNext]_vars =>
                  OInv' /\ DInv' /\ LInv' /\ StoreInv' /\ WInv'
<1>1. Init => OInv /\ DInv /\ LInv /\ StoreInv /\ WInv
  BY InitialOrch, InitialDecisions, InitialLedger, InitialActed
<1>2. OInv /\ DInv /\ LInv /\ [OpenNext]_vars => LInv'
  BY InformedKept, UnmixedKept DEF LInv
<1>3. OInv /\ StoreInv /\ [OpenNext]_vars => StoreInv'
  BY StoreInvKept
<1>4. OInv /\ LInv /\ StoreInv /\ WInv /\ [OpenNext]_vars => WInv'
  BY NextActed DEF LInv
<1> QED
  BY <1>1, <1>2, <1>3, <1>4, NextOrch, NextDecisions

\* Two bundles flagged in the ledger, and the session at rest: the
\* disqualification is on file, in whichever batches and order the
\* change-points came and whatever humans decided meanwhile.
THEOREM CorroborationActs ==
    ASSUME Overlap = "none", MaxFailures = 0, MaxLostReplies = 0, MaxCrashes = 0, MaxOrphans = 0
    PROVE  Spec => []CorroborationEscalates
<1>1. Init => Untroubled
  BY DEF Init, StoreInit, Untroubled, NoCall
<1>2. OInv /\ StoreInv /\ Untroubled /\ [OpenNext]_vars => Untroubled'
  BY NextUntroubled
<1>3. OInv /\ LInv /\ WInv /\ Untroubled => CorroborationEscalates
  <2> SUFFICES ASSUME OInv, LInv, WInv, Untroubled, NEW s \in Sessions, AtRest(s),
                      Cardinality(FlaggedBundles(ledger[s])) >= 2
               PROVE  /\ LatestRecord(s) # NoRecord
                      /\ LatestRecord(s).disqualificationAnnotations # << >>
    BY DEF CorroborationEscalates
  <2>1. ledger[s] \in Seq(LedgerEvent) /\ DOMAIN ledger[s] = 1..Len(ledger[s])
    BY DEF OInv, OrchTypes
  <2>2. PICK a, b \in FlaggedBundles(ledger[s]) : a # b
    BY TwoMembers
  <2>3. PICK k, l \in 1..Len(ledger[s]) : Contradict(ledger[s][k], ledger[s][l])
    BY <2>1, <2>2 DEF FlaggedBundles, ToSet, Contradict
  <2>4. ASSUME NEW n \in 1..Len(ledger[s]) PROVE IsDecided(ledger[s][n].ingest)
    <3>1. PICK i \in Ingests : i = ledger[s][n].ingest
      <4>1. ledger[s][n] \in LedgerEvent
        BY <2>1
      <4> QED
        BY <4>1 DEF LedgerEvent
    <3>2. ingests[i].pc \notin { "new", "queued", "rejected", "lost" }
      BY <3>1 DEF LInv, Unmixed, Untroubled
    <3>3. ingests[i].pc \notin Waiting
      <4>1. SUFFICES ASSUME ingests[i].pc \in Waiting PROVE FALSE
        OBVIOUS
      <4>2. Waits(i, s)
        BY <3>1, <4>1 DEF WInv, Sourced, Waits
      <4>3. Len(chain[s]) = 0
        BY DEF AtRest
      <4> QED
        BY <4>2, <4>3 DEF OInv, Turns
    <3>4. ingests[i].pc \in { "new" } \cup Waiting \cup Finished
      BY DEF OInv, OrchTypes, Idle, Admitted, Evaluating, Narrating, Waiting, Finished
    <3> QED
      BY <3>1, <3>2, <3>3, <3>4 DEF Waiting, Finished, IsDecided
  <2>5. EscalationsIn(LatestRecord(s)) >= 1
    BY <2>3, <2>4 DEF WInv, ActedUpon
  <2> QED
    BY <2>5 DEF EscalationsIn
<1> QED
  BY <1>1, <1>2, <1>3, ActedInvariance, NextIsOpen, PTL DEF Spec

-----------------------------------------------------------------------------
(* An event on its way into the ledger *)

\* An event of this bundle that ingestion i carries a change-point in: in its
\* batch until the batch is written, in the ledger afterwards.
Carried(i, s, bundle) ==
    /\ ingests[i].pc # "new"
    /\ ingests[i].pc \in { "queued", "appending", "listing" } =>
           /\ ingests[i].session = s
           /\ \E n \in 1..Len(ingests[i].batch) :
                  ingests[i].batch[n].bundle = bundle /\ ingests[i].batch[n].flagged
    /\ ingests[i].pc \in { "evaluating", "narrating", "done" } =>
           \E k \in 1..Len(ledger[s]) :
               /\ ledger[s][k].ingest = i
               /\ ledger[s][k].bundle = bundle /\ ledger[s][k].flagged

\* What has begun does not begin again, and what has not begun only enqueues.
LEMMA BegunStays ==
    ASSUME OInv, [OpenNext]_vars, NEW i \in Ingests, ingests'[i].pc = "new"
    PROVE  ingests[i].pc = "new"
<1>0. ingests \in [Ingests -> Idle \cup Admitted \cup Evaluating \cup Narrating]
  BY DEF OInv, OrchTypes
<1>1. CASE Start(i) \/ AppendNext(i) \/ AllAppended(i)
  <2>1. ingests[i].pc \in { "queued", "appending" } /\ ingests[i] \in Admitted
    BY <1>1, IngestByPc DEF Start, AppendNext, AllAppended, OInv
  <2>2. ingests'[i] \in { [ingests[i] EXCEPT !.pc = "appending"], [ingests[i] EXCEPT !.pc = "listing"],
                          [ingests[i] EXCEPT !.appended = @ + 1] }
    BY <1>0, <1>1 DEF Start, AppendNext, AllAppended
  <2>3. ingests'[i].pc # "new"
    BY <2>1, <2>2 DEF Admitted
  <2> QED
    BY <2>3
<1>2. CASE \E s \in Sessions, batch \in AnyBatch, now \in Nows : Enqueue(i, s, batch, now)
  BY <1>2 DEF Enqueue
<1>3. CASE \E score \in Scores : Score(i, score)
  BY <1>0, <1>3 DEF Score
<1>4. CASE DecideOn(i) /\ DecisionOf(i).alert # "none"
  BY <1>0, <1>4 DEF DecideOn
<1> QED
  BY <1>1, <1>2, <1>3, <1>4, IngestMoves DEF Finished

\* An event is carried on by every step.
LEMMA CarriedOn ==
    ASSUME OInv, DInv, [OpenNext]_vars, NEW i \in Ingests, NEW s \in Sessions, NEW bundle,
           Carried(i, s, bundle)
    PROVE  Carried(i, s, bundle)'
<1>1. ingests'[i].pc # "new"
  BY BegunStays DEF Carried
<1>2. ASSUME ingests'[i].pc \in { "queued", "appending", "listing" }
      PROVE  /\ ingests'[i].session = s
             /\ \E n \in 1..Len(ingests'[i].batch) :
                    ingests'[i].batch[n].bundle = bundle /\ ingests'[i].batch[n].flagged
  <2>1. /\ ingests'[i].session = ingests[i].session /\ ingests'[i].batch = ingests[i].batch
        /\ ingests[i].pc \in { "queued", "appending", "listing" }
    <3>1. ingests'[i].pc \in Waiting /\ ingests[i].pc # "new"
      BY <1>2 DEF Waiting, Carried
    <3>2. \/ ingests[i].pc = "new"
          \/ /\ ingests[i].pc \in Waiting /\ ingests'[i].session = ingests[i].session
             /\ ingests'[i].pc \in { "queued", "appending", "listing" } =>
                    /\ ingests[i].pc \in { "queued", "appending", "listing" }
                    /\ ingests'[i].batch = ingests[i].batch
      BY <3>1, WorkGoesOn
    <3> QED
      BY <1>2, <3>1, <3>2
  <2> QED
    BY <2>1 DEF Carried
<1>3. ASSUME NEW k \in 1..Len(ledger[s]), ledger[s][k].ingest = i, ledger[s][k].bundle = bundle,
             ledger[s][k].flagged
      PROVE  \E n \in 1..Len(ledger'[s]) :
                 /\ ledger'[s][n].ingest = i
                 /\ ledger'[s][n].bundle = bundle /\ ledger'[s][n].flagged
  BY <1>3, LedgerGrows
<1>4. ASSUME ingests[i].pc \in { "evaluating", "narrating", "done" }
      PROVE  \E n \in 1..Len(ledger'[s]) :
                 /\ ledger'[s][n].ingest = i
                 /\ ledger'[s][n].bundle = bundle /\ ledger'[s][n].flagged
  BY <1>3, <1>4 DEF Carried
<1>5. ASSUME NEW score \in Scores, Score(i, score)
      PROVE  \E n \in 1..Len(ledger'[s]) :
                 /\ ledger'[s][n].ingest = i
                 /\ ledger'[s][n].bundle = bundle /\ ledger'[s][n].flagged
  <2>1. ingests[i].pc = "listing"
    BY <1>5 DEF Score
  <2>2. PICK n \in 1..Len(ingests[i].batch) :
            ingests[i].session = s /\ ingests[i].batch[n].bundle = bundle /\ ingests[i].batch[n].flagged
    BY <2>1 DEF Carried
  <2>3. PICK k \in 1..Len(ledger[s]) :
            /\ ledger[s][k].ingest = i
            /\ ledger[s][k].bundle = ingests[i].batch[n].bundle
            /\ ledger[s][k].flagged = ingests[i].batch[n].flagged
    <3>1. Recorded(i) /\ Appended(i) = Len(ingests[i].batch)
      BY <2>1 DEF DInv, Appended
    <3>2. \E k \in 1..Len(ledger[ingests[i].session]) :
              /\ ledger[ingests[i].session][k].ingest = i
              /\ ledger[ingests[i].session][k].bundle = ingests[i].batch[n].bundle
              /\ ledger[ingests[i].session][k].flagged = ingests[i].batch[n].flagged
      BY <2>1, <3>1 DEF Recorded
    <3> QED
      BY <2>2, <3>2
  <2> QED
    BY <1>3, <2>2, <2>3
<1>6. ASSUME ingests'[i].pc \in { "evaluating", "narrating", "done" }
      PROVE  \E n \in 1..Len(ledger'[s]) :
                 /\ ledger'[s][n].ingest = i
                 /\ ledger'[s][n].bundle = bundle /\ ledger'[s][n].flagged
  <2>1. CASE ingests'[i].pc = "evaluating"
    BY <1>4, <1>5, <2>1, EvaluationGoesOn
  <2>2. CASE ingests'[i].pc # "evaluating"
    <3>1. IsDecided(i)'
      BY <1>6, <2>2 DEF IsDecided
    <3>2. ingests[i].pc \in { "evaluating", "narrating", "done" }
      BY <3>1, DecidedMoves DEF IsDecided, DecideOn
    <3> QED
      BY <1>4, <3>2
  <2> QED
    BY <2>1, <2>2
<1> QED
  BY <1>1, <1>2, <1>6 DEF Carried

=============================================================================
