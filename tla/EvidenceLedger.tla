--------------------------- MODULE EvidenceLedger ---------------------------
(* One session's rows of the evidence ledger: append and listAllBySession of
   persistence/evidenceEventRepository.ts behind the encrypting decorator of
   security/encryptingEvidenceEventRepository.ts. A read pages with LIMIT and
   OFFSET over several queries, while other replicas may append. *)
EXTENDS Naturals, FiniteSets, Sequences, SequencesExt

CONSTANTS Times,
    Bundles,            \* the bundles that occur
    EncryptedBundles,   \* those whose values are sealed at rest
    EncryptionKeys,     \* keys the replicas are configured with
    NoKey,
    MaxListLimit,       \* MAX_LIST_LIMIT
    MaxRows

ASSUME LedgerAssumption ==
    /\ Times \subseteq Nat
    /\ EncryptedBundles \subseteq Bundles
    /\ NoKey \notin EncryptionKeys
    /\ MaxListLimit \in Nat \ {0}
    /\ MaxRows \in Nat

VARIABLES
    ledger,     \* the rows; a row's id is random, so any of its rank among ids
    read,       \* a call of listAllBySession in the process looked at
    encryptionKey   \* that process's configured key

ledgerVars == << ledger, read, encryptionKey >>

\* What append stores: a sealed value knows its key, a null value is not sealed.
Row(id, at, bundle, hasValue, with) ==
    [id |-> id, at |-> at,
     sealed |-> IF bundle \in EncryptedBundles /\ hasValue THEN with ELSE NoKey]

\* ORDER BY occurred_at, id
Before(row, other) == row.at < other.at \/ (row.at = other.at /\ row.id < other.id)

\* The rows in that order: each at the place that the number of rows before it gives.
Ordered(rows) ==
    [place \in 1 .. Cardinality(rows) |->
        CHOOSE row \in rows : Cardinality({ other \in rows : Before(other, row) }) = place - 1]

NotReading == [phase |-> "idle", all |-> << >>, offset |-> 0, present |-> {}, overtaken |-> FALSE]

LedgerInit ==
    /\ ledger = {}
    /\ read = NotReading
    /\ encryptionKey \in EncryptionKeys

\* An insert of any replica executes. overtaken notes, for the read under way,
\* that the row sorts before a row the read has already been given.
AppendRow(row) ==
    /\ Cardinality(ledger) < MaxRows
    /\ \A other \in ledger : other.id # row.id
    /\ ledger' = ledger \union { row }
    /\ read' = [read EXCEPT !.overtaken = @ \/ \E i \in DOMAIN read.all : Before(row, read.all[i])]
    /\ UNCHANGED encryptionKey

ListAllBySession ==
    /\ read.phase # "paging"
    /\ read' = [NotReading EXCEPT !.phase = "paging", !.present = ledger]
    /\ UNCHANGED << ledger, encryptionKey >>

\* Rows are counted from one.
PageFromOne(offset) ==
    LET rows == Ordered(ledger)
    IN SubSeq(rows, offset + 2, Min({ offset + 1 + MaxListLimit, Len(rows) }))

\* listBySession's query: LIMIT MaxListLimit OFFSET offset.
Page(offset) ==
    LET rows == Ordered(ledger)
    IN SubSeq(rows, offset + 1, Min({ offset + MaxListLimit, Len(rows) }))

\* decryptIfNeeded throws on a row sealed with another key.
Readable(rows) == \A i \in DOMAIN rows : rows[i].sealed \in { NoKey, encryptionKey }

\* One page executes and is added; a page that is not full is the last, and
\* then every value is decrypted.
ReadPage ==
    LET page == Page(read.offset)
        all == read.all \o page
    IN
    /\ read.phase = "paging"
    /\ read' = [read EXCEPT !.all = all, !.offset = @ + Len(page),
                            !.phase = IF Len(page) = MaxListLimit THEN "paging"
                                      ELSE IF Readable(all) THEN "read" ELSE "failed"]
    /\ UNCHANGED << ledger, encryptionKey >>

\* The query is refused.
ReadFails ==
    /\ read.phase = "paging"
    /\ read' = [read EXCEPT !.phase = "failed"]
    /\ UNCHANGED << ledger, encryptionKey >>

\* The process is restarted with another key.
Rekey(other) ==
    /\ encryptionKey # other
    /\ encryptionKey' = other
    /\ read' = NotReading
    /\ UNCHANGED ledger

LedgerNext ==
    \/ \E id \in 1 .. MaxRows, at \in Times, bundle \in Bundles, hasValue \in BOOLEAN,
          with \in EncryptionKeys : AppendRow(Row(id, at, bundle, hasValue, with))
    \/ ListAllBySession \/ ReadPage \/ ReadFails
    \/ \E other \in EncryptionKeys : Rekey(other)

LedgerSpec == LedgerInit /\ [][LedgerNext]_ledgerVars
----------------------------------------------------------------------------
\* A finished read holds every row that was there when it began, whatever was
\* appended between its pages: "fusion must never silently truncate
\* mid-session history" (evidenceEventRepository.ts). It is in order and gives
\* no row twice, unless a row was appended meanwhile that sorts before one
\* already read: fusion adds one likelihood per row it is given, so a row given
\* twice counts twice.
ReadsAreComplete ==
    read.phase = "read" =>
        /\ read.present \subseteq Range(read.all)
        /\ ~read.overtaken => read.all = Ordered(Range(read.all))
=============================================================================
