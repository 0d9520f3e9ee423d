---------------------------- MODULE FtsMigration ----------------------------
(***************************************************************************)
(* The rebuild of the keyword index for schema 2,                          *)
(* scripts/migrate_fts_v1_to_v2.py: a process beside the service that      *)
(* writes the chunks Qdrant holds of every document into the FTS table.    *)
(* CREATE VIRTUAL TABLE IF NOT EXISTS keeps a table that is there, with    *)
(* the columns it has.  Step 5 jobs of the service write the same table    *)
(* through connections of their own.                                       *)
(*                                                                         *)
(* A document's chunks and rows are the set of the versions they are of.   *)
(***************************************************************************)
EXTENDS Integers, FiniteSets, SequencesExt, Selection

CONSTANTS DocOrder,       \* the documents as list_doc_hashes sorts them
          BusyTries,      \* max_attempts of retry_on_sqlite_busy
          MaxMigrations,  \* bound: runs of the script
          MaxUpdates,     \* bound: Step 5 jobs
          Same            \* not changed by the open transaction

Docs == Range(DocOrder)

ASSUME MigrationAssumption ==
    /\ DocOrder \in Seq(Docs) /\ IsInjective(DocOrder)
    /\ BusyTries \in Nat \ {0} /\ MaxMigrations \in Nat

VARIABLES
    schema,     \* of the table in the file; 0: there is none
    stored,     \* versions Qdrant holds of a document
    ftsRows,    \* versions of its FTS rows, committed
    updating,   \* documents with a job between Qdrant and FTS
    openRows,   \* rows in the script's open transaction, or Same
    place,      \* "idle", "fetch", "wipe", "insert"
    apply,      \* --apply
    docsLeft,   \* doc_hashes still to do
    fetched,    \* versions fetch_chunks_for_doc returned
    busyTry,    \* of the document
    success, failure,   \* documents counted
    exitWith,   \* of the last run; -1: it is running or was killed
    touched,    \* history: documents with a job since the run started
    troubled,   \* history: something failed since the run started
    migrations, updates

scriptVars == <<place, apply, docsLeft, fetched, busyTry, success, failure, exitWith, migrations>>
migrationVars == <<schema, stored, ftsRows, updating, openRows, scriptVars, touched, troubled, updates>>

MigrationTypeOK ==
    /\ schema \in 0 .. 2 /\ apply \in BOOLEAN /\ troubled \in BOOLEAN
    /\ stored \in [Docs -> SUBSET (0 .. MaxUpdates)]
    /\ ftsRows \in [Docs -> SUBSET (0 .. MaxUpdates)]
    /\ updating \subseteq Docs /\ touched \subseteq Docs
    /\ openRows \in [Docs -> SUBSET (0 .. MaxUpdates) \cup {Same}]
    /\ place \in {"idle", "fetch", "wipe", "insert"} /\ docsLeft \in Seq(Docs)
    /\ fetched \subseteq 0 .. MaxUpdates /\ busyTry \in 1 .. BusyTries
    /\ success \subseteq Docs /\ failure \subseteq Docs
    /\ exitWith \in -1 .. 2 /\ migrations \in 0 .. MaxMigrations /\ updates \in 0 .. MaxUpdates

(* Documents of version 0, indexed in a table of schema 1, or in none yet. *)
MigrationInit ==
    /\ schema \in 0 .. 2
    /\ stored \in [Docs -> {{}, {0}}]
    /\ ftsRows = [d \in Docs |-> IF schema = 1 THEN stored[d] ELSE {}]
    /\ updating = {} /\ openRows = [d \in Docs |-> Same]
    /\ place = "idle" /\ apply = FALSE /\ docsLeft = <<>> /\ fetched = {} /\ busyTry = 1
    /\ success = {} /\ failure = {} /\ exitWith = -1
    /\ touched = {} /\ troubled = FALSE /\ migrations = 0 /\ updates = 0
-----------------------------------------------------------------------------
Committed == [d \in Docs |-> IF openRows[d] = Same THEN ftsRows[d] ELSE openRows[d]]

NothingOpen == [d \in Docs |-> Same]

(* Step 5: the points of the new version replace the old ones, then the    *)
(* rows, which a failed write leaves as they were or wiped.                *)
UpdatePoints(d) ==
    /\ updates < MaxUpdates /\ d \notin updating
    /\ updates' = updates + 1 /\ stored' = [stored EXCEPT ![d] = {updates + 1}]
    /\ updating' = updating \cup {d} /\ touched' = touched \cup {d}
    /\ UNCHANGED <<schema, ftsRows, openRows, scriptVars, troubled>>

UpdateRows(d) ==
    /\ d \in updating /\ updating' = updating \ {d}
    /\ schema' = IF schema = 0 THEN 2 ELSE schema
    /\ ftsRows' \in {ftsRows} \cup
         IF openRows # NothingOpen THEN {}
         ELSE {[ftsRows EXCEPT ![d] = r] : r \in {{}} \cup (IF schema' = 2 THEN {stored[d]} ELSE {})}
    /\ UNCHANGED <<stored, openRows, scriptVars, touched, troubled, updates>>
-----------------------------------------------------------------------------
(* main, migrate: the documents Qdrant has points of, the first N of them  *)
(* with --limit.  A failing start-up or listing ends the run with 1.       *)
StartMigration ==
    /\ place = "idle" /\ migrations < MaxMigrations /\ migrations' = migrations + 1
    /\ apply' \in BOOLEAN
    /\ fetched' = {} /\ busyTry' = 1 /\ success' = {} /\ failure' = {}
    /\ touched' = updating
    /\ \/ /\ schema' = IF schema = 0 THEN 2 ELSE schema
          /\ LET listed == Selected(DocOrder, {d \in Docs : stored[d] # {}})
             IN  \E limit \in IF apply' THEN 0 .. Len(listed) ELSE {Len(listed)} :
                    docsLeft' = SubSeq(listed, 1, limit)
          /\ place' = "fetch" /\ exitWith' = -1 /\ troubled' = FALSE
       \/ /\ exitWith' = 1 /\ troubled' = TRUE
          /\ UNCHANGED <<schema, docsLeft, place>>
    /\ UNCHANGED <<stored, ftsRows, updating, openRows, updates>>

NextDoc(ok, failed) ==
    /\ success' = success \cup ok /\ failure' = failure \cup failed
    /\ docsLeft' = Tail(docsLeft) /\ place' = "fetch" /\ busyTry' = 1

(* fetch_chunks_for_doc: none left, a dry run, or chunks to write.         *)
FetchDoc ==
    /\ place = "fetch" /\ docsLeft # <<>>
    /\ LET d == Head(docsLeft)
       IN  /\ fetched' = stored[d]
           /\ \/ /\ stored[d] # {} /\ apply
                 /\ place' = "wipe" /\ UNCHANGED <<docsLeft, busyTry, success, failure, troubled>>
              \/ /\ stored[d] = {} \/ ~apply
                 /\ NextDoc(IF stored[d] = {} THEN {} ELSE {d}, {}) /\ UNCHANGED troubled
              \/ NextDoc({}, {d}) /\ troubled' = TRUE
    /\ UNCHANGED <<schema, stored, ftsRows, updating, openRows, apply, exitWith, touched, migrations, updates>>

(* Faulty: the wrapper returns after the last attempt instead of raising.  *)
Busy_Swallowed ==
    IF busyTry < BusyTries
    THEN busyTry' = busyTry + 1 /\ place' = "wipe" /\ UNCHANGED <<docsLeft, success, failure>>
    ELSE NextDoc({Head(docsLeft)}, {})

(* retry_on_sqlite_busy: replace_doc from its start, or the last error.    *)
Busy ==
    IF busyTry < BusyTries
    THEN busyTry' = busyTry + 1 /\ place' = "wipe" /\ UNCHANGED <<docsLeft, success, failure>>
    ELSE NextDoc({}, {Head(docsLeft)})

(* delete_by_doc, whose commit lands whatever the transaction holds.  When *)
(* the commit is what is busy, the deletion stays in the transaction.      *)
WipeRows ==
    /\ place = "wipe"
    /\ LET d == Head(docsLeft)
       IN  \/ /\ ftsRows' = [Committed EXCEPT ![d] = {}] /\ openRows' = NothingOpen
              /\ place' = "insert" /\ UNCHANGED <<docsLeft, busyTry, success, failure, troubled>>
           \/ /\ openRows' \in {openRows, [openRows EXCEPT ![d] = {}]}
              /\ troubled' = TRUE /\ Busy /\ UNCHANGED ftsRows
    /\ UNCHANGED <<schema, stored, updating, apply, fetched, exitWith, touched, migrations, updates>>

(* The inserts of replace_doc.  A table of schema 1 has no column          *)
(* form_fields_text: an error that is not retried.                         *)
InsertRows ==
    /\ place = "insert"
    /\ LET d == Head(docsLeft)
       IN  \/ /\ schema = 1 /\ NextDoc({}, {d}) /\ UNCHANGED <<ftsRows, openRows, troubled>>
           \/ /\ schema = 2 /\ ftsRows' = [ftsRows EXCEPT ![d] = fetched]
              /\ NextDoc({d}, {}) /\ UNCHANGED <<openRows, troubled>>
           \/ /\ schema = 2 /\ openRows' \in {openRows, [openRows EXCEPT ![d] = fetched]}
              /\ troubled' = TRUE /\ Busy /\ UNCHANGED ftsRows
    /\ UNCHANGED <<schema, stored, updating, apply, fetched, exitWith, touched, migrations, updates>>

(* The end of main; a process that ends rolls its transaction back.        *)
EndMigration ==
    /\ place = "fetch" /\ docsLeft = <<>>
    /\ exitWith' = IF failure = {} THEN 0 ELSE IF success # {} THEN 2 ELSE 1
    /\ place' = "idle" /\ openRows' = NothingOpen
    /\ UNCHANGED <<schema, stored, ftsRows, updating, apply, docsLeft, fetched, busyTry, success,
                   failure, touched, troubled, migrations, updates>>

KillMigration ==
    /\ place # "idle" /\ place' = "idle" /\ docsLeft' = <<>> /\ openRows' = NothingOpen
    /\ troubled' = TRUE
    /\ UNCHANGED <<schema, stored, ftsRows, updating, apply, fetched, busyTry, success, failure,
                   exitWith, touched, migrations, updates>>

MigrationNext ==
    \/ \E d \in Docs : UpdatePoints(d) \/ UpdateRows(d)
    \/ StartMigration \/ FetchDoc \/ WipeRows \/ InsertRows \/ EndMigration \/ KillMigration

MigrationSpec == MigrationInit /\ [][MigrationNext]_migrationVars
-----------------------------------------------------------------------------
(* A run that counted a document as migrated left in the keyword index     *)
(* exactly the chunks Qdrant holds of it, whatever was busy on the way and *)
(* whatever an earlier run left behind, unless a job of the document ran   *)
(* since the run started.                                                  *)
MigratedMeansIndexed ==
    apply /\ place = "idle" => \A d \in success \ touched : ftsRows[d] = stored[d]

(* "Idempotent: replace_doc atomically wipes + writes per doc_hash, so     *)
(* re-running after partial failure converges to the same end state"       *)
(* (lines 16 and 17 of the script): a run in which nothing was busy, no    *)
(* call failed and no job interfered takes no document out of the index.   *)
RerunConverges ==
    (apply /\ exitWith # -1 /\ ~troubled /\ touched = {})
        => \A d \in success \cup failure : ftsRows[d] = stored[d]
=============================================================================
