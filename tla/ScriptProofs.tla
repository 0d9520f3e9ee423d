---------------------------- MODULE ScriptProofs ----------------------------
(***************************************************************************)
(* Proofs about the scripts that drive the service from outside: the       *)
(* re-ingestion of a corpus, the bulk import, and the migration of the FTS *)
(* database.                                                               *)
(***************************************************************************)
EXTENDS Reingest, BulkImport, FtsMigration, DataProofs
-----------------------------------------------------------------------------
(***************************************************************************)
(* Proofs about Reingest: what the checkpoint calls completed is indexed   *)
(* as version 2, for any number of bundles, runs and retries.              *)
(*                                                                         *)
(* The status route answers for a document and not for a version.  That a  *)
(* "success" is about version 2 rests on the row of a run: an acknowledged *)
(* notification means that the bundle has one unless it was misheard, and  *)
(* with a row of version 1 that is settled, nothing moves `newest' back to *)
(* it.                                                                     *)
(***************************************************************************)

Statuses == {"none", "QUEUED", "PENDING", "COMPLETED", "FAILED"}

(* The parts of the type invariant that the argument needs.                *)
ReingestTyped ==
    /\ rows \in [Bundles -> [0 .. MaxReingests -> Statuses]]
    /\ newest \in [Bundles -> 0 .. MaxReingests]
    /\ indexedAs \in [Bundles -> 0 .. 2]
    /\ left \subseteq Bundles
    /\ completed \subseteq Bundles /\ toRetry \subseteq Bundles /\ mislabeled \subseteq Bundles
    /\ failed \subseteq Bundles \X {"none", "timeout", "failed"}
    /\ lastStatus \in {"none", "timeout"}
    /\ reingests \in 0 .. MaxReingests
    /\ step # "idle" => reingests > 0
    /\ step = "poll" => left # {}

(* A settled row of version 1 stays settled.                               *)
OldSettled ==
    \A b \in Bundles : b \notin lateOld => rows[b][0] \notin Settling

(* A row of some run means that the newest row is of a run, and that there *)
(* is such a row.                                                          *)
NewestIsOfARun ==
    \A b \in Bundles : b \notin lateOld =>
        /\ \A n \in 1 .. MaxReingests : rows[b][n] # "none" => newest[b] > 0
        /\ newest[b] > 0 => rows[b][newest[b]] # "none"

(* A completed row of a run means version 2.                               *)
CompletedRowIsIndexed ==
    \A b \in Bundles, n \in 1 .. MaxReingests : rows[b][n] = "COMPLETED" => indexedAs[b] = 2

(* Only a bundle that had a row of version 1 can be indexed as version 1.  *)
NewIsTwoOrNothing ==
    \A b \in Bundles : b \notin hadOld => rows[b][0] = "none" /\ indexedAs[b] # 1

(* The bundle that is polled has a row of a run, if it was heard right.    *)
PolledHasRow ==
    step = "poll" /\ Current \notin lateOld \cup misheard => newest[Current] > 0

ReingestInv ==
    /\ ReingestTyped
    /\ lateOld \subseteq hadOld
    /\ OldSettled
    /\ NewestIsOfARun
    /\ CompletedRowIsIndexed
    /\ NewIsTwoOrNothing
    /\ PolledHasRow
    /\ SkippedIsReingested

(* What the loop is at is one of the bundles still to do.                  *)
LEMMA CurrentIsLeft == left # {} => Current \in left
BY DEF Current

(* What is changed at the checkpoint, and when, by the two operators.      *)
LEMMA NextAttemptKeeps ==
    ASSUME ReingestTyped, NEW b \in Bundles, NEW status \in {"none", "timeout"}, NextAttempt(b, status)
    PROVE  /\ left' \subseteq left /\ step' = "notify" /\ completed' = completed
           /\ failed' \subseteq Bundles \X {"none", "timeout", "failed"}
           /\ lastStatus' \in {"none", "timeout"}
BY DEF ReingestTyped, NextAttempt, Recorded

(* A "success" of the status route, for a bundle with a row of a run.      *)
LEMMA SuccessIsVersionTwo ==
    ASSUME ReingestInv, NEW b \in Bundles, DocStatus(b) = "success",
           b \notin hadOld \/ (b \notin lateOld /\ newest[b] > 0)
    PROVE  indexedAs[b] = 2
<1>1. indexedAs[b] > 0 /\ rows[b][newest[b]] \notin Settling \cup {"FAILED"}
  BY DEF DocStatus, Settling
<1>2. newest[b] \in 0 .. MaxReingests /\ indexedAs[b] \in 0 .. 2 /\ rows[b][newest[b]] \in Statuses
  BY DEF ReingestInv, ReingestTyped
<1>3. CASE b \notin hadOld
  BY <1>1, <1>2, <1>3 DEF ReingestInv, NewIsTwoOrNothing
<1>4. CASE b \notin lateOld /\ newest[b] > 0
  <2>1. newest[b] \in 1 .. MaxReingests /\ rows[b][newest[b]] # "none"
    BY <1>2, <1>4, ReingestAssumption DEF ReingestInv, NewestIsOfARun
  <2>2. rows[b][newest[b]] = "COMPLETED"
    BY <1>1, <1>2, <2>1 DEF Statuses, Settling
  <2> QED BY <2>1, <2>2 DEF ReingestInv, CompletedRowIsIndexed
<1> QED BY <1>3, <1>4

(* The newest row stays the newest where nothing is inserted.              *)
LEMMA CurrentStays == UNCHANGED left => UNCHANGED Current
BY DEF Current
-----------------------------------------------------------------------------
(* What a step of the service may do to the rows, the newest row and the   *)
(* index, and no more.                                                     *)
OfTheService ==
    /\ UNCHANGED <<oldVars, misheard, driverVars, classes>>
    /\ rows' \in [Bundles -> [0 .. MaxReingests -> Statuses]]
    /\ newest' \in [Bundles -> 0 .. MaxReingests]
    /\ indexedAs' \in [Bundles -> 0 .. 2]
    /\ \A c \in Bundles, m \in 0 .. MaxReingests :
         \/ rows'[c][m] = rows[c][m]
         \/ /\ rows[c][m] \in Settling /\ rows'[c][m] \notin {"none", "COMPLETED"}
         \/ /\ rows[c][m] = "QUEUED" /\ rows'[c][m] = "COMPLETED"
            /\ m > 0 => indexedAs'[c] = 2
    /\ \A c \in Bundles : newest'[c] = newest[c] \/ rows[c][newest'[c]] = "QUEUED"
    /\ \A c \in Bundles :
         indexedAs'[c] \in {indexedAs[c], 2} \/ (rows[c][0] = "QUEUED" /\ indexedAs[c] # 2)

(* The end of a job is a step of the service.                              *)
LEMMA JobEndedIsServiceStep ==
    ASSUME ReingestTyped, NEW b \in Bundles, NEW n \in 0 .. MaxReingests, JobEnded(b, n)
    PROVE  OfTheService
<1> USE DEF Statuses
<1>1. /\ rows[b][n] = "QUEUED" /\ newest' = [newest EXCEPT ![b] = n]
      /\ UNCHANGED <<oldVars, misheard, driverVars, classes>>
  BY DEF JobEnded
<1>2. newest' \in [Bundles -> 0 .. MaxReingests]
      /\ \A c \in Bundles : newest'[c] = newest[c] \/ rows[c][newest'[c]] = "QUEUED"
  BY <1>1 DEF ReingestTyped
<1>3. CASE /\ rows' = [rows EXCEPT ![b][n] = "COMPLETED"]
           /\ indexedAs' = [indexedAs EXCEPT ![b] = IF n = 0 /\ @ = 0 THEN 1
                                                    ELSE IF n = 0 THEN @ ELSE 2]
  <2>1. rows' \in [Bundles -> [0 .. MaxReingests -> Statuses]]
    BY <1>3 DEF ReingestTyped
  <2>2. indexedAs' \in [Bundles -> 0 .. 2]
    BY <1>3 DEF ReingestTyped
  <2>3. \A c \in Bundles, m \in 0 .. MaxReingests :
          rows'[c][m] = IF c = b /\ m = n THEN "COMPLETED" ELSE rows[c][m]
    BY <1>3 DEF ReingestTyped
  <2>4. \A c \in Bundles :
          indexedAs'[c] = IF c # b \/ (n = 0 /\ indexedAs[c] # 0) THEN indexedAs[c]
                          ELSE IF n = 0 THEN 1 ELSE 2
    BY <1>3 DEF ReingestTyped
  <2>5. \A c \in Bundles, m \in 0 .. MaxReingests :
          \/ rows'[c][m] = rows[c][m]
          \/ /\ rows[c][m] = "QUEUED" /\ rows'[c][m] = "COMPLETED"
             /\ m > 0 => indexedAs'[c] = 2
    BY <1>1, <2>3, <2>4
  <2>6. \A c \in Bundles :
          indexedAs'[c] \in {indexedAs[c], 2} \/ (rows[c][0] = "QUEUED" /\ indexedAs[c] # 2)
    BY <1>1, <2>4
  <2> QED BY <1>1, <1>2, <2>1, <2>2, <2>5, <2>6 DEF OfTheService
<1>4. CASE rows' = [rows EXCEPT ![b][n] = "FAILED"] /\ UNCHANGED indexedAs
  <2>1. rows' \in [Bundles -> [0 .. MaxReingests -> Statuses]]
    BY <1>4 DEF ReingestTyped
  <2>2. \A c \in Bundles, m \in 0 .. MaxReingests :
          rows'[c][m] = IF c = b /\ m = n THEN "FAILED" ELSE rows[c][m]
    BY <1>4 DEF ReingestTyped
  <2> QED BY ZenonT(60), <1>1, <1>2, <1>4, <2>1, <2>2 DEF OfTheService, Settling, ReingestTyped
<1> QED BY <1>3, <1>4 DEF JobEnded

(* So is the failure of a waiting row.                                     *)
LEMMA PendingFailsIsServiceStep ==
    ASSUME ReingestTyped, NEW b \in Bundles, NEW n \in 0 .. MaxReingests, PendingFails(b, n)
    PROVE  OfTheService
<1> USE DEF Statuses
<1>1. /\ rows[b][n] = "PENDING" /\ rows' = [rows EXCEPT ![b][n] = "FAILED"]
      /\ UNCHANGED <<newest, indexedAs, oldVars, misheard, driverVars, classes>>
  BY DEF PendingFails
<1>2. rows' \in [Bundles -> [0 .. MaxReingests -> Statuses]]
  BY <1>1 DEF ReingestTyped
<1>3. \A c \in Bundles, m \in 0 .. MaxReingests :
        rows'[c][m] = IF c = b /\ m = n THEN "FAILED" ELSE rows[c][m]
  BY <1>1 DEF ReingestTyped
<1> QED BY ZenonT(60), <1>1, <1>2, <1>3 DEF OfTheService, Settling, ReingestTyped

(* So is the expiry of a lock.                                             *)
LEMMA TurnLockExpiresIsServiceStep ==
    ASSUME ReingestTyped, NEW b \in Bundles, TurnLockExpires(b)
    PROVE  OfTheService
BY DEF TurnLockExpires, OfTheService, ReingestTyped, Statuses

(* So is a restart.                                                        *)
LEMMA PodRestartsIsServiceStep ==
    ASSUME ReingestTyped, PodRestarts
    PROVE  OfTheService
<1>1. UNCHANGED <<newest, indexedAs, oldVars, misheard, driverVars, classes>>
  BY DEF PodRestarts
<1>2. \A c \in Bundles, m \in 0 .. MaxReingests :
        rows'[c][m] = IF rows[c][m] = "QUEUED" THEN "PENDING" ELSE rows[c][m]
  BY DEF PodRestarts
<1>3. rows' \in [Bundles -> [0 .. MaxReingests -> Statuses]]
  BY DEF PodRestarts, ReingestTyped, Statuses
<1> QED BY ZenonT(60), <1>1, <1>2, <1>3 DEF OfTheService, Settling, ReingestTyped

(* Steps of the service keep the invariant.                                *)
LEMMA ServiceKeeps ==
    ASSUME ReingestInv, OfTheService
    PROVE  ReingestInv'
<1> USE ReingestAssumption
<1>1. /\ ReingestTyped /\ OldSettled /\ NewestIsOfARun /\ CompletedRowIsIndexed /\ NewIsTwoOrNothing
      /\ PolledHasRow /\ SkippedIsReingested /\ lateOld \subseteq hadOld
  BY DEF ReingestInv
<1>2. /\ UNCHANGED <<lateOld, hadOld, misheard, left, step, completed, failed, lastStatus, reingests>>
      /\ UNCHANGED <<toRetry, mislabeled>> /\ UNCHANGED Current
  BY CurrentStays DEF OfTheService, oldVars, driverVars, classes
<1>3. ReingestTyped'
  BY <1>1, <1>2 DEF ReingestTyped, OfTheService
<1>4. \A c \in Bundles : newest[c] \in 0 .. MaxReingests /\ newest'[c] \in 0 .. MaxReingests
  BY <1>1, <1>3 DEF ReingestTyped
<1>5. OldSettled'
  <2> SUFFICES ASSUME NEW c \in Bundles, c \notin lateOld PROVE rows'[c][0] \notin Settling
    BY <1>2 DEF OldSettled
  <2>1. rows[c][0] \notin Settling /\ 0 \in 0 .. MaxReingests
    BY <1>1 DEF OldSettled
  <2> QED BY <2>1 DEF OfTheService, Settling
<1>6. \A c \in Bundles : c \notin lateOld =>
        newest'[c] = newest[c] \/ (newest'[c] \in 1 .. MaxReingests /\ rows[c][newest'[c]] = "QUEUED")
  <2> SUFFICES ASSUME NEW c \in Bundles, c \notin lateOld, newest'[c] # newest[c]
               PROVE  newest'[c] \in 1 .. MaxReingests /\ rows[c][newest'[c]] = "QUEUED"
    OBVIOUS
  <2>1. rows[c][newest'[c]] = "QUEUED"
    BY DEF OfTheService
  <2>2. rows[c][0] # "QUEUED"
    BY <1>1 DEF OldSettled, Settling
  <2> QED BY <1>4, <2>1, <2>2
<1>7. \A c \in Bundles, m \in 0 .. MaxReingests : rows'[c][m] = "none" <=> rows[c][m] = "none"
  BY DEF OfTheService, Settling
<1>8. NewestIsOfARun'
  <2> SUFFICES ASSUME NEW c \in Bundles, c \notin lateOld
               PROVE  /\ \A m \in 1 .. MaxReingests : rows'[c][m] # "none" => newest'[c] > 0
                      /\ newest'[c] > 0 => rows'[c][newest'[c]] # "none"
    BY <1>2 DEF NewestIsOfARun
  <2>2. /\ \A m \in 1 .. MaxReingests : rows[c][m] # "none" => newest[c] > 0
        /\ newest[c] > 0 => rows[c][newest[c]] # "none"
    BY <1>1 DEF NewestIsOfARun
  <2>3. rows[c][newest'[c]] = "none" => newest'[c] = newest[c]
    BY <1>6
  <2>4. newest[c] > 0 => newest'[c] > 0
    BY <1>4, <1>6
  <2> QED BY <1>4, <1>7, <2>2, <2>3, <2>4
<1>9. \A c \in Bundles : indexedAs[c] = 2 => indexedAs'[c] = 2
  BY DEF OfTheService
<1>10. CompletedRowIsIndexed'
  BY <1>1, <1>9 DEF CompletedRowIsIndexed, OfTheService, Settling
<1>11. NewIsTwoOrNothing'
  <2> SUFFICES ASSUME NEW c \in Bundles, c \notin hadOld
               PROVE  rows'[c][0] = "none" /\ indexedAs'[c] # 1
    BY <1>2 DEF NewIsTwoOrNothing
  <2>1. rows[c][0] = "none" /\ indexedAs[c] # 1 /\ 0 \in 0 .. MaxReingests
    BY <1>1 DEF NewIsTwoOrNothing
  <2> QED BY <1>7, <2>1 DEF OfTheService
<1>12. PolledHasRow'
  <2> SUFFICES ASSUME step = "poll", Current \notin lateOld \cup misheard PROVE newest'[Current] > 0
    BY <1>2 DEF PolledHasRow
  <2>1. Current \in Bundles
    BY <1>1, CurrentIsLeft DEF ReingestTyped
  <2> QED BY <1>1, <1>4, <1>6, <2>1 DEF PolledHasRow
<1>13. SkippedIsReingested'
  BY <1>1, <1>2, <1>9 DEF SkippedIsReingested, ReingestTyped
<1> QED
  BY <1>1, <1>2, <1>3, <1>5, <1>8, <1>10, <1>11, <1>12, <1>13 DEF ReingestInv

(* Steps that leave the rows alone: what is left of the invariant.         *)
LEMMA RowsUntouched ==
    ASSUME ReingestInv, UNCHANGED <<rowVars, oldVars>>
    PROVE  /\ OldSettled' /\ NewestIsOfARun' /\ CompletedRowIsIndexed' /\ NewIsTwoOrNothing'
           /\ lateOld' \subseteq hadOld'
BY DEF ReingestInv, rowVars, oldVars, OldSettled, NewestIsOfARun, CompletedRowIsIndexed,
       NewIsTwoOrNothing

(* Steps of the script that neither notify nor end a poll.                 *)
LEMMA DriverKeeps ==
    ASSUME ReingestInv, StartReingest \/ CopyBundles \/ EndReingest
    PROVE  ReingestInv'
<1> USE ReingestAssumption
<1>1. UNCHANGED <<rowVars, oldVars, misheard, completed, failed, classes>> /\ step' # "poll"
  BY DEF StartReingest, CopyBundles, EndReingest
<1>2. ReingestTyped'
  BY <1>1 DEF ReingestInv, ReingestTyped, StartReingest, CopyBundles, EndReingest, rowVars, classes
<1>3. PolledHasRow' /\ SkippedIsReingested'
  BY <1>1 DEF ReingestInv, PolledHasRow, SkippedIsReingested, rowVars, oldVars, classes
<1> QED
  BY <1>1, <1>2, <1>3, RowsUntouched DEF ReingestInv

(* A look at the status of a bundle keeps the invariant.                   *)
LEMMA ClassifyKeeps ==
    ASSUME ReingestInv, Classify
    PROVE  ReingestInv'
<1>1. UNCHANGED <<rowVars, oldVars, misheard, driverVars>> /\ UNCHANGED left
  BY DEF Classify, driverVars
<1>2. Undecided \subseteq Bundles
  BY DEF ReingestInv, ReingestTyped, Undecided
<1>3. /\ toRetry' \subseteq Bundles /\ mislabeled' \subseteq Bundles
      /\ \A b \in mislabeled' : DocStatus(b) = "success"
  BY <1>2 DEF Classify
<1>4. ReingestTyped'
  BY <1>1, <1>3 DEF ReingestInv, ReingestTyped, rowVars, driverVars
<1>5. PolledHasRow'
  BY <1>1, CurrentStays DEF ReingestInv, PolledHasRow, rowVars, oldVars, driverVars
<1>6. SkippedIsReingested'
  <2>1. \A b \in mislabeled' \ hadOld : indexedAs[b] = 2
    BY <1>3, SuccessIsVersionTwo
  <2> QED
    BY <1>1, <2>1 DEF ReingestInv, SkippedIsReingested, rowVars, oldVars, driverVars
<1> QED
  BY <1>1, <1>4, <1>5, <1>6, RowsUntouched DEF ReingestInv

(* The end of a poll: the checkpoint gains the bundle that is indexed.     *)
LEMMA PollKeeps ==
    ASSUME ReingestInv, PollBundle
    PROVE  ReingestInv'
<1> DEFINE b == Current
<1>1. b \in left /\ b \in Bundles
  BY CurrentIsLeft DEF ReingestInv, ReingestTyped, PollBundle
<1> HIDE DEF b
<1>2. UNCHANGED <<rowVars, oldVars, misheard, classes, reingests>> /\ step = "poll" /\ ReingestTyped
  BY DEF PollBundle, ReingestInv
<1>3. /\ left' \subseteq left /\ step' = "notify"
      /\ failed' \subseteq Bundles \X {"none", "timeout", "failed"}
      /\ lastStatus' \in {"none", "timeout"}
      /\ completed' = completed \/ (DocStatus(b) = "success" /\ completed' = completed \cup {b})
  <2>1. CASE NextAttempt(b, "timeout")
    <3>1. "timeout" \in {"none", "timeout"}
      OBVIOUS
    <3> QED BY <1>1, <1>2, <2>1, <3>1, NextAttemptKeeps
  <2>2. CASE DocStatus(b) = "success" /\ Recorded(b, "success")
    BY <1>1, <1>2, <2>2 DEF Recorded, ReingestTyped
  <2>3. CASE Recorded(b, "failed")
    BY <1>1, <1>2, <2>3 DEF Recorded, ReingestTyped
  <2> QED
    BY <2>1, <2>2, <2>3 DEF PollBundle, b
<1>4. ReingestTyped'
  BY <1>1, <1>2, <1>3 DEF ReingestTyped, rowVars, classes
<1>5. b \in completed' \ (lateOld \cup (misheard \cap hadOld)) /\ b \notin completed => indexedAs[b] = 2
  BY <1>1, <1>2, <1>3, SuccessIsVersionTwo DEF ReingestInv, PolledHasRow, b
<1>6. PolledHasRow' /\ SkippedIsReingested'
  BY <1>2, <1>3, <1>5 DEF ReingestInv, PolledHasRow, SkippedIsReingested, rowVars, oldVars, classes
<1> QED
  BY <1>2, <1>4, <1>6, RowsUntouched DEF ReingestInv

(* The row a handler inserts, and nothing else of the table.               *)
LEMMA InsertFacts ==
    ASSUME ReingestTyped, NEW b \in Bundles, NEW n \in 1 .. MaxReingests, InsertsRow(b, n)
    PROVE  /\ rows' \in [Bundles -> [0 .. MaxReingests -> Statuses]]
           /\ newest' \in [Bundles -> 0 .. MaxReingests] /\ newest'[b] = n
           /\ rows'[b][n] \notin {"none", "COMPLETED"}
           /\ \A c \in Bundles, m \in 0 .. MaxReingests : c # b \/ m # n => rows'[c][m] = rows[c][m]
           /\ \A c \in Bundles : c # b => newest'[c] = newest[c]
<1> USE ReingestAssumption
<1>1. PICK row \in {"QUEUED", "PENDING", "FAILED"} :
        rows' = [rows EXCEPT ![b][n] = row] /\ newest' = [newest EXCEPT ![b] = n]
  BY DEF InsertsRow
<1>2. row \in Statuses /\ n \in 0 .. MaxReingests
  BY DEF Statuses
<1> QED BY <1>1, <1>2 DEF ReingestTyped

(* With it the newest row is the run's.                                    *)
LEMMA RowGained ==
    ASSUME ReingestInv, NEW b \in Bundles, NEW n \in 1 .. MaxReingests, InsertsRow(b, n),
           UNCHANGED <<indexedAs, oldVars>>
    PROVE  /\ OldSettled' /\ NewestIsOfARun' /\ CompletedRowIsIndexed' /\ NewIsTwoOrNothing'
           /\ lateOld' \subseteq hadOld'
<1> USE ReingestAssumption
<1>1. /\ OldSettled /\ NewestIsOfARun /\ CompletedRowIsIndexed /\ NewIsTwoOrNothing /\ ReingestTyped
      /\ UNCHANGED <<lateOld, hadOld>> /\ lateOld \subseteq hadOld
  BY DEF ReingestInv, oldVars
<1>2. /\ newest' \in [Bundles -> 0 .. MaxReingests] /\ newest'[b] = n
      /\ rows'[b][n] \notin {"none", "COMPLETED"}
      /\ \A c \in Bundles, m \in 0 .. MaxReingests : c # b \/ m # n => rows'[c][m] = rows[c][m]
      /\ \A c \in Bundles : c # b => newest'[c] = newest[c]
  BY <1>1, InsertFacts
<1>3. \A c \in Bundles : rows'[c][0] = rows[c][0]
  BY <1>2
<1>4. OldSettled' /\ NewIsTwoOrNothing'
  BY <1>1, <1>3 DEF OldSettled, NewIsTwoOrNothing
<1>5. CompletedRowIsIndexed'
  <2> SUFFICES ASSUME NEW c \in Bundles, NEW m \in 1 .. MaxReingests, rows'[c][m] = "COMPLETED"
               PROVE  indexedAs'[c] = 2
    BY DEF CompletedRowIsIndexed
  <2>1. c # b \/ m # n
    BY <1>2
  <2>2. rows[c][m] = "COMPLETED"
    BY <1>2, <2>1
  <2> QED BY <1>1, <2>2 DEF CompletedRowIsIndexed
<1>6. NewestIsOfARun'
  <2> SUFFICES ASSUME NEW c \in Bundles, c \notin lateOld
               PROVE  /\ \A m \in 1 .. MaxReingests : rows'[c][m] # "none" => newest'[c] > 0
                      /\ newest'[c] > 0 => rows'[c][newest'[c]] # "none"
    BY <1>1 DEF NewestIsOfARun
  <2>1. CASE c = b
    BY <1>2, <2>1
  <2>2. CASE c # b
    <3>1. newest'[c] = newest[c] /\ \A m \in 0 .. MaxReingests : rows'[c][m] = rows[c][m]
      BY <1>2, <2>2
    <3>2. newest[c] \in 0 .. MaxReingests
      BY <1>1 DEF ReingestTyped
    <3> QED BY <1>1, <3>1, <3>2 DEF NewestIsOfARun
  <2> QED BY <2>1, <2>2
<1> QED BY <1>1, <1>4, <1>5, <1>6

(* A handler that reaches its row late.                                    *)
LEMMA LateRowKeeps ==
    ASSUME ReingestInv, NEW b \in Bundles, NEW n \in 1 .. MaxReingests, LateRow(b, n)
    PROVE  ReingestInv'
<1> USE ReingestAssumption
<1>1. /\ UNCHANGED <<indexedAs, oldVars, misheard, driverVars, classes>> /\ ReingestTyped
      /\ UNCHANGED <<left, step, completed, failed, lastStatus, reingests, toRetry, mislabeled>>
      /\ UNCHANGED Current /\ UNCHANGED <<lateOld, hadOld>>
  BY CurrentStays DEF LateRow, ReingestInv, driverVars, classes, oldVars
<1>2. SkippedIsReingested'
  BY <1>1 DEF ReingestInv, SkippedIsReingested
<1>3. CASE InsertsRow(b, n)
  <2>1. /\ rows' \in [Bundles -> [0 .. MaxReingests -> Statuses]]
        /\ newest' \in [Bundles -> 0 .. MaxReingests] /\ newest'[b] = n
        /\ \A c \in Bundles : c # b => newest'[c] = newest[c]
    BY <1>1, <1>3, InsertFacts
  <2>2. ReingestTyped'
    BY <1>1, <2>1 DEF ReingestTyped
  <2>3. PolledHasRow'
    <3> SUFFICES ASSUME step = "poll", Current \notin lateOld \cup misheard PROVE newest'[Current] > 0
      BY <1>1 DEF PolledHasRow
    <3>1. Current \in Bundles /\ newest[Current] > 0
      BY <1>1, CurrentIsLeft DEF ReingestInv, ReingestTyped, PolledHasRow
    <3>2. CASE Current = b
      BY <2>1, <3>2
    <3>3. CASE Current # b
      BY <2>1, <3>1, <3>3
    <3> QED BY <3>2, <3>3
  <2> QED BY <1>1, <1>2, <1>3, <2>2, <2>3, RowGained DEF ReingestInv
<1>4. CASE UNCHANGED <<rows, newest>>
  <2>1. ReingestTyped' /\ PolledHasRow'
    BY <1>1, <1>4 DEF ReingestInv, ReingestTyped, PolledHasRow
  <2>2. OldSettled' /\ NewestIsOfARun' /\ CompletedRowIsIndexed' /\ NewIsTwoOrNothing'
    BY <1>1, <1>4 DEF ReingestInv, OldSettled, NewestIsOfARun, CompletedRowIsIndexed, NewIsTwoOrNothing
  <2> QED BY <1>1, <1>2, <2>1, <2>2 DEF ReingestInv
<1> QED BY <1>3, <1>4 DEF LateRow

(* A notification: a new row at most, and a poll only of a bundle that has *)
(* a row of some run or was misheard.                                      *)
LEMMA NotifyKeeps ==
    ASSUME ReingestInv, NotifyBundle
    PROVE  ReingestInv'
<1> USE ReingestAssumption
<1> DEFINE b == Current
           n == reingests
<1>1. b \in left /\ b \in Bundles /\ n \in 1 .. MaxReingests
  BY CurrentIsLeft DEF ReingestInv, ReingestTyped, NotifyBundle
<1>t. /\ ReingestTyped /\ NewestIsOfARun /\ SkippedIsReingested
      /\ OldSettled /\ CompletedRowIsIndexed /\ NewIsTwoOrNothing /\ lateOld \subseteq hadOld
  BY DEF ReingestInv
<1>2. PICK code \in {0, 503, 202} :
        /\ Notified(b, n, code)
        /\ misheard' = IF code = 202 /\ NoRowOfARun(b, rows') THEN misheard \cup {b} ELSE misheard
        /\ IF Acknowledged(code)
           THEN step' = "poll" /\ UNCHANGED <<left, attemptNo, lastStatus, completed, failed>>
           ELSE NextAttempt(b, lastStatus)
  BY DEF NotifyBundle
<1>3. UNCHANGED <<indexedAs, oldVars, reingests, classes>> /\ UNCHANGED <<lateOld, hadOld>>
  BY DEF NotifyBundle, oldVars
<1> HIDE DEF b, n
<1>4. \/ InsertsRow(b, n)
      \/ UNCHANGED <<rows, newest>>
  BY <1>2 DEF Notified
<1>5. /\ OldSettled' /\ NewestIsOfARun' /\ CompletedRowIsIndexed' /\ NewIsTwoOrNothing'
      /\ lateOld' \subseteq hadOld'
      /\ rows' \in [Bundles -> [0 .. MaxReingests -> Statuses]]
      /\ newest' \in [Bundles -> 0 .. MaxReingests]
  <2>1. CASE InsertsRow(b, n)
    BY <1>1, <1>3, <1>t, <2>1, RowGained, InsertFacts
  <2>2. CASE UNCHANGED <<rows, newest>>
    BY <1>t, <1>3, <2>2 DEF ReingestTyped, OldSettled, NewestIsOfARun, CompletedRowIsIndexed, NewIsTwoOrNothing
  <2> QED BY <1>4, <2>1, <2>2
<1>6. /\ left' \subseteq left /\ lastStatus' \in {"none", "timeout"} /\ completed' = completed
      /\ failed' \subseteq Bundles \X {"none", "timeout", "failed"}
      /\ step' = "notify" \/ (step' = "poll" /\ left' = left /\ Acknowledged(code))
  <2>1. CASE Acknowledged(code)
    BY <1>t, <1>2, <2>1 DEF ReingestTyped
  <2>2. CASE ~Acknowledged(code)
    <3>1. NextAttempt(b, lastStatus) /\ lastStatus \in {"none", "timeout"}
      BY <1>t, <1>2, <2>2 DEF ReingestTyped
    <3> QED BY <1>t, <1>1, <3>1, NextAttemptKeeps
  <2> QED BY <2>1, <2>2
<1>7. ReingestTyped'
  BY <1>t, <1>1, <1>3, <1>5, <1>6 DEF ReingestTyped, classes, n
<1>8. PolledHasRow'
  <2> SUFFICES ASSUME step' = "poll", b \notin lateOld, b \notin misheard', left' = left, Acknowledged(code)
               PROVE  newest'[b] > 0
    BY <1>3, <1>6, CurrentStays DEF PolledHasRow, b
  <2>1. code = 202
    BY DEF Acknowledged
  <2>2. PICK m \in 1 .. MaxReingests : rows'[b][m] # "none"
    BY <1>2, <2>1 DEF NoRowOfARun
  <2> QED BY <1>1, <1>3, <1>5, <2>2 DEF NewestIsOfARun
<1>9. SkippedIsReingested'
  <2>1. misheard \subseteq misheard'
    BY <1>2
  <2> QED BY <1>t, <1>3, <1>6, <2>1 DEF SkippedIsReingested, classes
<1> QED
  BY <1>5, <1>7, <1>8, <1>9 DEF ReingestInv
-----------------------------------------------------------------------------
(* The invariant holds of every reachable state of scripts and service.    *)
THEOREM ReingestInductive == ReingestSpec => []ReingestInv
<1> USE ReingestAssumption
<1>1. ReingestInit => ReingestInv
  BY DEF ReingestInit, ReingestInv, ReingestTyped, Statuses, OldSettled, NewestIsOfARun, Settling,
     CompletedRowIsIndexed, NewIsTwoOrNothing, PolledHasRow, SkippedIsReingested
<1>2. ReingestInv /\ [ReingestNext]_reingestVars => ReingestInv'
  <2> SUFFICES ASSUME ReingestInv, [ReingestNext]_reingestVars PROVE ReingestInv'
    OBVIOUS
  <2>t. ReingestTyped
    BY DEF ReingestInv
  <2>1. CASE \E b \in Bundles, n \in 0 .. MaxReingests : JobEnded(b, n) \/ PendingFails(b, n)
    BY <2>t, <2>1, JobEndedIsServiceStep, PendingFailsIsServiceStep, ServiceKeeps
  <2>2. CASE \E b \in Bundles : TurnLockExpires(b)
    BY <2>t, <2>2, TurnLockExpiresIsServiceStep, ServiceKeeps
  <2>3. CASE PodRestarts
    BY <2>t, <2>3, PodRestartsIsServiceStep, ServiceKeeps
  <2>4. CASE StartReingest \/ CopyBundles \/ EndReingest
    BY <2>4, DriverKeeps
  <2>5. CASE NotifyBundle \/ PollBundle \/ Classify
    BY <2>5, NotifyKeeps, PollKeeps, ClassifyKeeps
  <2>7. CASE \E b \in Bundles, n \in 1 .. MaxReingests : LateRow(b, n)
    BY <2>7, LateRowKeeps
  <2>6. CASE UNCHANGED reingestVars
    <3>1. UNCHANGED <<rowVars, oldVars, misheard, driverVars, classes>> /\ UNCHANGED left
      BY <2>6 DEF reingestVars, driverVars
    <3>2. ReingestTyped' /\ PolledHasRow' /\ SkippedIsReingested'
      BY <3>1, CurrentStays DEF ReingestInv, ReingestTyped, PolledHasRow, SkippedIsReingested, rowVars,
         oldVars, driverVars, classes
    <3> QED BY <3>1, <3>2, RowsUntouched DEF ReingestInv
  <2> QED
    BY <2>1, <2>2, <2>3, <2>4, <2>5, <2>6, <2>7 DEF ReingestNext
<1> QED
  BY <1>1, <1>2, PTL DEF ReingestSpec

(* What later runs skip is done: a bundle recorded as completed, or called *)
(* ingested by the classifier, is indexed as version 2, whatever the row   *)
(* and the points of version 1 and wherever between lock and row a handler *)
(* stops, but for the three cases the property names                       *)
(* (ingest_new_bundles.py:244-299, classify_ingest_failures.py:85-157).    *)
THEOREM CheckpointIsTrue == ReingestSpec => []SkippedIsReingested
<1>1. ReingestInv => SkippedIsReingested
  BY DEF ReingestInv
<1> QED
  BY <1>1, ReingestInductive, PTL
-----------------------------------------------------------------------------
(***************************************************************************)
(* Proofs about BulkImport: what exit code 0 says of the documents of a    *)
(* run, and that a retry drops from the list of failures only what is      *)
(* ingested, for any corpus.                                               *)
(*                                                                         *)
(* A run knows a document by the directory or by its id, by its mode; what *)
(* it says of one is what it was told last, so the invariant relates the   *)
(* outcomes to what the service has made searchable.                       *)
(***************************************************************************)

(* The documents a run can notify, in the order in which it asks for them. *)
Ids == [i \in DOMAIN Corpus |-> IdOf[Corpus[i]]]

Asked == IF mode = "offline" THEN Ids ELSE Corpus

IsAsked(x) == \E i \in 1 .. Len(Corpus) : Asked[i] = x

InTodo(x) == \E i \in 1 .. Len(todo) : todo[i] = x

BulkTyped ==
    /\ outcome \in [DocIds -> Outcomes] /\ todo \in Seq(DocIds) /\ ingested \subseteq DocIds
    /\ auditLog \subseteq DocIds /\ mode \in {"offline", "retry-failed"}
    /\ stage \in {"idle", "resume", "build", "dispatch", "poll", "report"}
    /\ stage \in {"resume", "build"} => mode = "offline" /\ todo \in Seq(Dirs)
    /\ stage # "idle" => exitCode # 0

(* What the resume check leaves out has been ingested: it is searchable,   *)
(* its points were cleaned away since, or the audit log names it.          *)
Known == searchable \cup cleaned \cup auditLog

IngestedIsKnown == ingested \subseteq Known

(* What an outcome says of its document.                                   *)
OutcomeIsTrue ==
    \A x \in DocIds :
        /\ outcome[x] = "success" => x \in searchable \cup cleaned
        /\ outcome[x] = "skipped_resumed" =>
              IF mode = "offline" THEN x \in Known ELSE x \in Unusable

(* A notified document is polled before the report is written.             *)
NotifiedIsPolled ==
    \A x \in DocIds : outcome[x] = "notified" =>
        \/ stage = "dispatch" /\ IsAsked(x)
        \/ stage = "poll" /\ InTodo(x)
        \/ stage = "idle" /\ exitCode # 0

(* What is to be notified is of the corpus.                                *)
DispatchesAsked ==
    stage = "dispatch" => \A i \in 1 .. Len(todo) : IsAsked(todo[i])

(* A listed document is retried, or its directory has no blocks any more.  *)
ListedIsRetried ==
    (stage # "idle" /\ mode = "retry-failed") =>
        \A x \in failedDocs : x \in DocIds /\
            (x \in Unusable \/ outcome[x] # "none" \/ (stage = "dispatch" /\ InTodo(x)))

BulkInv ==
    /\ BulkTyped /\ IngestedIsKnown /\ OutcomeIsTrue /\ NotifiedIsPolled
    /\ DispatchesAsked /\ ListedIsRetried /\ QuietExitMeansIngested
-----------------------------------------------------------------------------

(* The documents of the corpus, by directory and by id.                    *)
LEMMA IdsFacts ==
    /\ Ids \in Seq(DocIds) /\ Len(Ids) = Len(Corpus) /\ Corpus \in Seq(DocIds)
    /\ \A i \in 1 .. Len(Corpus) : Ids[i] = IdOf[Corpus[i]] /\ Corpus[i] \in Dirs
<1>1. DOMAIN Corpus = 1 .. Len(Corpus) /\ Dirs \subseteq DocIds
  BY BulkAssumption DEF DocIds
<1>2. Corpus \in Seq(Dirs) /\ \A i \in 1 .. Len(Corpus) : Corpus[i] \in Dirs /\ IdOf[Corpus[i]] \in DocIds
  BY BulkAssumption
<1> QED BY <1>1, <1>2 DEF Ids

(* A retry asks for the directories of the corpus.                         *)
LEMMA DirIsAsked ==
    ASSUME NEW x \in Dirs, mode = "retry-failed"
    PROVE  IsAsked(x)
<1>1. \E i \in 1 .. Len(Corpus) : Corpus[i] = x
  BY BulkAssumption DEF Dirs, Range
<1> QED BY <1>1 DEF IsAsked, Asked

(* The first of a list, and the others.                                    *)
LEMMA RestOfAList ==
    ASSUME NEW T, NEW s \in Seq(T), s # <<>>
    PROVE  /\ Tail(s) \in Seq(T) /\ Head(s) = s[1] /\ s[1] \in T /\ 1 \in 1 .. Len(s)
           /\ \A i \in 1 .. Len(Tail(s)) : \E k \in 1 .. Len(s) : Tail(s)[i] = s[k]
           /\ \A i \in 1 .. Len(s) : s[i] = s[1] \/ \E k \in 1 .. Len(Tail(s)) : Tail(s)[k] = s[i]
<1>1. /\ Tail(s) \in Seq(T) /\ Head(s) = s[1] /\ s[1] \in T /\ 1 \in 1 .. Len(s)
      /\ Len(Tail(s)) = Len(s) - 1
  OBVIOUS
<1>2. \A i \in 1 .. Len(Tail(s)) : Tail(s)[i] = s[i + 1] /\ i + 1 \in 1 .. Len(s)
  BY <1>1
<1>3. \A i \in 1 .. Len(s) : i = 1 \/ (i - 1 \in 1 .. Len(Tail(s)) /\ Tail(s)[i - 1] = s[i])
  BY <1>1
<1> QED BY <1>1, <1>2, <1>3
-----------------------------------------------------------------------------
(* What the service does makes documents searchable; what is cleaned away  *)
(* is remembered.                                                          *)
LEMMA BulkServiceKeeps ==
    ASSUME BulkInv, ServiceStep
    PROVE  BulkInv'
<1>1. /\ UNCHANGED driver /\ searchable \subseteq searchable' \cup cleaned'
      /\ cleaned \subseteq cleaned' /\ auditLog \subseteq auditLog' /\ auditLog' \subseteq DocIds
  BY DEF ServiceStep, ServiceRestarts, JobCompletes, JobFails, RowInserted,
         IngestLockExpires, CompensationFails, PointsCleaned, BulkInv, BulkTyped
<1>2. searchable \cup cleaned \subseteq searchable' \cup cleaned' /\ Known \subseteq Known'
  BY <1>1 DEF Known
<1> QED BY <1>1, <1>2 DEF driver, BulkInv, BulkTyped, IngestedIsKnown, OutcomeIsTrue, NotifiedIsPolled,
                    DispatchesAsked, ListedIsRetried, QuietExitMeansIngested, IsAsked, Asked, InTodo

(* A run that ends otherwise than with 0 leaves nothing to say.            *)
LEMMA ExitKeeps ==
    ASSUME BulkInv, NEW code \in -1 .. 3, code # 0, Exits(code),
           UNCHANGED auditLog, ingested' \subseteq Known', ingested' \subseteq DocIds,
           mode' \in {"offline", "retry-failed"}, outcome' \in [DocIds -> Outcomes], OutcomeIsTrue'
    PROVE  BulkInv'
<1>1. <<>> \in Seq(DocIds)
  OBVIOUS
<1> QED BY <1>1 DEF Exits, BulkInv, BulkTyped, IngestedIsKnown, NotifiedIsPolled,
                    DispatchesAsked, ListedIsRetried, QuietExitMeansIngested
-----------------------------------------------------------------------------

(* A run in the offline mode may begin.                                    *)
LEMMA StartOfflineKeeps ==
    ASSUME BulkInv, StartOffline
    PROVE  BulkInv'
<1>1. /\ UNCHANGED <<searchable, auditLog>> /\ ingested' = {} /\ mode' = "offline"
      /\ outcome' = [x \in DocIds |-> "none"] /\ OutcomeIsTrue' /\ outcome' \in [DocIds -> Outcomes]
  BY DEF StartOffline, Started, OutcomeIsTrue, Outcomes
<1>2. CASE stage' = "resume" /\ todo' = Corpus /\ exitCode' = -1
  BY <1>1, <1>2, IdsFacts, BulkAssumption
     DEF BulkInv, BulkTyped, IngestedIsKnown, NotifiedIsPolled,
         DispatchesAsked, ListedIsRetried, QuietExitMeansIngested
<1>3. CASE Exits(2)
  BY <1>1, <1>3, ExitKeeps
<1> QED BY <1>2, <1>3 DEF StartOffline

(* A run with resume asks for one status.                                  *)
LEMMA AskStatusKeeps ==
    ASSUME BulkInv, AskStatus
    PROVE  BulkInv'
<1>1. /\ todo # <<>> /\ todo \in Seq(DocIds) /\ todo \in Seq(Dirs) /\ mode = "offline" /\ stage = "resume"
      /\ UNCHANGED <<service, mode, stage, tries, outcome, failedDocs, exitCode, bulkRuns>>
  BY DEF AskStatus, BulkInv, BulkTyped
<1>2. Tail(todo) \in Seq(DocIds) /\ Tail(todo) \in Seq(Dirs) /\ Head(todo) \in DocIds
      /\ <<>> \in Seq(DocIds) /\ <<>> \in Seq(Dirs)
  BY <1>1
<1>3. todo' \in Seq(DocIds) /\ todo' \in Seq(Dirs)
  BY <1>2 DEF AskStatus
<1>4. StatusOf(Head(todo)) = "success" => Head(todo) \in searchable
  BY DEF StatusOf
<1>5. ingested' \subseteq Known /\ ingested' \subseteq DocIds
  BY <1>2, <1>4 DEF AskStatus, BulkInv, BulkTyped, IngestedIsKnown, Known
<1>6. UNCHANGED Known
  BY <1>1 DEF service, Known
<1> QED BY <1>1, <1>3, <1>5, <1>6
        DEF service, BulkInv, BulkTyped, IngestedIsKnown, OutcomeIsTrue, NotifiedIsPolled,
            DispatchesAsked, ListedIsRetried, QuietExitMeansIngested

(* It has asked for all, and notifies the others.                          *)
LEMMA ResumeCheckedKeeps ==
    ASSUME BulkInv, ResumeChecked
    PROVE  BulkInv'
<1>1. /\ mode = "offline" /\ stage = "resume" /\ UNCHANGED <<service, mode, outcome, failedDocs>>
      /\ ingested' \subseteq Known' /\ ingested' \subseteq DocIds /\ UNCHANGED Known
  BY DEF ResumeChecked, service, BulkInv, BulkTyped, IngestedIsKnown, Known
<1>2. CASE /\ stage' = "build" /\ todo' = Selected(Corpus, Dirs \ Unusable)
           /\ UNCHANGED exitCode
  <2>1. todo' \in Seq(Dirs)
    <3>1. IsSelection(Selected(Corpus, Dirs \ Unusable), Corpus, Dirs \ Unusable, Dirs)
      BY BulkAssumption, SelectedFacts
    <3> QED BY <1>2, <3>1 DEF IsSelection
  <2>2. todo' \in Seq(DocIds)
    BY <2>1 DEF DocIds
  <2> QED BY <1>1, <1>2, <2>1, <2>2
          DEF service, BulkInv, BulkTyped, IngestedIsKnown, OutcomeIsTrue, NotifiedIsPolled,
              DispatchesAsked, ListedIsRetried, QuietExitMeansIngested
<1>3. CASE Exits(1)
  <2>1. OutcomeIsTrue' /\ outcome' \in [DocIds -> Outcomes]
    BY <1>1 DEF service, BulkInv, BulkTyped, OutcomeIsTrue
  <2> QED BY <1>1, <1>3, <2>1, ExitKeeps DEF service
<1> QED BY <1>2, <1>3 DEF ResumeChecked

(* A run without resume notifies all.                                      *)
LEMMA BuildPayloadsKeeps ==
    ASSUME BulkInv, BuildPayloads
    PROVE  BulkInv'
<1> DEFINE ids  == [i \in DOMAIN todo |-> IdOf[todo[i]]]
           remaining == Selected(ids, DocIds \ ingested)
<1>1. /\ stage = "build" /\ mode = "offline" /\ todo \in Seq(Dirs)
      /\ UNCHANGED <<service, mode, tries, failedDocs, exitCode, bulkRuns>> /\ ingested' = {}
      /\ UNCHANGED Known
  BY DEF BuildPayloads, BulkInv, BulkTyped, service, Known
<1>2. /\ outcome' = [x \in DocIds |-> IF x \in Range(ids) \cap ingested THEN "skipped_resumed"
                                      ELSE outcome[x]]
      /\ todo' = remaining /\ stage' = IF remaining = <<>> THEN "report" ELSE "dispatch"
  BY DEF BuildPayloads
<1>3. /\ ids \in Seq(DocIds) /\ \A i \in 1 .. Len(ids) : \E d \in Dirs : ids[i] = IdOf[d]
  BY <1>1, BulkAssumption
<1>4. \A d \in Dirs : \E i \in 1 .. Len(Corpus) : Ids[i] = IdOf[d]
  <2>1. \A d \in Dirs : \E i \in 1 .. Len(Corpus) : Corpus[i] = d
    BY BulkAssumption DEF Dirs, Range
  <2> QED BY <2>1, IdsFacts
<1> HIDE DEF ids
<1>5. remaining \in Seq(DocIds) /\ \A k \in 1 .. Len(remaining) : \E d \in Dirs : remaining[k] = IdOf[d]
  <2>1. remaining \in Seq(DocIds) /\ \A k \in 1 .. Len(remaining) : \E i \in 1 .. Len(ids) : remaining[k] = ids[i]
    <3> DEFINE S == DocIds \ ingested
    <3>1. remaining = Selected(ids, S)
      OBVIOUS
    <3> HIDE DEF remaining, S
    <3>2. IsSelection(remaining, ids, S, DocIds)
      BY <1>3, <3>1, SelectedFacts
    <3> QED BY <3>2 DEF IsSelection
  <2> QED BY ZenonT(60), <1>3, <2>1
<1> HIDE DEF remaining
<1>6. \A x \in DocIds : outcome[x] # "notified"
  BY <1>1 DEF BulkInv, NotifiedIsPolled
<1>7. /\ \A x \in DocIds : outcome'[x] # "notified"
      /\ OutcomeIsTrue' /\ outcome' \in [DocIds -> Outcomes]
  BY <1>1, <1>2, <1>6 DEF service, BulkInv, BulkTyped, IngestedIsKnown, OutcomeIsTrue, Outcomes
<1>8. DispatchesAsked'
  BY <1>1, <1>2, <1>4, <1>5 DEF DispatchesAsked, IsAsked, Asked
<1> QED BY <1>1, <1>2, <1>5, <1>7, <1>8
        DEF service, BulkInv, BulkTyped, IngestedIsKnown, NotifiedIsPolled, ListedIsRetried,
            QuietExitMeansIngested

(* A retry begins with the documents of the list.                          *)
LEMMA StartRetryKeeps ==
    ASSUME BulkInv, StartRetry
    PROVE  BulkInv'
<1> DEFINE entries == Selected(Corpus, failedDocs)
           usable  == Selected(entries, Dirs \ Unusable)
<1>1. /\ UNCHANGED <<searchable, auditLog, failedDocs>> /\ ingested' = {} /\ mode' = "retry-failed"
  BY DEF StartRetry, Started
<1>2. /\ entries \in Seq(Dirs)
      /\ \A k \in 1 .. Len(entries) : entries[k] \in failedDocs
      /\ \A i \in 1 .. Len(Corpus) : Corpus[i] \in failedDocs => \E k \in 1 .. Len(entries) : entries[k] = Corpus[i]
  <2>1. entries = Selected(Corpus, failedDocs) /\ Corpus \in Seq(Dirs)
    BY BulkAssumption
  <2> HIDE DEF entries
  <2>2. /\ entries \in Seq(Dirs)
        /\ \A k \in 1 .. Len(entries) :
              entries[k] \in failedDocs /\ \E i \in 1 .. Len(Corpus) : entries[k] = Corpus[i]
        /\ \A i \in 1 .. Len(Corpus) :
              Corpus[i] \in failedDocs => \E k \in 1 .. Len(entries) : entries[k] = Corpus[i]
    <3>1. IsSelection(entries, Corpus, failedDocs, Dirs)
      BY <2>1, SelectedFacts
    <3> QED BY <3>1 DEF IsSelection
  <2> QED BY <2>2
<1>3. CASE failedDocs \in {NoFile, {}}
  <2>1. Exits(2) /\ outcome' = [x \in DocIds |-> "none"]
    BY <1>3 DEF StartRetry
  <2> QED BY <1>1, <2>1, ExitKeeps DEF OutcomeIsTrue, Outcomes
<1>4. CASE failedDocs \notin {NoFile, {}}
  <2>1. outcome' = [x \in DocIds |-> IF x \in Range(entries) \cap Unusable THEN "skipped_resumed" ELSE "none"]
    BY <1>4 DEF StartRetry
  <2>2. OutcomeIsTrue' /\ (\A x \in DocIds : outcome'[x] # "notified") /\ outcome' \in [DocIds -> Outcomes]
    BY <1>1, <2>1 DEF OutcomeIsTrue, Outcomes
  <2>3. CASE /\ failedDocs \subseteq Dirs /\ todo' = usable
             /\ stage' = IF usable = <<>> THEN "report" ELSE "dispatch"
             /\ exitCode' = -1
    <3>1. /\ usable \in Seq(Dirs)
          /\ \A i \in 1 .. Len(entries) :
                entries[i] \in Dirs \ Unusable => \E k \in 1 .. Len(usable) : usable[k] = entries[i]
      <4> DEFINE S == Dirs \ Unusable
      <4>1. usable = Selected(entries, S) /\ entries \in Seq(Dirs)
        BY <1>2
      <4> HIDE DEF entries, usable, S
      <4>2. /\ usable \in Seq(Dirs)
            /\ \A i \in 1 .. Len(entries) : entries[i] \in S => \E k \in 1 .. Len(usable) : usable[k] = entries[i]
        <5>1. IsSelection(usable, entries, S, Dirs)
          BY <4>1, SelectedFacts
        <5> QED BY <5>1 DEF IsSelection
      <4> QED BY <4>2 DEF S
    <3> HIDE DEF entries, usable
    <3>2. usable \in Seq(DocIds)
      BY <3>1 DEF DocIds
    <3>3. \A x \in failedDocs : x \in DocIds /\ (x \in Unusable \/ \E k \in 1 .. Len(usable) : usable[k] = x)
      <4> TAKE x \in failedDocs
      <4>1. x \in Dirs /\ x \in DocIds
        BY <2>3 DEF DocIds
      <4>2. PICK i \in 1 .. Len(Corpus) : Corpus[i] = x
        BY <4>1, BulkAssumption DEF Dirs, Range
      <4>3. PICK k \in 1 .. Len(entries) : entries[k] = x
        BY <1>2, <4>2
      <4> QED BY <3>1, <4>1, <4>3
    <3>4. \A k \in 1 .. Len(usable) : \E i \in 1 .. Len(Corpus) : Asked'[i] = usable[k]
      <4>1. \A k \in 1 .. Len(usable) : \E i \in 1 .. Len(Corpus) : Corpus[i] = usable[k]
        BY <3>1, BulkAssumption DEF Dirs, Range
      <4>2. Asked' = Corpus
        BY <1>1 DEF Asked
      <4> QED BY <4>1, <4>2
    <3>5. (usable = <<>>) => Len(usable) = 0
      BY <3>2
    <3> QED BY <1>1, <2>1, <2>2, <2>3, <3>2, <3>3, <3>4, <3>5
            DEF BulkInv, BulkTyped, IngestedIsKnown, NotifiedIsPolled, DispatchesAsked,
                ListedIsRetried, QuietExitMeansIngested, InTodo, IsAsked
  <2>4. CASE Exits(2)
    BY <1>1, <2>1, <2>2, <2>4, ExitKeeps
  <2> QED BY <1>4, <2>3, <2>4 DEF StartRetry
<1> QED BY <1>3, <1>4

(* One document is notified, with or without an answer.                    *)
LEMMA NotifyOneKeeps ==
    ASSUME BulkInv, NotifyOne
    PROVE  BulkInv'
<1> DEFINE x == Head(todo)
<1>1. /\ stage = "dispatch" /\ todo # <<>> /\ todo \in Seq(DocIds)
      /\ UNCHANGED <<searchable, auditLog, cleaned, mode, stage, ingested, failedDocs, exitCode, bulkRuns>>
      /\ UNCHANGED Known
  BY DEF NotifyOne, BulkInv, BulkTyped, Known
<1>2. \/ UNCHANGED <<outcome, todo>>
      \/ \E status \in {"notified", "rejected", "notified_failed"} : Sent(x, status)
  BY DEF NotifyOne, MakeOutcome
<1>3. CASE UNCHANGED <<outcome, todo>>
  BY <1>1, <1>3 DEF BulkInv, BulkTyped, IngestedIsKnown, OutcomeIsTrue, NotifiedIsPolled,
        DispatchesAsked, ListedIsRetried, QuietExitMeansIngested, IsAsked, Asked, InTodo
<1>4. ASSUME NEW status \in {"notified", "rejected", "notified_failed"}, Sent(x, status)
      PROVE  BulkInv'
  <2>1. /\ x = todo[1] /\ x \in DocIds /\ 1 \in 1 .. Len(todo) /\ todo' = Tail(todo)
        /\ outcome' = [outcome EXCEPT ![x] = status]
        /\ todo' \in Seq(DocIds)
        /\ \A i \in 1 .. Len(todo') : \E k \in 1 .. Len(todo) : todo'[i] = todo[k]
        /\ \A i \in 1 .. Len(todo) : todo[i] = x \/ \E k \in 1 .. Len(todo') : todo'[k] = todo[i]
    BY <1>1, <1>4, RestOfAList DEF Sent
  <2> HIDE DEF x
  <2>2. outcome'[x] = status /\ outcome' \in [DocIds -> Outcomes] /\ \A y \in DocIds : y # x => outcome'[y] = outcome[y]
    BY <2>1 DEF BulkInv, BulkTyped, Outcomes
  <2>3. \A y : IsAsked(y)' <=> IsAsked(y)
    BY <1>1 DEF IsAsked, Asked
  <2>4. OutcomeIsTrue'
    BY <1>1, <2>2 DEF BulkInv, OutcomeIsTrue
  <2>5. NotifiedIsPolled'
    <3>1. IsAsked(x)
      BY <1>1, <2>1 DEF BulkInv, DispatchesAsked
    <3> QED BY <1>1, <2>2, <2>3, <3>1 DEF BulkInv, NotifiedIsPolled
  <2>6. DispatchesAsked'
    BY <1>1, <2>1, <2>3 DEF BulkInv, DispatchesAsked
  <2>7. ListedIsRetried'
    <3>1. \A y \in DocIds : y # x /\ InTodo(y) => InTodo(y)'
      <4>1. \A i \in 1 .. Len(todo) : todo[i] = x \/ \E k \in 1 .. Len(todo') : todo'[k] = todo[i]
        BY <2>1
      <4> QED BY <4>1 DEF InTodo
    <3> QED BY <1>1, <2>2, <3>1 DEF BulkInv, ListedIsRetried
  <2> QED BY <1>1, <2>1, <2>2, <2>4, <2>5, <2>6, <2>7
          DEF BulkInv, BulkTyped, IngestedIsKnown, QuietExitMeansIngested
<1> QED BY <1>2, <1>3, <1>4

(* All are notified, those that were accepted are polled.                  *)
LEMMA DispatchDoneKeeps ==
    ASSUME BulkInv, DispatchDone
    PROVE  BulkInv'
<1> DEFINE S == {x \in DocIds : outcome[x] = "notified"}
<1>1. /\ stage = "dispatch" /\ todo = <<>> /\ stage' = "poll"
      /\ UNCHANGED <<service, mode, tries, ingested, outcome, failedDocs, exitCode, bulkRuns>>
      /\ todo' = Selected(Asked, S) /\ UNCHANGED Known
  BY DEF DispatchDone, Settled, Asked, Ids, service, Known
<1>2. Asked \in Seq(DocIds) /\ Len(Asked) = Len(Corpus)
  BY IdsFacts DEF Asked
<1>3. /\ todo' \in Seq(DocIds)
      /\ \A i \in 1 .. Len(Corpus) : Asked[i] \in S => \E k \in 1 .. Len(todo') : todo'[k] = Asked[i]
  <2> HIDE DEF S
  <2>1. IsSelection(todo', Asked, S, DocIds)
    BY <1>1, <1>2, SelectedFacts
  <2> QED BY <1>2, <2>1 DEF IsSelection
<1>4. ASSUME NEW x \in DocIds, outcome[x] = "notified"
      PROVE  InTodo(x)'
  <2>1. PICK i \in 1 .. Len(Corpus) : Asked[i] = x
    BY <1>1, <1>4 DEF BulkInv, NotifiedIsPolled, IsAsked
  <2> QED BY <1>3, <1>4, <2>1 DEF InTodo
<1>5. ~ \E x : InTodo(x)
  BY <1>1 DEF InTodo
<1> QED BY <1>1, <1>3, <1>4, <1>5
        DEF service, BulkInv, BulkTyped, IngestedIsKnown, OutcomeIsTrue, NotifiedIsPolled,
            DispatchesAsked, ListedIsRetried, QuietExitMeansIngested

(* One document is polled until an end of it or of the patience.           *)
LEMMA PollStatusKeeps ==
    ASSUME BulkInv, PollStatus
    PROVE  BulkInv'
<1> DEFINE x == Head(todo)
<1>1. /\ stage = "poll" /\ todo # <<>> /\ todo \in Seq(DocIds) /\ todo' = Tail(todo)
      /\ UNCHANGED <<service, mode, stage, tries, ingested, failedDocs, exitCode, bulkRuns>>
      /\ UNCHANGED Known
  BY DEF PollStatus, BulkInv, BulkTyped, service, Known
<1>2. PICK seen \in {"pending", StatusOf(x)} \ {"404"} : outcome' = [outcome EXCEPT ![x] = seen]
  BY DEF PollStatus
<1>3. seen \in {"pending", "failed", "success"} /\ (seen = "success" => x \in searchable)
  BY <1>2 DEF StatusOf
<1>4. /\ x = todo[1] /\ x \in DocIds /\ todo' \in Seq(DocIds)
      /\ \A i \in 1 .. Len(todo) : todo[i] = x \/ \E k \in 1 .. Len(todo') : todo'[k] = todo[i]
  BY <1>1, RestOfAList
<1> HIDE DEF x
<1>5. outcome'[x] = seen /\ \A y \in DocIds : y # x => outcome'[y] = outcome[y]
  BY <1>2, <1>4 DEF BulkInv, BulkTyped
<1>6. \A y \in DocIds : y # x /\ InTodo(y) => InTodo(y)'
  BY <1>4 DEF InTodo
<1>7. outcome' \in [DocIds -> Outcomes]
  BY <1>2, <1>3 DEF BulkInv, BulkTyped, Outcomes
<1> QED BY <1>1, <1>3, <1>4, <1>5, <1>6, <1>7
        DEF service, BulkInv, BulkTyped, IngestedIsKnown, OutcomeIsTrue, NotifiedIsPolled,
            DispatchesAsked, ListedIsRetried, QuietExitMeansIngested

(* All are polled.                                                         *)
LEMMA PollDoneKeeps ==
    ASSUME BulkInv, PollDone
    PROVE  BulkInv'
<1>1. ~ \E x : InTodo(x)
  BY DEF PollDone, InTodo
<1>2. PollDone => UNCHANGED Known
  BY DEF PollDone, service, Known
<1> QED BY <1>1, <1>2 DEF PollDone, service, BulkInv, BulkTyped, IngestedIsKnown, OutcomeIsTrue,
            NotifiedIsPolled, DispatchesAsked, ListedIsRetried, QuietExitMeansIngested

(* The verdict 0 is given when every outcome is one that can be relied on. *)
LEMMA ReportKeeps ==
    ASSUME BulkInv, Report
    PROVE  BulkInv'
<1>1. /\ stage = "report" /\ UNCHANGED <<service, mode, tries, ingested, outcome, bulkRuns>>
      /\ \E code \in Verdicts : Exits(code)
      /\ UNCHANGED Known
  BY DEF Report, service, Known
<1>2. PICK code \in Verdicts : Exits(code)
  BY <1>1
<1>3. <<>> \in Seq(DocIds)
  OBVIOUS
<1>4. \A x \in DocIds : outcome[x] # "notified"
  BY <1>1 DEF BulkInv, NotifiedIsPolled
<1>5. QuietExitMeansIngested'
  <2> SUFFICES ASSUME exitCode' = 0, NEW x \in DocIds, outcome'[x] \notin {"none", "notified_failed"}
               PROVE  \/ x \in searchable' \cup cleaned'
                      \/ mode' = "offline" /\ outcome'[x] = "skipped_resumed" /\ x \in auditLog'
                      \/ mode' = "retry-failed" /\ x \in Unusable
    BY DEF QuietExitMeansIngested
  <2>1. outcome[x] \notin {"failed", "rejected", "pending"}
    BY <1>2 DEF Exits, Verdicts
  <2>2. outcome[x] \in {"success", "skipped_resumed"}
    BY <1>1, <1>4, <2>1 DEF BulkInv, BulkTyped, Outcomes
  <2> QED BY <1>1, <2>2 DEF service, BulkInv, BulkTyped, OutcomeIsTrue, Known
<1> QED BY <1>1, <1>2, <1>3, <1>4, <1>5
        DEF service, Exits, BulkInv, BulkTyped, IngestedIsKnown, OutcomeIsTrue, NotifiedIsPolled,
            DispatchesAsked, ListedIsRetried

(* The process may be killed at any point.                                 *)
LEMMA KilledKeeps ==
    ASSUME BulkInv, Killed
    PROVE  BulkInv'
<1>1. /\ Exits(-1) /\ UNCHANGED <<service, mode, ingested, outcome>> /\ UNCHANGED Known
  BY DEF Killed, service, Known
<1>2. /\ UNCHANGED auditLog /\ ingested' \subseteq Known' /\ ingested' \subseteq DocIds
      /\ mode' \in {"offline", "retry-failed"} /\ outcome' \in [DocIds -> Outcomes] /\ OutcomeIsTrue'
  BY <1>1 DEF service, BulkInv, BulkTyped, IngestedIsKnown, OutcomeIsTrue
<1> QED BY <1>1, <1>2, ExitKeeps

(* Every step of the script and the service keeps the invariant.           *)
LEMMA BulkStep == BulkInv /\ [BulkNext]_bulkVars => BulkInv'
<1>1. BulkInv /\ UNCHANGED bulkVars => BulkInv'
  BY DEF bulkVars, service, driver, BulkInv, BulkTyped, IngestedIsKnown, Known, OutcomeIsTrue,
         NotifiedIsPolled, DispatchesAsked, ListedIsRetried, QuietExitMeansIngested, IsAsked, Asked, InTodo
<1> QED BY <1>1, BulkServiceKeeps, StartOfflineKeeps, AskStatusKeeps, ResumeCheckedKeeps,
           BuildPayloadsKeeps, StartRetryKeeps, NotifyOneKeeps, DispatchDoneKeeps, PollStatusKeeps,
           PollDoneKeeps, ReportKeeps, KilledKeeps DEF BulkNext

(* The invariant holds of every reachable state of the script and the      *)
(* service beside it.                                                      *)
THEOREM BulkInductive == BulkSpec => []BulkInv
<1>1. BulkInit => BulkInv
  <2>1. <<>> \in Seq(DocIds) /\ [x \in DocIds |-> "none"] \in [DocIds -> Outcomes]
    BY DEF Outcomes
  <2> QED BY <2>1 DEF BulkInit, BulkInv, BulkTyped, IngestedIsKnown, OutcomeIsTrue,
         NotifiedIsPolled, DispatchesAsked, ListedIsRetried, QuietExitMeansIngested
<1> QED BY <1>1, BulkStep, PTL DEF BulkSpec

(* What exit code 0 can be relied on for: each document of the run has its *)
(* points in Qdrant, or lost them since the run began; one the resume      *)
(* check left out is at least named by an ingestion_completed event        *)
(* (live_stress_60.py:881-910, 994-1010, 1277-1325), for any corpus, runs, *)
(* kills and cleanings.                                                    *)
THEOREM QuietExit == BulkSpec => []QuietExitMeansIngested
<1>1. BulkInv => QuietExitMeansIngested
  BY DEF BulkInv
<1> QED BY <1>1, BulkInductive, PTL

(* Only the report of a run writes the list.                               *)
LEMMA ListKept ==
    ASSUME BulkInv, [BulkNext]_bulkVars, mode = "retry-failed", failedDocs' # failedDocs
    PROVE  failedDocs \ failedDocs' \subseteq searchable \cup cleaned \cup Unusable
<1>1. Report
  BY DEF BulkNext, bulkVars, service, driver, ServiceStep, ServiceRestarts, JobCompletes, JobFails,
         RowInserted, IngestLockExpires, CompensationFails, PointsCleaned, StartOffline,
         StartRetry, Started, AskStatus, ResumeChecked, BuildPayloads, NotifyOne, DispatchDone, PollStatus, PollDone, Killed
<1>2. stage = "report" /\ failedDocs' = Failures
  BY <1>1 DEF Report
<1> SUFFICES ASSUME NEW x \in failedDocs, x \notin Failures, x \notin Unusable
             PROVE  x \in searchable \cup cleaned
  BY <1>2
<1>3. x \in DocIds /\ outcome[x] # "none"
  BY <1>2 DEF BulkInv, ListedIsRetried
<1>4. outcome[x] \notin FailedStatuses
  BY <1>3 DEF Failures
<1>5. outcome[x] \in {"success", "skipped_resumed"}
  BY <1>2, <1>3, <1>4 DEF FailedStatuses, BulkInv, BulkTyped, Outcomes, NotifiedIsPolled
<1> QED BY <1>3, <1>5 DEF BulkInv, OutcomeIsTrue

(* A retry takes a document off the list of failures only when it is       *)
(* searchable, was so and is cleaned away, or has no blocks any more       *)
(* (live_stress_60.py:1448-1475), wherever it is killed.                   *)
THEOREM RetryLosesNothing == BulkSpec => RetryDropsOnlyIngested
<1>1. BulkInv /\ [BulkNext]_bulkVars =>
         [mode = "retry-failed" /\ failedDocs' # failedDocs =>
             failedDocs \ failedDocs' \subseteq searchable \cup cleaned \cup Unusable]_bulkVars
  BY ListKept
<1> QED BY <1>1, BulkInductive, PTL DEF BulkSpec, RetryDropsOnlyIngested
-----------------------------------------------------------------------------
(***************************************************************************)
(* Proofs about FtsMigration: what is done is indexed, and stays so over   *)
(* any number of runs, kills and jobs that write beside the script.        *)
(***************************************************************************)

(* The documents still to do are different ones, and not done.             *)
LeftIsNotDone ==
    /\ \A i, j \in 1 .. Len(docsLeft) : docsLeft[i] = docsLeft[j] => i = j
    /\ \A i \in 1 .. Len(docsLeft) : docsLeft[i] \notin success

(* While a document is written its chunks are those Qdrant holds, unless a *)
(* job changed them after they were fetched.                               *)
WrittenIsFetched ==
    place \in {"wipe", "insert"} =>
        /\ docsLeft # <<>> /\ apply
        /\ fetched = stored[docsLeft[1]] \/ docsLeft[1] \in touched

(* The transaction that busy writes leave open never holds rows of a       *)
(* document that counts as migrated: the next commit does not touch it.    *)
(* None are open once the delete has committed, between two runs, and in a *)
(* dry run.                                                                *)
NothingOpenOfDone ==
    /\ \A d \in success : openRows[d] = Same
    /\ place \in {"insert", "idle"} \/ ~apply => \A d \in Docs : openRows[d] = Same

(* What the run counts as done is indexed, unless a job touched it since.  *)
DoneIsIndexed ==
    apply => \A d \in success \ touched : ftsRows[d] = stored[d]

MigrationInv ==
    /\ DOMAIN stored = Docs /\ DOMAIN ftsRows = Docs /\ DOMAIN openRows = Docs
    /\ docsLeft \in Seq(Docs) /\ success \subseteq Docs /\ updating \subseteq touched
    /\ LeftIsNotDone /\ WrittenIsFetched /\ NothingOpenOfDone /\ DoneIsIndexed
-----------------------------------------------------------------------------

(* The list of a run has each document once.                               *)
LEMMA ListedDocs ==
    ASSUME NEW S, NEW limit \in 0 .. Len(Selected(DocOrder, S)),
           NEW listed, listed = SubSeq(Selected(DocOrder, S), 1, limit)
    PROVE  /\ listed \in Seq(Docs)
           /\ \A i, j \in 1 .. Len(listed) : listed[i] = listed[j] => i = j
<1>1. DocOrder \in Seq(Docs) /\ \A i, j \in 1 .. Len(DocOrder) : DocOrder[i] = DocOrder[j] => i = j
  BY MigrationAssumption DEF IsInjective
<1> DEFINE q == Selected(DocOrder, S)
<1> HIDE DEF q
<1>2. q \in Seq(Docs) /\ \A i, j \in 1 .. Len(q) : q[i] = q[j] => i = j
  <2>1. q = Selected(DocOrder, S)
    BY DEF q
  <2>2. IsSelection(q, DocOrder, S, Docs)
    BY <1>1, <2>1, SelectedFacts
  <2> QED BY <1>1, <2>2 DEF IsSelection
<1>3. limit \in 0 .. Len(q) /\ listed = SubSeq(q, 1, limit)
  BY DEF q
<1>4. /\ listed \in Seq(Docs) /\ Len(listed) = limit /\ limit <= Len(q)
      /\ \A i \in 1 .. limit : listed[i] = q[i]
  <2>1. Len(q) \in Nat /\ limit \in 0 .. Len(q)
    BY <1>2, <1>3
  <2> QED BY <1>2, <1>3, <2>1
<1>5. ASSUME NEW i \in 1 .. Len(listed), NEW j \in 1 .. Len(listed), listed[i] = listed[j] PROVE i = j
  <2>1. i \in 1 .. limit /\ j \in 1 .. limit /\ i \in 1 .. Len(q) /\ j \in 1 .. Len(q)
    BY <1>2, <1>3, <1>4
  <2> QED BY <1>2, <1>4, <1>5, <2>1
<1> QED BY <1>4, <1>5

(* The rest of a list without repetitions.                                 *)
LEMMA TailLeft ==
    ASSUME NEW s \in Seq(Docs), s # <<>>,
           \A i, j \in 1 .. Len(s) : s[i] = s[j] => i = j
    PROVE  /\ Tail(s) \in Seq(Docs) /\ Head(s) = s[1] /\ s[1] \in Docs
           /\ \A i, j \in 1 .. Len(Tail(s)) : Tail(s)[i] = Tail(s)[j] => i = j
           /\ \A i \in 1 .. Len(Tail(s)) :
                 Tail(s)[i] # s[1] /\ \E k \in 1 .. Len(s) : Tail(s)[i] = s[k]
OBVIOUS

(* A document that is done with leaves the list.                           *)
LEMMA NextDocEffect ==
    ASSUME MigrationInv, docsLeft # <<>>, NEW ok, NEW bad, NextDoc(ok, bad),
           ok \subseteq {docsLeft[1]}
    PROVE  docsLeft' \in Seq(Docs) /\ success' \subseteq Docs /\ LeftIsNotDone'
<1>1. docsLeft \in Seq(Docs) /\ docsLeft' = Tail(docsLeft) /\ success' = success \cup ok
      /\ success \subseteq Docs /\ LeftIsNotDone
  BY DEF MigrationInv, NextDoc
<1>2. \A i, j \in 1 .. Len(docsLeft) : docsLeft[i] = docsLeft[j] => i = j
  BY <1>1 DEF LeftIsNotDone
<1> QED BY <1>1, <1>2, TailLeft DEF LeftIsNotDone

(* A write that found the database busy leaves rows of its own document in *)
(* the transaction, at most.                                               *)
LEMMA BusyEffect ==
    ASSUME MigrationInv, docsLeft # <<>>, docsLeft[1] \in Docs, docsLeft[1] \notin success,
           Head(docsLeft) = docsLeft[1], NEW r, place \in {"wipe", "insert"},
           openRows' \in {openRows, [openRows EXCEPT ![docsLeft[1]] = r]}, Busy,
           UNCHANGED <<stored, ftsRows, updating, apply, fetched, touched>>
    PROVE  MigrationInv'
<1>1. DOMAIN openRows' = Docs /\ \A d \in success : openRows'[d] = Same
  BY DEF MigrationInv, NothingOpenOfDone
<1>2. CASE place' = "wipe" /\ UNCHANGED <<docsLeft, success>>
  BY <1>1, <1>2 DEF MigrationInv, LeftIsNotDone, WrittenIsFetched, NothingOpenOfDone, DoneIsIndexed
<1>3. CASE NextDoc({}, {docsLeft[1]})
  <2>1. docsLeft' \in Seq(Docs) /\ success' \subseteq Docs /\ LeftIsNotDone'
    BY <1>3, NextDocEffect
  <2>2. place' = "fetch" /\ success' = success
    BY <1>3 DEF NextDoc
  <2> QED BY <1>1, <2>1, <2>2 DEF MigrationInv, WrittenIsFetched, NothingOpenOfDone, DoneIsIndexed
<1> QED BY <1>2, <1>3 DEF Busy

(* Every step of the migration and of the jobs beside it keeps the         *)
(* invariant.                                                              *)
LEMMA MigrationStep == MigrationInv /\ [MigrationNext]_migrationVars => MigrationInv'
<1> SUFFICES ASSUME MigrationInv, [MigrationNext]_migrationVars PROVE MigrationInv'
  OBVIOUS
<1> USE DEF scriptVars
<1>1. ASSUME NEW d \in Docs, UpdatePoints(d) PROVE MigrationInv'
  BY <1>1 DEF MigrationInv, UpdatePoints, LeftIsNotDone, WrittenIsFetched, NothingOpenOfDone, DoneIsIndexed
<1>2. ASSUME NEW d \in Docs, UpdateRows(d) PROVE MigrationInv'
  <2>1. \A x \in Docs : x # d => ftsRows'[x] = ftsRows[x]
    BY <1>2 DEF UpdateRows, MigrationInv
  <2>2. DOMAIN ftsRows' = Docs /\ d \in touched
    BY <1>2 DEF UpdateRows, MigrationInv
  <2> QED BY <1>2, <2>1, <2>2 DEF UpdateRows, MigrationInv, LeftIsNotDone, WrittenIsFetched, NothingOpenOfDone, DoneIsIndexed
<1>3. ASSUME StartMigration PROVE MigrationInv'
  <2>1. docsLeft' \in Seq(Docs) /\ \A i, j \in 1 .. Len(docsLeft') : docsLeft'[i] = docsLeft'[j] => i = j
    <3>1. CASE UNCHANGED docsLeft
      BY <3>1 DEF MigrationInv, LeftIsNotDone
    <3>2. CASE ~UNCHANGED docsLeft
      <4> DEFINE S == {d \in Docs : stored[d] # {}}
      <4>1. \E limit \in 0 .. Len(Selected(DocOrder, S)) : docsLeft' = SubSeq(Selected(DocOrder, S), 1, limit)
        <5>1. Selected(DocOrder, S) \in Seq(Docs)
          BY MigrationAssumption, SelectedFacts DEF IsSelection
        <5>2. Len(Selected(DocOrder, S)) \in 0 .. Len(Selected(DocOrder, S))
          BY <5>1
        <5> QED BY <1>3, <3>2, <5>2 DEF StartMigration
      <4> HIDE DEF S
      <4>2. PICK limit \in 0 .. Len(Selected(DocOrder, S)) : docsLeft' = SubSeq(Selected(DocOrder, S), 1, limit)
        BY <4>1
      <4> QED BY <4>2, ListedDocs
    <3> QED BY <3>1, <3>2
  <2>2. /\ place' \in {"fetch", "idle"} /\ success' = {} /\ touched' = updating
        /\ UNCHANGED <<stored, ftsRows, updating, openRows>> /\ place = "idle"
    BY <1>3 DEF StartMigration
  <2> QED BY <2>1, <2>2 DEF MigrationInv, LeftIsNotDone, WrittenIsFetched, NothingOpenOfDone, DoneIsIndexed
<1>4. ASSUME FetchDoc PROVE MigrationInv'
  <2>1. docsLeft # <<>> /\ docsLeft \in Seq(Docs) /\ Head(docsLeft) = docsLeft[1]
    BY <1>4 DEF FetchDoc, MigrationInv
  <2>2. UNCHANGED <<stored, ftsRows, updating, openRows, apply, touched>> /\ fetched' = stored[docsLeft[1]]
    BY <1>4, <2>1 DEF FetchDoc
  <2>3. CASE place' = "wipe" /\ UNCHANGED <<docsLeft, success>> /\ apply
    BY <2>1, <2>2, <2>3 DEF MigrationInv, LeftIsNotDone, WrittenIsFetched, NothingOpenOfDone, DoneIsIndexed
  <2>4. ASSUME NEW ok, NEW bad, NextDoc(ok, bad), ok \subseteq {docsLeft[1]}, ok # {} => ~apply
        PROVE  MigrationInv'
    <3>1. docsLeft' \in Seq(Docs) /\ success' \subseteq Docs /\ LeftIsNotDone'
      BY <2>1, <2>4, NextDocEffect
    <3>2. place' = "fetch" /\ success' = success \cup ok
      BY <2>4 DEF NextDoc
    <3> QED BY <2>2, <2>4, <3>1, <3>2 DEF MigrationInv, WrittenIsFetched, NothingOpenOfDone, DoneIsIndexed
  <2> QED BY <1>4, <2>1, <2>3, <2>4 DEF FetchDoc
<1>5. ASSUME WipeRows PROVE MigrationInv'
  <2>1. /\ docsLeft # <<>> /\ docsLeft \in Seq(Docs) /\ Head(docsLeft) = docsLeft[1] /\ docsLeft[1] \in Docs
        /\ docsLeft[1] \notin success /\ apply
        /\ UNCHANGED <<stored, updating, apply, fetched, touched>>
    BY <1>5 DEF WipeRows, MigrationInv, WrittenIsFetched, LeftIsNotDone
  <2>2. CASE /\ ftsRows' = [Committed EXCEPT ![docsLeft[1]] = {}] /\ openRows' = NothingOpen
             /\ place' = "insert" /\ UNCHANGED <<docsLeft, success>>
    <3>1. \A d \in success : ftsRows'[d] = ftsRows[d]
      BY <2>1, <2>2 DEF Committed, MigrationInv, NothingOpenOfDone
    <3> QED BY <1>5, <2>1, <2>2, <3>1
            DEF WipeRows, Committed, NothingOpen, MigrationInv, LeftIsNotDone, WrittenIsFetched, NothingOpenOfDone, DoneIsIndexed
  <2>3. CASE /\ openRows' \in {openRows, [openRows EXCEPT ![docsLeft[1]] = {}]} /\ Busy /\ UNCHANGED ftsRows
    BY <1>5, <2>1, <2>3, BusyEffect DEF WipeRows
  <2> QED BY <1>5, <2>1, <2>2, <2>3 DEF WipeRows
<1>6. ASSUME InsertRows PROVE MigrationInv'
  <2>1. /\ docsLeft # <<>> /\ docsLeft \in Seq(Docs) /\ Head(docsLeft) = docsLeft[1] /\ docsLeft[1] \in Docs
        /\ docsLeft[1] \notin success /\ apply /\ (fetched = stored[docsLeft[1]] \/ docsLeft[1] \in touched)
        /\ UNCHANGED <<stored, updating, apply, fetched, touched>>
    BY <1>6 DEF InsertRows, MigrationInv, WrittenIsFetched, LeftIsNotDone
  <2>2. CASE NextDoc({}, {docsLeft[1]}) /\ UNCHANGED <<ftsRows, openRows>>
    BY <2>1, <2>2, NextDocEffect DEF NextDoc, MigrationInv, WrittenIsFetched, NothingOpenOfDone, DoneIsIndexed
  <2>3. CASE ftsRows' = [ftsRows EXCEPT ![docsLeft[1]] = fetched] /\ NextDoc({docsLeft[1]}, {}) /\ UNCHANGED openRows
    <3>1. docsLeft' \in Seq(Docs) /\ success' \subseteq Docs /\ LeftIsNotDone'
      BY <2>1, <2>3, NextDocEffect
    <3>2. success' = success \cup {docsLeft[1]} /\ place' = "fetch"
      BY <2>3 DEF NextDoc
    <3>3. \A d \in Docs : openRows[d] = Same
      BY <1>6 DEF InsertRows, MigrationInv, NothingOpenOfDone
    <3> QED BY <2>1, <2>3, <3>1, <3>2, <3>3 DEF MigrationInv, WrittenIsFetched, NothingOpenOfDone, DoneIsIndexed
  <2>4. CASE /\ openRows' \in {openRows, [openRows EXCEPT ![docsLeft[1]] = fetched]} /\ Busy /\ UNCHANGED ftsRows
    BY <1>6, <2>1, <2>4, BusyEffect DEF InsertRows
  <2> QED BY <1>6, <2>1, <2>2, <2>3, <2>4 DEF InsertRows
<1>7. ASSUME EndMigration PROVE MigrationInv'
  BY <1>7 DEF EndMigration, NothingOpen, MigrationInv, LeftIsNotDone, WrittenIsFetched, NothingOpenOfDone, DoneIsIndexed
<1>8. ASSUME KillMigration PROVE MigrationInv'
  <2>1. <<>> \in Seq(Docs) /\ Len(<<>>) = 0
    OBVIOUS
  <2> QED BY <1>8, <2>1 DEF KillMigration, NothingOpen, MigrationInv, LeftIsNotDone, WrittenIsFetched, NothingOpenOfDone, DoneIsIndexed
<1>9. ASSUME UNCHANGED migrationVars PROVE MigrationInv'
  BY <1>9 DEF migrationVars, MigrationInv, LeftIsNotDone, WrittenIsFetched, NothingOpenOfDone, DoneIsIndexed
<1> QED BY <1>1, <1>2, <1>3, <1>4, <1>5, <1>6, <1>7, <1>8, <1>9 DEF MigrationNext
-----------------------------------------------------------------------------

(* What is done is indexed unless it was touched; while a document is      *)
(* written, its chunks are the ones fetched.                               *)
THEOREM MigrationInductive == MigrationSpec => []MigrationInv
<1>1. MigrationInit => MigrationInv
  BY DEF MigrationInit, MigrationInv, LeftIsNotDone, WrittenIsFetched, NothingOpenOfDone, DoneIsIndexed
<1> QED BY <1>1, MigrationStep, PTL DEF MigrationSpec

(* A run that counted a document as migrated left in the keyword index     *)
(* exactly the chunks Qdrant holds of it, whatever an earlier run left     *)
(* behind, unless a job of the document ran since the run started          *)
(* (migrate_fts_v1_to_v2.py:174-237), for any documents and any number of  *)
(* runs.                                                                   *)
THEOREM MigratedStays == MigrationSpec => []MigratedMeansIndexed
<1>1. MigrationInv => MigratedMeansIndexed
  BY DEF MigrationInv, DoneIsIndexed, MigratedMeansIndexed
<1> QED BY <1>1, MigrationInductive, PTL
=============================================================================
