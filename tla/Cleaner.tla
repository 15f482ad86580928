------------------------------ MODULE Cleaner ------------------------------
(***************************************************************************)
(* The cleaner (src/cleaner): a nightly process that deletes, first, the   *)
(* documents of the http_logs_ collections of MongoDB older than the       *)
(* retention, and then the log files in a list of folders.                 *)
(*                                                                         *)
(* A document is its _id, and _ids grow with time: the ones below Expire   *)
(* are expired.  A query and the deletion that follows it are two steps,   *)
(* and so are the lstat of a file and its removal: the services that write *)
(* the logs run in between.                                                *)
(***************************************************************************)
EXTENDS Integers, FiniteSets

CONSTANTS
  Colls,     \* the collections of the database
  HttpLogs,  \* the ones whose name begins with http_logs_
  MaxId,     \* bound: the last _id
  Dbs,       \* what the collections may hold at the start
  Expire,    \* the _id NewObjectIDFromTimestamp makes of the expiry date
  Batches,   \* values of DeleteOneBatch in config.yaml
  Folders,   \* LogCleanPaths
  Names,     \* names of log files
  MaxFaults, \* bound: calls to MongoDB or the file system that fail
  Nil

ASSUME CollsAssumption == HttpLogs \subseteq Colls
ASSUME IdsAssumption == MaxId \in Nat /\ Expire \in 1 .. MaxId
ASSUME DbsAssumption == Dbs \subseteq [Colls -> SUBSET (1 .. MaxId)]
ASSUME BatchAssumption == Batches \subseteq Nat
ASSUME NilAssumption == Nil \notin Colls \cup Folders \cup Names
ASSUME FaultsAssumption == MaxFaults \in Nat

VARIABLES
  pc,       \* where the process is
  batch,    \* m.DeleteOneBatch
  docs,     \* collection -> the _ids of its documents
  colls,    \* collections the range loop of Clean has not reached
  coll,     \* the one it is at
  last,     \* log.ID
  files,    \* folder -> file -> "old", "new" or "none" (ModTime against ExpireDate)
  folders,  \* folders whose LogCleaner has not run
  folder,
  names,    \* entries of the folder filepath.Walk has not visited
  file,     \* the entry it has called back for
  faults,
  initDocs, \* history: the documents at the start
  cleaned,  \* history: the collections whose loop ended for want of documents
  walked,   \* history: the folders whose Walk returned no error
  kept,     \* history: files whose removal failed
  raced     \* history: the file was written since its lstat

config == <<batch, initDocs>>
dbVars == <<docs, colls, coll, last, cleaned>>
logVars == <<files, folders, folder, names, file, walked, kept, raced>>
vars == <<pc, config, dbVars, logVars, faults>>

Ids == 1 .. MaxId
Ages == {"old", "new", "none"}
States == {"start", "list", "next", "find", "delete", "walk", "visit", "remove", "done", "fatal"}

Goto(from, to) == pc = from /\ pc' = to
Fault == faults < MaxFaults /\ faults' = faults + 1

Init ==
  /\ pc = "start"
  /\ batch \in Batches
  /\ docs \in Dbs
  /\ initDocs = docs
  /\ colls = {} /\ coll = Nil /\ last = 0
  /\ files \in [Folders -> [Names -> Ages]]
  /\ folders = Folders /\ folder = Nil /\ names = {} /\ file = Nil
  /\ faults = 0
  /\ cleaned = {} /\ walked = {} /\ kept = {} /\ raced = FALSE

-----------------------------------------------------------------------------
(* MongodbCleaner *)

\* MongoDb.Enabled, and GetDbClient connects.
Connect ==
  /\ Goto("start", "list")
  /\ UNCHANGED <<config, dbVars, logVars, faults>>

\* ~MongoDb.Enabled
NoDatabase ==
  /\ Goto("start", "walk")
  /\ UNCHANGED <<config, dbVars, logVars, faults>>

\* No Uri (log.Fatal) or no connection (panic): the process ends.
ConnectFails ==
  /\ Goto("start", "fatal")
  /\ Fault
  /\ UNCHANGED <<config, dbVars, logVars>>

ListCollectionNames ==
  /\ Goto("list", "next")
  /\ colls' = Colls
  /\ UNCHANGED <<config, docs, coll, last, cleaned, logVars, faults>>

\* main logs the error Clean returns and goes on with the log cleaners.
ListFails ==
  /\ Goto("list", "walk")
  /\ Fault
  /\ UNCHANGED <<config, dbVars, logVars>>

\* Mutant: the prefix is not tested.
NextCollAny(c) ==
  /\ c \in colls
  /\ Goto("next", "find")
  /\ colls' = colls \ {c}
  /\ coll' = c
  /\ UNCHANGED <<config, docs, last, cleaned, logVars, faults>>

NextColl(c) ==
  /\ c \in colls
  /\ Goto("next", IF c \in HttpLogs THEN "find" ELSE "next")
  /\ colls' = colls \ {c}
  /\ coll' = c
  /\ UNCHANGED <<config, docs, last, cleaned, logVars, faults>>

CollsDone ==
  /\ colls = {}
  /\ Goto("next", "walk")
  /\ UNCHANGED <<config, dbVars, logVars, faults>>

Expired(ds) == {d \in ds : d < Expire}

\* Mutant: the document after the batch is looked for among all documents.
FoundUnfiltered == {d \in docs[coll] : Cardinality({e \in docs[coll] : e < d}) = batch}

\* Mutant: without SetSkip.
FoundFirst == {d \in Expired(docs[coll]) : \A e \in docs[coll] : d <= e}

\* FindOne with the filter and SetSkip(DeleteOneBatch), along the _id index.
Found == {d \in Expired(docs[coll]) : Cardinality({e \in docs[coll] : e < d}) = batch}

FindOne ==
  /\ Goto("find", "delete")
  /\ last' \in Found
  /\ UNCHANGED <<config, docs, colls, coll, cleaned, logVars, faults>>

\* mongo.ErrNoDocuments
NoDocuments ==
  /\ Goto("find", "next")
  /\ Found = {}
  /\ cleaned' = cleaned \cup {coll}
  /\ UNCHANGED <<config, docs, colls, coll, last, logVars, faults>>

FindFails ==
  /\ Goto("find", "next")
  /\ Fault
  /\ UNCHANGED <<config, dbVars, logVars>>

\* Mutant: the loop is left after a batch, as in the commented-out break.
DeleteManyOnce ==
  /\ Goto("delete", "next")
  /\ docs' = [docs EXCEPT ![coll] = {d \in @ : d >= last}]
  /\ cleaned' = cleaned \cup {coll}
  /\ UNCHANGED <<config, colls, coll, last, logVars, faults>>

DeleteMany ==
  /\ Goto("delete", "find")
  /\ docs' = [docs EXCEPT ![coll] = {d \in @ : d >= last}]
  /\ UNCHANGED <<config, colls, coll, last, cleaned, logVars, faults>>

\* The error is logged, and the loop asks again.
DeleteFails ==
  /\ Goto("delete", "find")
  /\ Fault
  /\ UNCHANGED <<config, dbVars, logVars>>

-----------------------------------------------------------------------------
(* LogCleaner *)

Here == {n \in Names : files[folder][n] # "none"}

\* Walk reads the names of the folder's entries before it visits the first.
Walk(f) ==
  /\ f \in folders
  /\ Goto("walk", "visit")
  /\ folders' = folders \ {f}
  /\ folder' = f
  /\ names' = {n \in Names : files[f][n] # "none"}
  /\ UNCHANGED <<config, dbVars, files, file, walked, kept, raced, faults>>

\* lstat of the root or reading the folder fails: the callback returns the error.
WalkFails(f) ==
  /\ f \in folders
  /\ pc = "walk"
  /\ Fault
  /\ folders' = folders \ {f}
  /\ UNCHANGED <<pc, config, dbVars, files, folder, names, file, walked, kept, raced>>

\* lstat and the callback: a new file is left alone, an old one is removed next.
Visit(n) ==
  /\ Goto("visit", IF files[folder][n] = "old" THEN "remove" ELSE "visit")
  /\ n \in names \cap Here
  /\ names' = names \ {n}
  /\ file' = n
  /\ raced' = FALSE
  /\ UNCHANGED <<config, dbVars, files, folders, folder, walked, kept, faults>>

\* Mutant: the callback returns filepath.SkipDir, which Walk does not report.
VisitGoneSkipDir(n) ==
  /\ Goto("visit", "walk")
  /\ n \in names \ Here
  /\ names' = {}
  /\ walked' = walked \cup {folder}
  /\ UNCHANGED <<config, dbVars, files, folders, folder, file, kept, raced, faults>>

\* lstat fails, since the entry has gone: the error ends the Walk of the folder.
VisitGone(n) ==
  /\ Goto("visit", "walk")
  /\ n \in names \ Here
  /\ names' = {}
  /\ UNCHANGED <<config, dbVars, files, folders, folder, file, walked, kept, raced, faults>>

\* os.Remove; its error, the file being gone included, is only logged.
Remove ==
  /\ Goto("remove", "visit")
  /\ files' = [files EXCEPT ![folder][file] = "none"]
  /\ UNCHANGED <<config, dbVars, folders, folder, names, file, walked, kept, raced, faults>>

RemoveFails ==
  /\ Goto("remove", "visit")
  /\ Fault
  /\ kept' = kept \cup {<<folder, file>>}
  /\ UNCHANGED <<config, dbVars, files, folders, folder, names, file, walked, raced>>

WalkDone ==
  /\ names = {}
  /\ Goto("visit", "walk")
  /\ walked' = walked \cup {folder}
  /\ UNCHANGED <<config, dbVars, files, folders, folder, names, file, kept, raced, faults>>

CleanDone ==
  /\ folders = {}
  /\ Goto("walk", "done")
  /\ UNCHANGED <<config, dbVars, logVars, faults>>

-----------------------------------------------------------------------------
(* The services that write the logs *)

\* A document gets an _id of the present, which is past the expiry date.
Insert(c, d) ==
  /\ d >= Expire /\ \A e \in docs[c] : e < d
  /\ docs' = [docs EXCEPT ![c] = @ \cup {d}]
  /\ UNCHANGED <<pc, config, colls, coll, last, cleaned, logVars, faults>>

\* A line is written to a log file, which may be created by it.
Write(f, n) ==
  /\ files[f][n] # "new"
  /\ files' = [files EXCEPT ![f][n] = "new"]
  /\ raced' = (raced \/ (pc = "remove" /\ f = folder /\ n = file))
  /\ UNCHANGED <<pc, config, dbVars, folders, folder, names, file, walked, kept, faults>>

\* Log rotation moves or deletes a file.
Rotate(f, n) ==
  /\ files[f][n] # "none"
  /\ Fault
  /\ files' = [files EXCEPT ![f][n] = "none"]
  /\ UNCHANGED <<pc, config, dbVars, folders, folder, names, file, walked, kept, raced>>

-----------------------------------------------------------------------------

\* (*MongodbCleaner).Clean and GetDbClient
CleanDb ==
  \/ Connect \/ NoDatabase \/ ConnectFails
  \/ ListCollectionNames \/ ListFails
  \/ \E c \in Colls : NextColl(c)
  \/ CollsDone
  \/ FindOne \/ NoDocuments \/ FindFails
  \/ DeleteMany \/ DeleteFails

\* (*LogCleaner).Clean
CleanLogs ==
  \/ \E f \in Folders : Walk(f) \/ WalkFails(f)
  \/ \E n \in Names : Visit(n) \/ VisitGone(n)
  \/ Remove \/ RemoveFails \/ WalkDone \/ CleanDone

Services ==
  \/ \E c \in Colls, d \in Ids : Insert(c, d)
  \/ \E f \in Folders, n \in Names : Write(f, n) \/ Rotate(f, n)

Next == CleanDb \/ CleanLogs \/ Services

Spec == Init /\ [][Next]_vars

\* The process runs until it ends: main has no other goroutine, and no call waits
\* for anything but MongoDB or the disk.
FairSpec == Spec /\ WF_vars(CleanDb \/ CleanLogs)

-----------------------------------------------------------------------------
(* Properties *)

\* What each variable holds; and the loop over batches only ever runs on a
\* collection of HTTP logs, whatever else the database holds.
TypeOK ==
  /\ pc \in States
  /\ batch \in Batches
  /\ docs \in [Colls -> SUBSET Ids]
  /\ initDocs \in [Colls -> SUBSET Ids]
  /\ colls \subseteq Colls
  /\ coll \in Colls \cup {Nil}
  /\ last \in 0 .. MaxId
  /\ pc \in {"find", "delete"} => coll \in HttpLogs
  /\ files \in [Folders -> [Names -> Ages]]
  /\ folders \subseteq Folders
  /\ folder \in Folders \cup {Nil}
  /\ names \subseteq Names
  /\ file \in Names \cup {Nil}
  /\ pc \in {"visit", "remove"} => folder \in Folders
  /\ pc = "remove" => file \in Names
  /\ cleaned \subseteq HttpLogs
  /\ walked \subseteq Folders
  /\ kept \subseteq Folders \X Names
  /\ raced \in BOOLEAN
  /\ faults \in 0 .. MaxFaults

\* The cleaner removes nothing that is within the retention, however its
\* queries and deletions interleave with the services that write: a document
\* it deletes is an expired one of a collection of HTTP logs (the _id that
\* FindOne returned is what DeleteMany compares with, not the expiry date), and
\* a log file it removes was old, unless a service wrote to it after its lstat.
FreshDataStays ==
  [][CleanDb \/ CleanLogs =>
       /\ \A c \in Colls : \A d \in docs[c] \ docs'[c] : c \in HttpLogs /\ d < Expire
       /\ \A f \in Folders, n \in Names :
            files'[f][n] # files[f][n] => (files[f][n] = "new" => raced)]_vars

\* A collection whose loop ended for want of documents keeps at most a batch of
\* expired documents, and they are its newest: deletion goes from the oldest
\* up.  If it had any, it keeps some.
LastBatchStays ==
  \A c \in cleaned :
    LET left == Expired(docs[c])
        was == Expired(initDocs[c])
    IN /\ left \subseteq was
       /\ Cardinality(left) <= batch
       /\ \A d \in was \ left, e \in left : d < e
       /\ was # {} => left # {}

\* A folder whose Walk returned no error has no old file left but those that
\* could not be removed: an entry that vanishes under the Walk ends it early,
\* and then it does return an error.
WalkedFoldersClean ==
  \A f \in walked, n \in Names : files[f][n] = "old" => <<f, n>> \in kept

\* With a batch of at least one document the process ends: every turn of the
\* loop deletes a batch, whatever is inserted meanwhile.  (DeleteOneBatch is 0
\* when config.yaml does not give it; the loop then deletes nothing, for ever.)
Terminates == batch > 0 => <>(pc \in {"done", "fatal"})
=============================================================================
