--------------------------- MODULE CleanerProofs ---------------------------
(***************************************************************************)
(* Proofs about the cleaner, for any collections, documents, batch,        *)
(* folders and files: it deletes nothing that is within the retention, a   *)
(* folder it walked without an error is clean, and a collection it cleaned *)
(* keeps its newest expired documents, a batch of them at most.            *)
(***************************************************************************)
EXTENDS Cleaner, FiniteSetTheorems, WellFoundedInduction, TLAPS

\* The _id of the next deletion is that of an expired document.
DeleteBound == pc = "delete" => last < Expire

\* The file to be removed is not new, unless written to since its lstat.
RemoveOld == pc = "remove" /\ files[folder][file] = "new" => raced

\* The old files of the folder being walked are still to be visited, or could not
\* be removed, or are just being removed.
WalkAhead ==
  pc \in {"visit", "remove"} =>
    \A n \in Names :
      files[folder][n] = "old" =>
        n \in names \/ <<folder, n>> \in kept \/ (pc = "remove" /\ n = file)

IInv == TypeOK /\ DeleteBound /\ RemoveOld /\ WalkAhead /\ WalkedFoldersClean

-----------------------------------------------------------------------------

\* The invariant holds when the process starts.
LEMMA InitInv == Init => IInv
<1> SUFFICES ASSUME Init PROVE IInv
  OBVIOUS
<1>1. docs \in [Colls -> SUBSET Ids] /\ initDocs = docs
  BY DbsAssumption DEF Init, Ids
<1>2. last \in 0 .. MaxId /\ faults \in 0 .. MaxFaults
  BY IdsAssumption, FaultsAssumption DEF Init
<1>3. pc = "start" /\ pc \in States
  BY DEF Init, States
<1>4. TypeOK
  <2>1. batch \in Batches /\ files \in [Folders -> [Names -> Ages]]
    BY DEF Init
  <2>2. colls \subseteq Colls /\ names \subseteq Names /\ folders \subseteq Folders
    BY DEF Init
  <2>3. coll \in Colls \cup {Nil} /\ folder \in Folders \cup {Nil} /\ file \in Names \cup {Nil}
    BY DEF Init
  <2>4. cleaned \subseteq HttpLogs /\ walked \subseteq Folders /\ kept \subseteq Folders \X Names
    BY DEF Init
  <2>5. raced \in BOOLEAN
    BY DEF Init
  <2> QED
    BY <1>1, <1>2, <1>3, <2>1, <2>2, <2>3, <2>4, <2>5 DEF TypeOK
<1> QED
  BY <1>4 DEF Init, IInv, DeleteBound, RemoveOld, WalkAhead, WalkedFoldersClean

\* The steps of MongodbCleaner keep the invariant.
LEMMA CleanDbInv == ASSUME IInv, CleanDb PROVE IInv'
<1> USE IdsAssumption, CollsAssumption, NilAssumption, FaultsAssumption
<1>1. ASSUME Connect PROVE IInv'
  <2>1. TypeOK'
    BY <1>1 DEF IInv, TypeOK, States, Ids, Ages, Connect, Goto, config, dbVars, logVars
  <2>2. DeleteBound' /\ RemoveOld'
    BY <1>1 DEF IInv, TypeOK, DeleteBound, RemoveOld, Connect, Goto, config, dbVars, logVars
  <2>3. WalkAhead' /\ WalkedFoldersClean'
    BY <1>1 DEF IInv, TypeOK, WalkAhead, WalkedFoldersClean, Connect, Goto, config, dbVars, logVars
  <2> QED
    BY <2>1, <2>2, <2>3 DEF IInv
<1>2. ASSUME NoDatabase PROVE IInv'
  <2>1. TypeOK'
    BY <1>2 DEF IInv, TypeOK, States, Ids, Ages, NoDatabase, Goto, config, dbVars, logVars
  <2>2. DeleteBound' /\ RemoveOld'
    BY <1>2 DEF IInv, TypeOK, DeleteBound, RemoveOld, NoDatabase, Goto, config, dbVars, logVars
  <2>3. WalkAhead' /\ WalkedFoldersClean'
    BY <1>2 DEF IInv, TypeOK, WalkAhead, WalkedFoldersClean, NoDatabase, Goto, config, dbVars, logVars
  <2> QED
    BY <2>1, <2>2, <2>3 DEF IInv
<1>3. ASSUME ConnectFails PROVE IInv'
  <2>1. TypeOK'
    BY <1>3 DEF IInv, TypeOK, States, Ids, Ages, ConnectFails, Goto, Fault, config, dbVars, logVars
  <2>2. DeleteBound' /\ RemoveOld'
    BY <1>3 DEF IInv, TypeOK, DeleteBound, RemoveOld, ConnectFails, Goto, Fault, config, dbVars, logVars
  <2>3. WalkAhead' /\ WalkedFoldersClean'
    BY <1>3 DEF IInv, TypeOK, WalkAhead, WalkedFoldersClean, ConnectFails, Goto, Fault, config, dbVars, logVars
  <2> QED
    BY <2>1, <2>2, <2>3 DEF IInv
<1>4. ASSUME ListCollectionNames PROVE IInv'
  <2>1. TypeOK'
    BY <1>4 DEF IInv, TypeOK, States, Ids, Ages, ListCollectionNames, Goto, config, dbVars, logVars
  <2>2. DeleteBound' /\ RemoveOld'
    BY <1>4 DEF IInv, TypeOK, DeleteBound, RemoveOld, ListCollectionNames, Goto, config, dbVars, logVars
  <2>3. WalkAhead' /\ WalkedFoldersClean'
    BY <1>4 DEF IInv, TypeOK, WalkAhead, WalkedFoldersClean, ListCollectionNames, Goto, config, dbVars, logVars
  <2> QED
    BY <2>1, <2>2, <2>3 DEF IInv
<1>5. ASSUME ListFails PROVE IInv'
  <2>1. TypeOK'
    BY <1>5 DEF IInv, TypeOK, States, Ids, Ages, ListFails, Goto, Fault, config, dbVars, logVars
  <2>2. DeleteBound' /\ RemoveOld'
    BY <1>5 DEF IInv, TypeOK, DeleteBound, RemoveOld, ListFails, Goto, Fault, config, dbVars, logVars
  <2>3. WalkAhead' /\ WalkedFoldersClean'
    BY <1>5 DEF IInv, TypeOK, WalkAhead, WalkedFoldersClean, ListFails, Goto, Fault, config, dbVars, logVars
  <2> QED
    BY <2>1, <2>2, <2>3 DEF IInv
<1>6. ASSUME NEW c \in Colls, NextColl(c) PROVE IInv'
  <2>1. TypeOK'
    BY <1>6 DEF IInv, TypeOK, States, Ids, Ages, NextColl, Goto, config, dbVars, logVars
  <2>2. DeleteBound' /\ RemoveOld'
    BY <1>6 DEF IInv, TypeOK, DeleteBound, RemoveOld, NextColl, Goto, config, dbVars, logVars
  <2>3. WalkAhead' /\ WalkedFoldersClean'
    BY <1>6 DEF IInv, TypeOK, WalkAhead, WalkedFoldersClean, NextColl, Goto, config, dbVars, logVars
  <2> QED
    BY <2>1, <2>2, <2>3 DEF IInv
<1>7. ASSUME CollsDone PROVE IInv'
  <2>1. TypeOK'
    BY <1>7 DEF IInv, TypeOK, States, Ids, Ages, CollsDone, Goto, config, dbVars, logVars
  <2>2. DeleteBound' /\ RemoveOld'
    BY <1>7 DEF IInv, TypeOK, DeleteBound, RemoveOld, CollsDone, Goto, config, dbVars, logVars
  <2>3. WalkAhead' /\ WalkedFoldersClean'
    BY <1>7 DEF IInv, TypeOK, WalkAhead, WalkedFoldersClean, CollsDone, Goto, config, dbVars, logVars
  <2> QED
    BY <2>1, <2>2, <2>3 DEF IInv
<1>8. ASSUME FindOne PROVE IInv'
  <2>1. TypeOK'
    BY <1>8 DEF IInv, TypeOK, States, Ids, Ages, FindOne, Goto, Found, Expired, config, dbVars, logVars
  <2>2. DeleteBound' /\ RemoveOld'
    BY <1>8 DEF IInv, TypeOK, DeleteBound, RemoveOld, FindOne, Goto, Found, Expired, config, dbVars, logVars
  <2>3. WalkAhead' /\ WalkedFoldersClean'
    BY <1>8 DEF IInv, TypeOK, WalkAhead, WalkedFoldersClean, FindOne, Goto, Found, Expired, config, dbVars, logVars
  <2> QED
    BY <2>1, <2>2, <2>3 DEF IInv
<1>9. ASSUME NoDocuments PROVE IInv'
  <2>1. TypeOK'
    BY <1>9 DEF IInv, TypeOK, States, Ids, Ages, NoDocuments, Goto, Found, Expired, config, dbVars, logVars
  <2>2. DeleteBound' /\ RemoveOld'
    BY <1>9 DEF IInv, TypeOK, DeleteBound, RemoveOld, NoDocuments, Goto, Found, Expired, config, dbVars, logVars
  <2>3. WalkAhead' /\ WalkedFoldersClean'
    BY <1>9 DEF IInv, TypeOK, WalkAhead, WalkedFoldersClean, NoDocuments, Goto, Found, Expired, config, dbVars, logVars
  <2> QED
    BY <2>1, <2>2, <2>3 DEF IInv
<1>10. ASSUME FindFails PROVE IInv'
  <2>1. TypeOK'
    BY <1>10 DEF IInv, TypeOK, States, Ids, Ages, FindFails, Goto, Fault, config, dbVars, logVars
  <2>2. DeleteBound' /\ RemoveOld'
    BY <1>10 DEF IInv, TypeOK, DeleteBound, RemoveOld, FindFails, Goto, Fault, config, dbVars, logVars
  <2>3. WalkAhead' /\ WalkedFoldersClean'
    BY <1>10 DEF IInv, TypeOK, WalkAhead, WalkedFoldersClean, FindFails, Goto, Fault, config, dbVars, logVars
  <2> QED
    BY <2>1, <2>2, <2>3 DEF IInv
<1>11. ASSUME DeleteMany PROVE IInv'
  <2>1. TypeOK'
    BY <1>11 DEF IInv, TypeOK, States, Ids, Ages, DeleteMany, Goto, config, dbVars, logVars
  <2>2. DeleteBound' /\ RemoveOld'
    BY <1>11 DEF IInv, TypeOK, DeleteBound, RemoveOld, DeleteMany, Goto, config, dbVars, logVars
  <2>3. WalkAhead' /\ WalkedFoldersClean'
    BY <1>11 DEF IInv, TypeOK, WalkAhead, WalkedFoldersClean, DeleteMany, Goto, config, dbVars, logVars
  <2> QED
    BY <2>1, <2>2, <2>3 DEF IInv
<1>12. ASSUME DeleteFails PROVE IInv'
  <2>1. TypeOK'
    BY <1>12 DEF IInv, TypeOK, States, Ids, Ages, DeleteFails, Goto, Fault, config, dbVars, logVars
  <2>2. DeleteBound' /\ RemoveOld'
    BY <1>12 DEF IInv, TypeOK, DeleteBound, RemoveOld, DeleteFails, Goto, Fault, config, dbVars, logVars
  <2>3. WalkAhead' /\ WalkedFoldersClean'
    BY <1>12 DEF IInv, TypeOK, WalkAhead, WalkedFoldersClean, DeleteFails, Goto, Fault, config, dbVars, logVars
  <2> QED
    BY <2>1, <2>2, <2>3 DEF IInv
<1> QED
  BY <1>1, <1>2, <1>3, <1>4, <1>5, <1>6, <1>7, <1>8, <1>9, <1>10, <1>11, <1>12 DEF CleanDb

\* The steps of LogCleaner keep the invariant.
LEMMA CleanLogsInv == ASSUME IInv, CleanLogs PROVE IInv'
<1> USE IdsAssumption, CollsAssumption, NilAssumption, FaultsAssumption
<1>1. ASSUME NEW f \in Folders, Walk(f) PROVE IInv'
  <2>1. TypeOK'
    BY <1>1 DEF IInv, TypeOK, States, Ids, Ages, Walk, Goto, config, dbVars, logVars
  <2>2. DeleteBound' /\ RemoveOld'
    BY <1>1 DEF IInv, TypeOK, DeleteBound, RemoveOld, Walk, Goto, config, dbVars, logVars
  <2>3. WalkAhead' /\ WalkedFoldersClean'
    BY <1>1 DEF IInv, TypeOK, WalkAhead, WalkedFoldersClean, Walk, Goto, config, dbVars, logVars
  <2> QED
    BY <2>1, <2>2, <2>3 DEF IInv
<1>2. ASSUME NEW f \in Folders, WalkFails(f) PROVE IInv'
  <2>1. TypeOK'
    BY <1>2 DEF IInv, TypeOK, States, Ids, Ages, WalkFails, Fault, config, dbVars, logVars
  <2>2. DeleteBound' /\ RemoveOld'
    BY <1>2 DEF IInv, TypeOK, DeleteBound, RemoveOld, WalkFails, Fault, config, dbVars, logVars
  <2>3. WalkAhead' /\ WalkedFoldersClean'
    BY <1>2 DEF IInv, TypeOK, WalkAhead, WalkedFoldersClean, WalkFails, Fault, config, dbVars, logVars
  <2> QED
    BY <2>1, <2>2, <2>3 DEF IInv
<1>3. ASSUME NEW n \in Names, Visit(n) PROVE IInv'
  <2>1. TypeOK'
    BY <1>3 DEF IInv, TypeOK, States, Ids, Ages, Visit, Goto, Here, config, dbVars, logVars
  <2>2. DeleteBound' /\ RemoveOld'
    BY <1>3 DEF IInv, TypeOK, DeleteBound, RemoveOld, Visit, Goto, Here, config, dbVars, logVars
  <2>3. WalkAhead' /\ WalkedFoldersClean'
    BY <1>3 DEF IInv, TypeOK, WalkAhead, WalkedFoldersClean, Visit, Goto, Here, config, dbVars, logVars
  <2> QED
    BY <2>1, <2>2, <2>3 DEF IInv
<1>4. ASSUME NEW n \in Names, VisitGone(n) PROVE IInv'
  <2>1. TypeOK'
    BY <1>4 DEF IInv, TypeOK, States, Ids, Ages, VisitGone, Goto, Here, config, dbVars, logVars
  <2>2. DeleteBound' /\ RemoveOld'
    BY <1>4 DEF IInv, TypeOK, DeleteBound, RemoveOld, VisitGone, Goto, Here, config, dbVars, logVars
  <2>3. WalkAhead' /\ WalkedFoldersClean'
    BY <1>4 DEF IInv, TypeOK, WalkAhead, WalkedFoldersClean, VisitGone, Goto, Here, config, dbVars, logVars
  <2> QED
    BY <2>1, <2>2, <2>3 DEF IInv
<1>5. ASSUME Remove PROVE IInv'
  <2>1. TypeOK'
    BY <1>5 DEF IInv, TypeOK, States, Ids, Ages, Remove, Goto, config, dbVars, logVars
  <2>2. DeleteBound' /\ RemoveOld'
    BY <1>5 DEF IInv, TypeOK, DeleteBound, RemoveOld, Remove, Goto, config, dbVars, logVars
  <2>3. WalkAhead' /\ WalkedFoldersClean'
    BY <1>5 DEF IInv, TypeOK, WalkAhead, WalkedFoldersClean, Remove, Goto, config, dbVars, logVars
  <2> QED
    BY <2>1, <2>2, <2>3 DEF IInv
<1>6. ASSUME RemoveFails PROVE IInv'
  <2>1. TypeOK'
    BY <1>6 DEF IInv, TypeOK, States, Ids, Ages, RemoveFails, Goto, Fault, config, dbVars, logVars
  <2>2. DeleteBound' /\ RemoveOld'
    BY <1>6 DEF IInv, TypeOK, DeleteBound, RemoveOld, RemoveFails, Goto, Fault, config, dbVars, logVars
  <2>3. WalkAhead' /\ WalkedFoldersClean'
    BY <1>6 DEF IInv, TypeOK, WalkAhead, WalkedFoldersClean, RemoveFails, Goto, Fault, config, dbVars, logVars
  <2> QED
    BY <2>1, <2>2, <2>3 DEF IInv
<1>7. ASSUME WalkDone PROVE IInv'
  <2>1. TypeOK'
    BY <1>7 DEF IInv, TypeOK, States, Ids, Ages, WalkDone, Goto, config, dbVars, logVars
  <2>2. DeleteBound' /\ RemoveOld'
    BY <1>7 DEF IInv, TypeOK, DeleteBound, RemoveOld, WalkDone, Goto, config, dbVars, logVars
  <2>3. WalkAhead' /\ WalkedFoldersClean'
    BY <1>7 DEF IInv, TypeOK, WalkAhead, WalkedFoldersClean, WalkDone, Goto, config, dbVars, logVars
  <2> QED
    BY <2>1, <2>2, <2>3 DEF IInv
<1>8. ASSUME CleanDone PROVE IInv'
  <2>1. TypeOK'
    BY <1>8 DEF IInv, TypeOK, States, Ids, Ages, CleanDone, Goto, config, dbVars, logVars
  <2>2. DeleteBound' /\ RemoveOld'
    BY <1>8 DEF IInv, TypeOK, DeleteBound, RemoveOld, CleanDone, Goto, config, dbVars, logVars
  <2>3. WalkAhead' /\ WalkedFoldersClean'
    BY <1>8 DEF IInv, TypeOK, WalkAhead, WalkedFoldersClean, CleanDone, Goto, config, dbVars, logVars
  <2> QED
    BY <2>1, <2>2, <2>3 DEF IInv
<1> QED
  BY <1>1, <1>2, <1>3, <1>4, <1>5, <1>6, <1>7, <1>8 DEF CleanLogs

\* What the services write and rotate keeps the invariant.
LEMMA ServicesInv == ASSUME IInv, Services PROVE IInv'
<1> USE IdsAssumption, CollsAssumption, NilAssumption, FaultsAssumption
<1>1. ASSUME NEW c \in Colls, NEW d \in Ids, Insert(c, d) PROVE IInv'
  <2>1. TypeOK'
    BY <1>1 DEF IInv, TypeOK, States, Ids, Ages, Insert, config, dbVars, logVars
  <2>2. DeleteBound' /\ RemoveOld'
    BY <1>1 DEF IInv, TypeOK, DeleteBound, RemoveOld, Insert, config, dbVars, logVars
  <2>3. WalkAhead' /\ WalkedFoldersClean'
    BY <1>1 DEF IInv, TypeOK, WalkAhead, WalkedFoldersClean, Insert, config, dbVars, logVars
  <2> QED
    BY <2>1, <2>2, <2>3 DEF IInv
<1>2. ASSUME NEW f \in Folders, NEW n \in Names, Write(f, n) PROVE IInv'
  <2>1. TypeOK'
    BY <1>2 DEF IInv, TypeOK, States, Ids, Ages, Write, config, dbVars, logVars
  <2>2. DeleteBound' /\ RemoveOld'
    BY <1>2 DEF IInv, TypeOK, DeleteBound, RemoveOld, Write, config, dbVars, logVars
  <2>3. WalkAhead' /\ WalkedFoldersClean'
    BY <1>2 DEF IInv, TypeOK, WalkAhead, WalkedFoldersClean, Write, config, dbVars, logVars
  <2> QED
    BY <2>1, <2>2, <2>3 DEF IInv
<1>3. ASSUME NEW f \in Folders, NEW n \in Names, Rotate(f, n) PROVE IInv'
  <2>1. TypeOK'
    BY <1>3 DEF IInv, TypeOK, States, Ids, Ages, Rotate, Fault, config, dbVars, logVars
  <2>2. DeleteBound' /\ RemoveOld'
    BY <1>3 DEF IInv, TypeOK, DeleteBound, RemoveOld, Rotate, Fault, config, dbVars, logVars
  <2>3. WalkAhead' /\ WalkedFoldersClean'
    BY <1>3 DEF IInv, TypeOK, WalkAhead, WalkedFoldersClean, Rotate, Fault, config, dbVars, logVars
  <2> QED
    BY <2>1, <2>2, <2>3 DEF IInv
<1> QED
  BY <1>1, <1>2, <1>3 DEF Services

\* Every step keeps the invariant.
LEMMA NextInv == IInv /\ [Next]_vars => IInv'
<1> SUFFICES ASSUME IInv, [Next]_vars PROVE IInv'
  OBVIOUS
<1>1. CASE UNCHANGED vars
  BY <1>1 DEF vars, config, dbVars, logVars, IInv, TypeOK, DeleteBound, RemoveOld, WalkAhead,
              WalkedFoldersClean
<1> QED
  BY <1>1, CleanDbInv, CleanLogsInv, ServicesInv DEF Next

\* The cleaner and the services that write the logs keep the invariant for ever.
THEOREM Invariance == Spec => []IInv
<1> QED
  BY InitInv, NextInv, PTL DEF Spec

\* Types; and that the loop over batches stays within the collections of HTTP logs.
THEOREM TypeCorrect == Spec => []TypeOK
<1>1. IInv => TypeOK
  BY DEF IInv
<1> QED
  BY Invariance, <1>1, PTL

\* A folder that was walked without an error has no old file but those that could
\* not be removed.
THEOREM FoldersClean == Spec => []WalkedFoldersClean
<1>1. IInv => WalkedFoldersClean
  BY DEF IInv
<1> QED
  BY Invariance, <1>1, PTL

\* The cleaner deletes nothing that is within the retention.
THEOREM FreshIsSafe == Spec => FreshDataStays
<1> DEFINE DocsStay == \A c \in Colls : \A d \in docs[c] \ docs'[c] : c \in HttpLogs /\ d < Expire
           FilesStay == \A f \in Folders, n \in Names :
                          files'[f][n] # files[f][n] => (files[f][n] = "new" => raced)
<1>1. IInv /\ CleanDb => DocsStay
  <2> SUFFICES ASSUME IInv, CleanDb PROVE DocsStay
    OBVIOUS
  <2>1. CASE DeleteMany
    BY <2>1, IdsAssumption DEF IInv, TypeOK, DeleteBound, DeleteMany, Goto, Ids
  <2>2. CASE docs' = docs
    BY <2>2
  <2> QED
    BY <2>1, <2>2 DEF CleanDb, dbVars, Connect, NoDatabase, ConnectFails, ListCollectionNames,
       ListFails, NextColl, CollsDone, FindOne, NoDocuments, FindFails, DeleteFails
<1>2. CleanDb => files' = files
  BY DEF CleanDb, logVars, Connect, NoDatabase, ConnectFails, ListCollectionNames, ListFails,
     NextColl, CollsDone, FindOne, NoDocuments, FindFails, DeleteMany, DeleteFails
<1>3. CleanLogs => docs' = docs
  BY DEF CleanLogs, dbVars, Walk, WalkFails, Visit, VisitGone, Remove, RemoveFails, WalkDone, CleanDone
<1>4. IInv /\ CleanLogs => FilesStay
  <2> SUFFICES ASSUME IInv, CleanLogs PROVE FilesStay
    OBVIOUS
  <2>1. CASE Remove
    BY <2>1 DEF IInv, TypeOK, RemoveOld, Remove, Goto
  <2>2. CASE files' = files
    BY <2>2
  <2> QED
    BY <2>1, <2>2 DEF CleanLogs, logVars, Walk, WalkFails, Visit, VisitGone, RemoveFails, WalkDone,
       CleanDone
<1>5. IInv /\ (CleanDb \/ CleanLogs) => DocsStay /\ FilesStay
  BY <1>1, <1>2, <1>3, <1>4
<1>6. IInv /\ [Next]_vars => [CleanDb \/ CleanLogs => DocsStay /\ FilesStay]_vars
  BY <1>5
<1>7. Spec => [][CleanDb \/ CleanLogs => DocsStay /\ FilesStay]_vars
  BY Invariance, <1>6, PTL DEF Spec
<1> QED
  BY <1>7, PTL DEF FreshDataStays

-----------------------------------------------------------------------------
(* Batches *)

\* A set of numbers has a least one,
LEMMA Least == ASSUME NEW S \in SUBSET Nat, S # {} PROVE \E m \in S : \A n \in S : m <= n
<1>1. PICK m \in S : \A n \in S : ~(<<n, m>> \in OpToRel(<, Nat))
  BY NatLessThanWellFounded, WFMin
<1>2. \A n \in S : ~(n < m)
  <2> SUFFICES ASSUME NEW n \in S, n < m PROVE FALSE
    OBVIOUS
  <2>1. <<n, m>> \in Nat \X Nat /\ <<n, m>>[1] = n /\ <<n, m>>[2] = m
    OBVIOUS
  <2>2. <<n, m>> \in OpToRel(<, Nat)
    BY <2>1 DEF OpToRel
  <2> QED
    BY <1>1, <2>2
<1> QED
  BY <1>2

\* and a set of _ids a greatest one.
LEMMA Greatest == ASSUME NEW S \in SUBSET Ids, S # {} PROVE \E m \in S : \A n \in S : n <= m
<1> DEFINE T == {MaxId - n : n \in S}
<1>1. T \in SUBSET Nat /\ T # {}
  <2>1. \A n \in S : MaxId - n \in Nat
    BY IdsAssumption DEF Ids
  <2>2. PICK x \in S : MaxId - x \in T
    OBVIOUS
  <2> QED
    BY <2>1, <2>2
<1>2. PICK m \in T : \A n \in T : m <= n
  <2> HIDE DEF T
  <2> QED
    BY <1>1, Least
<1>3. PICK d \in S : m = MaxId - d
  OBVIOUS
<1>4. \A n \in S : m <= MaxId - n
  BY <1>2
<1>5. \A n \in S : n <= d
  BY <1>3, <1>4, IdsAssumption DEF Ids
<1> QED
  BY <1>5

\* Any set of _ids is finite.
LEMMA FiniteIds == ASSUME NEW S \in SUBSET Ids PROVE IsFiniteSet(S) /\ Cardinality(S) \in Nat
<1>1. IsFiniteSet(Ids)
  BY IdsAssumption, FS_Interval DEF Ids
<1>2. IsFiniteSet(S)
  BY <1>1, FS_Subset
<1> QED
  BY <1>2, FS_CardinalityType

\* Among the oldest documents B of L, the newest is younger than all others of B.
LEMMA NewestOf ==
  ASSUME NEW L \in SUBSET Ids, NEW B \in SUBSET L, B # {},
         \A b \in B, e \in L : e < b => e \in B
  PROVE  \E m \in B : Cardinality({e \in L : e < m}) = Cardinality(B) - 1
<1>1. B \in SUBSET Ids
  OBVIOUS
<1>2. PICK m \in B : \A n \in B : n <= m
  BY <1>1, Greatest
<1>3. {e \in L : e < m} = B \ {m}
  <2>1. \A e \in L : e \in Nat
    BY IdsAssumption DEF Ids
  <2>2. \A e \in L : e < m <=> e \in B /\ e # m
    BY <1>2, <2>1
  <2> QED
    BY <2>2
<1>4. Cardinality(B \ {m}) = Cardinality(B) - 1
  BY <1>1, FiniteIds, FS_RemoveElement
<1> QED
  BY <1>3, <1>4

\* SetSkip(k) finds a document as long as there are more than k: the least of those
\* with at least k older ones has exactly k.
LEMMA SkipFinds ==
  ASSUME NEW L \in SUBSET Ids, NEW k \in Nat, Cardinality(L) > k
  PROVE  \E d \in L : Cardinality({e \in L : e < d}) = k
<1> DEFINE Older(d) == {e \in L : e < d}
           A == {d \in L : Cardinality(Older(d)) >= k}
<1>1. Cardinality(L) \in Nat /\ \A d \in L : Cardinality(Older(d)) \in Nat
  BY FiniteIds
<1>2. A # {}
  <2>1. L # {}
    BY <1>1, FS_EmptySet
  <2>2. PICK m \in L : Cardinality(Older(m)) = Cardinality(L) - 1
    BY <2>1, NewestOf
  <2> QED
    BY <1>1, <2>2
<1>3. PICK d \in A : \A n \in A : d <= n
  <2>1. A \in SUBSET Nat
    <3>1. A \subseteq L /\ Ids \subseteq Nat
      BY IdsAssumption DEF Ids
    <3> QED
      BY <3>1
  <2> HIDE DEF A
  <2> QED
    BY <1>2, <2>1, Least
<1>4. ASSUME Cardinality(Older(d)) > k PROVE FALSE
  <2> DEFINE B == Older(d)
  <2>1. B # {} /\ B \in SUBSET L
    BY <1>1, <1>4, FS_EmptySet
  <2>2. \A b \in B, e \in L : e < b => e \in B
    <3> SUFFICES ASSUME NEW b \in B, NEW e \in L, e < b PROVE e < d
      OBVIOUS
    <3>1. e \in Nat /\ b \in Nat /\ d \in Nat /\ b < d
      BY DEF Ids
    <3> QED
      BY <3>1
  <2>3. PICK m \in B : Cardinality(Older(m)) = Cardinality(B) - 1
    <3> HIDE DEF B
    <3> QED
      BY <2>1, <2>2, NewestOf
  <2>4. m \in A /\ m < d
    BY <1>1, <1>4, <2>3
  <2>5. m \in Nat /\ d \in Nat
    BY DEF Ids
  <2> QED
    BY <1>3, <2>4, <2>5
<1>5. Cardinality(Older(d)) = k
  BY <1>1, <1>4
<1> QED
  BY <1>5

\* What is left of a collection's expired documents is the newest of them.
Newest(c) ==
  LET left == Expired(docs[c])
      was == Expired(initDocs[c])
  IN /\ left \subseteq was
     /\ \A d \in was \ left, e \in left : d < e
     /\ was # {} => left # {}

\* The document that FindOne returned stays until the deletion.
BatchInv ==
  /\ \A c \in Colls : Newest(c)
  /\ pc = "delete" => last \in docs[coll]
  /\ \A c \in cleaned : Cardinality(Expired(docs[c])) <= batch

\* Steps that touch no documents.
LEMMA SameDocs ==
  ASSUME BatchInv, UNCHANGED <<config, docs, cleaned>>,
         pc' # "delete" \/ UNCHANGED <<pc, coll, last>>
  PROVE  BatchInv'
BY DEF BatchInv, Newest, Expired, config

\* A deletion, and an insertion, leave a collection with the newest of the expired
\* documents it had, and with at least one.
LEMMA FewerDocs ==
  ASSUME IInv, IInv', BatchInv, UNCHANGED <<config, coll, last, cleaned>>, NEW c \in Colls,
         \A b \in Colls \ {c} : docs'[b] = docs[b],
         Expired(docs'[c]) \subseteq Expired(docs[c]),
         \A d \in Expired(docs[c]) \ Expired(docs'[c]), e \in Expired(docs'[c]) : d < e,
         Expired(docs[c]) # {} => Expired(docs'[c]) # {},
         pc' = "delete" => last \in docs'[coll]
  PROVE  BatchInv'
<1>1. /\ docs[c] \in SUBSET Ids /\ docs'[c] \in SUBSET Ids /\ initDocs[c] \in SUBSET Ids
      /\ batch \in Nat /\ initDocs' = initDocs /\ batch' = batch /\ cleaned' = cleaned
  BY BatchAssumption DEF IInv, TypeOK, config
<1>2. Newest(c)'
  <2>1. Newest(c)
    BY DEF BatchInv
  <2> QED
    BY <1>1, <2>1 DEF Newest, Expired
<1>3. ASSUME NEW b \in Colls \ {c} PROVE Newest(b)'
  BY <1>1 DEF BatchInv, Newest, Expired
<1>4. Cardinality(Expired(docs'[c])) <= Cardinality(Expired(docs[c]))
  <2>1. Expired(docs[c]) \in SUBSET Ids
    BY <1>1 DEF Expired
  <2> QED
    BY <2>1, FiniteIds, FS_Subset
<1>5. Cardinality(Expired(docs[c])) \in Nat /\ Cardinality(Expired(docs'[c])) \in Nat
  BY <1>1, FiniteIds DEF Expired
<1>6. ASSUME NEW b \in cleaned PROVE Cardinality(Expired(docs'[b])) <= batch
  <2>1. b \in Colls /\ Cardinality(Expired(docs[b])) <= batch
    BY CollsAssumption DEF BatchInv, IInv, TypeOK
  <2>2. CASE b = c
    BY <1>1, <1>4, <1>5, <2>1, <2>2
  <2>3. CASE b # c
    BY <2>1, <2>3
  <2> QED
    BY <2>2, <2>3
<1> QED
  BY <1>1, <1>2, <1>3, <1>6 DEF BatchInv, Expired

\* The loop over batches.
LEMMA CleanDbBatch == ASSUME IInv, IInv', BatchInv, CleanDb PROVE BatchInv'
<1>1. TypeOK
  BY DEF IInv
<1>2. CASE FindOne
  BY <1>2, SameDocs DEF FindOne, Goto, Found, Expired, BatchInv, Newest, config
<1>3. CASE NoDocuments
  <2>1. coll \in Colls /\ coll \in HttpLogs
    BY <1>1, <1>3, CollsAssumption DEF TypeOK, NoDocuments, Goto
  <2> DEFINE L == Expired(docs[coll])
  <2>2. L \in SUBSET Ids /\ batch \in Nat /\ docs[coll] \in SUBSET Ids
    BY <1>1, <2>1, BatchAssumption DEF TypeOK, Expired
  <2>3. \A d \in L : {e \in docs[coll] : e < d} = {e \in L : e < d}
    BY <2>2, IdsAssumption DEF Expired, Ids
  <2>4. ~(Cardinality(L) > batch)
    <3> SUFFICES ASSUME Cardinality(L) > batch PROVE FALSE
      OBVIOUS
    <3>1. PICK d \in L : Cardinality({e \in L : e < d}) = batch
      <4> HIDE DEF L
      <4> QED
        BY <2>2, SkipFinds
    <3>2. d \in Found
      BY <2>3, <3>1 DEF Found
    <3> QED
      BY <1>3, <3>2 DEF NoDocuments
  <2>5. Cardinality(L) <= batch
    <3>1. Cardinality(L) \in Nat
      BY <2>2, FiniteIds
    <3> QED
      BY <2>2, <2>4, <3>1
  <2>6. /\ docs' = docs /\ batch' = batch /\ initDocs' = initDocs /\ pc' = "next"
        /\ cleaned' = cleaned \cup {coll}
    BY <1>3 DEF NoDocuments, Goto, config
  <2> QED
    BY <2>5, <2>6 DEF BatchInv, Newest, Expired
<1>4. CASE DeleteMany
  <2>1. /\ coll \in Colls /\ pc = "delete" /\ pc' = "find" /\ last < Expire /\ last \in docs[coll]
    BY <1>1, <1>4, CollsAssumption DEF TypeOK, DeleteMany, Goto, IInv, DeleteBound, BatchInv
  <2>2. docs'[coll] = {d \in docs[coll] : d >= last}
    BY <1>1, <1>4, <2>1 DEF DeleteMany, TypeOK
  <2>3. \A b \in Colls \ {coll} : docs'[b] = docs[b]
    BY <1>1, <1>4 DEF DeleteMany, TypeOK
  <2>4. docs[coll] \in SUBSET Ids /\ last \in Nat
    BY <1>1, <2>1, IdsAssumption DEF TypeOK, Ids
  <2>5. Expired(docs'[coll]) \subseteq Expired(docs[coll]) /\ last \in Expired(docs'[coll])
    BY <2>1, <2>2, <2>4 DEF Expired
  <2>6. \A d \in Expired(docs[coll]) \ Expired(docs'[coll]), e \in Expired(docs'[coll]) : d < e
    BY <2>2, <2>4 DEF Expired, Ids
  <2>7. UNCHANGED <<config, coll, last, cleaned>>
    BY <1>4 DEF DeleteMany
  <2> QED
    BY <2>1, <2>3, <2>5, <2>6, <2>7, FewerDocs
<1>5. CASE \/ Connect \/ NoDatabase \/ ConnectFails \/ ListCollectionNames \/ ListFails
           \/ (\E c \in Colls : NextColl(c)) \/ CollsDone \/ FindFails \/ DeleteFails
  <2>1. UNCHANGED <<config, docs, cleaned>> /\ pc' # "delete"
    BY <1>5 DEF Connect, NoDatabase, ConnectFails, ListCollectionNames, ListFails, NextColl,
                CollsDone, FindFails, DeleteFails, Goto, dbVars
  <2> QED
    BY <2>1, SameDocs
<1> QED
  BY <1>2, <1>3, <1>4, <1>5 DEF CleanDb

\* Everything else: the log cleaners leave the documents alone, and what is inserted
\* is not expired.
LEMMA NextBatch == IInv /\ IInv' /\ BatchInv /\ [Next]_vars => BatchInv'
<1> SUFFICES ASSUME IInv, IInv', BatchInv, [Next]_vars PROVE BatchInv'
  OBVIOUS
<1>1. CASE CleanLogs
  <2>1. UNCHANGED <<config, docs, cleaned>> /\ pc' # "delete"
    BY <1>1 DEF CleanLogs, Walk, WalkFails, Visit, VisitGone, Remove, RemoveFails, WalkDone,
                CleanDone, Goto, dbVars
  <2> QED
    BY <2>1, SameDocs
<1>2. ASSUME NEW c \in Colls, NEW d \in Ids, Insert(c, d) PROVE BatchInv'
  <2>1. docs \in [Colls -> SUBSET Ids] /\ d >= Expire /\ pc' = pc
    BY <1>2 DEF Insert, IInv, TypeOK
  <2>2. UNCHANGED <<config, coll, last, cleaned>> /\ docs' = [docs EXCEPT ![c] = docs[c] \cup {d}]
    BY <1>2 DEF Insert
  <2>3. Expired(docs'[c]) = Expired(docs[c]) /\ \A b \in Colls \ {c} : docs'[b] = docs[b]
    BY <2>1, <2>2, IdsAssumption DEF Expired, Ids
  <2>4. pc' = "delete" => last \in docs'[coll]
    <3>1. pc = "delete" => coll \in Colls /\ last \in docs[coll]
      BY CollsAssumption DEF BatchInv, IInv, TypeOK
    <3> QED
      BY <2>1, <2>2, <3>1
  <2> QED
    BY <2>2, <2>3, <2>4, FewerDocs
<1>3. ASSUME NEW f \in Folders, NEW n \in Names, Write(f, n) \/ Rotate(f, n) PROVE BatchInv'
  BY <1>3, SameDocs DEF Write, Rotate, dbVars
<1>4. CASE UNCHANGED vars
  BY <1>4, SameDocs DEF vars, dbVars
<1> QED
  BY <1>1, <1>2, <1>3, <1>4, CleanDbBatch DEF Next, Services

\* A collection whose loop ended for want of documents keeps at most a batch of
\* expired documents, its newest, and is not emptied of them.
THEOREM BatchStays == Spec => []LastBatchStays
<1>1. Init => BatchInv
  BY DEF Init, BatchInv, Newest
<1>2. IInv /\ BatchInv => LastBatchStays
  BY CollsAssumption DEF IInv, TypeOK, BatchInv, Newest, LastBatchStays
<1> QED
  BY <1>1, <1>2, Invariance, NextBatch, PTL DEF Spec
=============================================================================
