SPECIFICATION FairSpec
CONSTANTS
  logs = logs
  users = users
  dir = dir
  a = a
  b = b
  Nil = Nil
  Colls = {logs, users}
  HttpLogs = {logs}
  MaxId = 5
  Expire = 4
  Dbs <- MCDbs
  Batches = {0, 1, 2}
  Folders = {dir}
  Names = {a, b}
  MaxFaults = 1
INVARIANTS
  TypeOK
  LastBatchStays
  WalkedFoldersClean
PROPERTIES
  FreshDataStays
  
CHECK_DEADLOCK FALSE
