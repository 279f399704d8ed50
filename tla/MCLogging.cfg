SPECIFICATION Spec
CONSTANTS
  Writers = {t1, t2}
  PlaneSize = 2
  DlogQueue = 1
  MaxLogs = 5
  UploadListMax = 2
  MaxRetry = 2
  MaxChunks = 3
  MaxUnfilled = 1
  Senders = {t1, t2}
  ElogQueue = 1
  SaveMax = 1
  MaxElogs = 4
  Callers = {t1}
  SysAppModules = {m1}
  SensorModules = {}
  LogUsers = {t1, t2}
  LogModules = {m1}
  MaxThreads = 2
  MaxSem = 3
CHECK_DEADLOCK FALSE
INVARIANTS
  DlogIsSound
  
  ElogQueueIsSound
  SettingsAgree
  LevelIsTold
PROPERTIES
  DeinitCompletes
  EventsAreTaken
