CONSTANTS
  ConnectionsInThreads    = TRUE
  IsLoggingToFile         = TRUE
  TestsToInvoke           <- LoopTests
  MaxStatements           = 0
  Main                    = "main"
  NoThread                = "none"
  Configurations          <- ShippedConfigurations
  CountableConnections    <- ShippedCountableConnections
  RemovableConnections    <- ShippedRemovableConnections
  ConnectionsMap          <- ShippedConnectionsMap
  ConnectionsMapReverse   <- ShippedConnectionsMapReverse
  Mysql                   = "mysql"
  Mysql_Alt               = "mysql_alt"
  Mysql_MainThread        = "mysql_mainthread"
  Mysql_Laravel8          = "mysql_laravel8"
  Sqlite                  = "sqlite"
  Sqlite_Memory           = "sqlite_memory"
  Sqlite_CheckExistsTrue  = "sqlite_check_exists_true"
  Sqlite_CheckExistsFalse = "sqlite_check_exists_false"
SPECIFICATION FairSpec
PROPERTY Termination
CHECK_DEADLOCK FALSE
