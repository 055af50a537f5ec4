SPECIFICATION Spec
CONSTANTS
  FsWords <- MCFsWords
  StoreOpts <- MCStoreOpts
  EntryWords <- MCEntryWords
  RootFlags <- MCRootFlags
  MaxWords = 3
  MaxMounts = 2
INVARIANTS FlagsAsAsked
PROPERTIES StoreProtected
CHECK_DEADLOCK FALSE
