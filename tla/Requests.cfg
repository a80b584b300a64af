\* Two ids before admission is exhausted, three tokens shared with recovery,
\* two asynchronous kinds and one synchronous kind.
SPECIFICATION FairSpec
CONSTANTS
  MaxPublicId = 2
  MaxToken = 3
  Kinds = {"Command", "PropertyRead", "Configuration"}
INVARIANTS TypeOK RequestIsUnderway ExactlyOneTerminal RecoveryNeverSwallows
PROPERTIES NoNativeResultAfterShutdown ImplementsContract
CHECK_DEADLOCK FALSE   \* nothing runs after shutdown
