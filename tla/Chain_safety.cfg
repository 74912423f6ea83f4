SPECIFICATION ChainSpec
CONSTANTS
  Calls = {1, 2}
  Wallets <- MCWallets
  NoWallet = NoWallet
  Amount <- MCAmount
  WrapsNative = {1}
  GrantedBefore <- MCGranted
  VenuePairings <- MCPairings
  Strategies = {"round_robin", "balance_based"}
  MaxPosition = 5
  MaxDailyVolume = 6
  Keys = {k1}
  Routes <- MCRoutes
  Native = {k1}
  ChainDefault = 2
  EnvOverride = 1
  Submitters = {s1}
  Pollers = {p1, p2}
  MaxDeposits = 2
INVARIANTS NoncesAreOwn AllowanceInPlace
PROPERTY TransfersConclude
CHECK_DEADLOCK FALSE
