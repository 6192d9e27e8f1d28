SPECIFICATION Spec
CONSTANTS
  Account = {0, 1, 2, 3, 4, 5, 6, 7, 8}
  TreasuryAccount = 0
  ExistentialDeposit = 2
  MaxBalance = 1000
  Call <- MCCall
  LaunchPeriod = 2
  VotingPeriod = 2
  EmergencyVotingPeriod = 1
  EnactmentPeriod = 2
  CooloffPeriod = 2
  MinimumDeposit = 2
  PreimageDeposit = 2
  DEMOCRACY_ID = "democrac"
  SpendPeriod = 2
  TipCountdown = 1
  TipReportDeposit = 2
  ProposalBondMinimum = 2
  ProposalBondPercent = 5
  BurnPercent = 50
  FindersFeePercent = 20
  MotionDuration = 2
  DEN = 1000
  ACCURACY = 100
  CandidacyBond = 3
  VotingBond = 2
  DesiredMembers = 2
  DesiredRunnersUp = 1
  TermDuration = 3
  ELECTIONS_ID = "phrelect"
  IndexDeposit = 2
  MinVestedTransfer = 2
  VESTING_ID = "vesting "
  ConfigDepositBase = 1
  FriendDepositFactor = 1
  RecoveryDeposit = 2
  MaxFriends = 2
  MultisigDepositBase = 1
  MultisigDepositFactor = 1
  MaxSignatories = 3
  Transfers <- MCTransfers
  MultiAccount <- MCMultiAccount
  SubAccount <- MCSubAccount
  BasicDeposit = 2
  FieldDeposit = 1
  SubAccountDeposit = 1
  MaxSubAccounts = 2
  MaxAdditionalFields = 1
  SocietyAccount = 5
  PayoutsAccount = 6
  CandidateDeposit = 2
  WrongSideDeduction = 1
  MaxStrikes = 2
  PeriodSpend = 4
  RotationPeriod = 2
  ChallengePeriod = 3
  MaxLockDuration = 100
  MaxBidCount = 2
  DisabledValidatorsThreshold = 34
  SessionsPerEra = 2
  BondingDuration = 2
  SlashDeferDuration = 1
  MAX_UNLOCKING_CHUNKS = 2
  MAX_NOMINATIONS = 2
  MaxNominatorRewarded = 1
  SlashRewardFraction = 50
  Curve <- MCCurve
  Year = 4
  STAKING_ID = "staking "
  WindowSize = 3
  ReportLatency = 1
  INCLUDE_THRESHOLD = 2
  UnresponsivePart = 7
  Setup <- MCSociety
INVARIANT SuspendedAreOut
CHECK_DEADLOCK FALSE
