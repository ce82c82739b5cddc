CONSTANTS
  Buyer = buyer
  Verifier = verifier
  cheap = cheap
  premium = premium
  Sellers = {cheap, premium}
  sellerWallet = sellerWallet
  BuyerWallet = buyerWallet
  Vaults = vaults
  Wallet <- MCWallet
  Floor <- MCFloor
  Settles <- MCSettles
  Proposals = {3000}
  Budget = 10000
  HasArbiterKey = TRUE
  HasVerifier = TRUE
  ExpectedPayout = sellerWallet
  MaxRound = 2
  MaxSession = 2
  Funds = 60000000
  MaxBatch = 2
  MaxRepeats = 1
  None = None
  Unset = Unset
SPECIFICATION Spec
INVARIANTS DeliveredOncePerDeposit
PROPERTIES LockedAsAwarded PaidOnlyVerified RoundsGoOn
CHECK_DEADLOCK FALSE
