CONSTANTS
  buyer = buyer
  seller = seller
  vault1 = vault1
  vault2 = vault2
  r1 = r1
  r2 = r2
  NoEscrow = NoEscrow
  NoConfig = NoConfig
  Rent = 2
  MaxTime = 2
  Amounts = {0, 1, 3}
  Accounts <- MCAccounts
  Signers <- MCSigners
  Refs <- MCRefs
  Vault <- MCVault
  InitialLamports <- MCLamports
SPECIFICATION Spec
INVARIANTS EscrowBacked VaultHoldsOnlyRent Conservation
PROPERTIES PaidOrDeadlineReached TermsFixed ImplementsSettlement
CHECK_DEADLOCK FALSE
