SPECIFICATION Spec
PROPERTY RecoveryQueriesChain
CONSTANTS
  x1 = x1
  x2 = x2
  t1 = t1
  t2 = t2
  r1 = r1
  r2 = r2
  None = None
  Boot = boot
  Txs = {x1, x2}
  Threads = {t1, t2}
  Raws = {r1, r2}
  Request <- OneUnit
  Wallets = {"wallet"}
  Addresses = {"dest"}
  AllowedWallets = {"wallet"}
  AllowedRecipients = {"dest"}
  AllowedContracts = {}
  AllowedChains <- Chains
  MaxTxValue = 1
  MaxDailyValue = 1
  MaxGas = 1
  MaxCrashes = 1
