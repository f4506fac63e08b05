SPECIFICATION FairSpec
CONSTANTS
  QueueSize = 2
  RxPkts = {r1, r2}
  TxPkts = {t1, t2}
  Advert = Advert
  None = None
  Commands = {}
  AgcEnabled = TRUE
  DeepSleep = FALSE
  MaxRadioErrors = 1
  MaxTotalErrors = 2
  MaxFaults = 1
CHECK_DEADLOCK FALSE
PROPERTY QueueDrains HearsAgain
