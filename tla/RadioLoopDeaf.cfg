SPECIFICATION FairSpec
CONSTANTS
  QueueSize = 2
  RxPkts = {r1}
  TxPkts = {t1}
  Advert = Advert
  None = None
  Commands = {}
  AgcEnabled = FALSE
  DeepSleep = FALSE
  MaxRadioErrors = 1
  MaxTotalErrors = 2
  MaxFaults = 1
CHECK_DEADLOCK FALSE
PROPERTY HearsAgain
