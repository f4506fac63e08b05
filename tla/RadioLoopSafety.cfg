SPECIFICATION Spec
CONSTANTS
  QueueSize = 1
  RxPkts = {r1, r2}
  TxPkts = {t1, t2}
  Advert = Advert
  None = None
  Commands = {"send", "alert", "reboot", "tempRadio", "sync"}
  AgcEnabled = TRUE
  DeepSleep = TRUE
  MaxRadioErrors = 1
  MaxTotalErrors = 2
  MaxFaults = 2
SYMMETRY PacketSymmetry
CHECK_DEADLOCK FALSE
INVARIANT TypeOK InOnePlace ReadsAnUnreadPacket ListensOrHasPacket
PROPERTY RequeueNeverEvicts DiscardsOnlyUnseen KeepsPromise
