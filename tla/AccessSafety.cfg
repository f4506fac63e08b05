SPECIFICATION Spec
CONSTANTS
  Clients = {"a", "b", "c"}
  Packets <- MCPackets
  Passwords = {"p1", "p2"}
  OwnerPasswords = {None}
  AdminPassword = "p1"
  GuestPassword = "p2"
  None = None
  KeyByte <- MCKeyByte
  Sessions = 2
  LimitOf <- MCLimitOf
  Window = 2
  Timeout = 1
  Period = 1
  Wrap = 100
  MaxTime = 4
INVARIANT TypeOK OneSession OnceInOrder LimitsHold
PROPERTY CommandsNeedAdminLogin SessionsLast
