CONSTANTS
  SYS_LOGIN_MAX_TIMEOUT = 3
  SYS_HEARTDATA_MAX_TIMEOUT = 2
  MaxDrops = 2
  LPWR_ACC_CLOSE_TIME = 2
SPECIFICATION PowerFairSpec
INVARIANTS PowerTypeOK NeverLeftOff StoredWhileOff
PROPERTIES LinkOrReset ModemComesBack StaysAwake
