CONSTANTS
  Ops = {"SERVO", "FORWARD", "BACK", "STOP", "INIT_SERVO_LEFT", "QUIRYREADER"}
  CmdVals = {0, 1, 2, 3, 9, t1, t2}
  Tags = {t1, t2}
  RIGHT_SERVO = 1
  LEFT_SERVO = 3
  ANGLE_STEP = 1
  MAX_SPEED = 9
  RESEND_CNT = 2
  COUNT_MOD = 5
  OLD_COUNT = 3
  MAX_SEQ = 2
  MAX_WAIT = 1
SPECIFICATION Spec
INVARIANTS FrameNamesItsTag

