SPECIFICATION TextSpec
CONSTANTS
  Labels = {w1, w2}
  Texts = {t1, t2, t3}
  Functions = {time, song}
  TimerFunctions = {time}
  NoText = NoText
  Free = Free
INVARIANT UsersExist
CHECK_DEADLOCK FALSE
