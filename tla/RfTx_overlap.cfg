CONSTANTS
  temp = temp
  d1 = d1
  d2 = d2
  gw = gw
  on = on
  w1 = w1
  w2 = w2
  temp_did = temp
  g_DID = gw
  EndsInD2 = {gw}
  Cmd = {on}
  TXITEMMAX = 2
  Blank = Blank
  Did = {temp}
  Paired = {}
  Writer = {w1, w2}
  ALIVE_SENSOR_RETRY = 1
  DEAD_SENSOR_RETRY = 1
  Overlap = TRUE
  MaxOver = 1
  MaxOverrun = 1
SPECIFICATION CallFairSpec
PROPERTY ComesToRest
