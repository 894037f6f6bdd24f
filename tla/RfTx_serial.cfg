CONSTANTS
  temp = temp
  d1 = d1
  d2 = d2
  gw = gw
  on = on
  w1 = w1
  w2 = w2
  temp_did = temp
  g_DID = gw
  EndsInD2 = {d2}
  Cmd = {on}
  TXITEMMAX = 2
  Blank = Blank
  Did = {temp, d1, d2}
  Paired = {d1}
  Writer = {w1}
  ALIVE_SENSOR_RETRY = 2
  DEAD_SENSOR_RETRY = 1
  Overlap = FALSE
  MaxOver = 0
  MaxOverrun = 1
SPECIFICATION FairSpec
INVARIANT TypeOK
INVARIANT QueueShape
PROPERTY OnlyPairingStrandsCommands
PROPERTY ImplementsChannel
PROPERTY QueueDrains
