CONSTANTS
  u1 = u1
  u2 = u2
  c1 = c1
  c2 = c2
  chan1 = chan1
  chan2 = chan2
  U2f = {u1, u2}
  Ctap = {c1, c2}
  Channels = {chan1, chan2}
  Cid <- MCCid
  None = None
  MaxLoops = 2
SPECIFICATION Spec
INVARIANTS SignedIsConsented AnsweredOnce
 
