CONSTANTS
  Senders = {s1, s2}
  Getters = {g1, g2}
  TimedGetters = {g1}
  Requesters = {}
  Responders = {}
  NumMsgs = 1
  NumGets = 1
  NumRequests = 0
  Actors = {a1}
  Posters = {q1}
  Names = {a1, nobody}
  NumPosts = 1
  NONE = NONE
  s1 = s1  s2 = s2  g1 = g1  g2 = g2  a1 = a1  q1 = q1  nobody = nobody
SPECIFICATION Spec
INVARIANT TypeOK
INVARIANT QueueIsFifo
INVARIANT ActorStopsDrained
PROPERTY AllComplete
