CONSTANTS
  Senders = {s1}
  Getters = {}
  TimedGetters = {}
  Requesters = {r1, r2}
  Responders = {p1}
  NumMsgs = 1
  NumGets = 0
  NumRequests = 2
  Actors = {}
  Posters = {}
  Names = {}
  NumPosts = 0
  NONE = NONE
  s1 = s1  r1 = r1  r2 = r2  p1 = p1
SPECIFICATION Spec
INVARIANT RequestGetsOwnResponse
INVARIANT ResponseQueueLifetime
PROPERTY AllComplete
