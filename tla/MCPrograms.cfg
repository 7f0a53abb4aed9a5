SPECIFICATION Spec
CONSTANTS
  PAYLOAD = 8
  BUFFER = 3
  Texts <- MCTexts
  Noise <- MCNoise
  MadeUp = {0, 3}
  Messages <- MCMessages
  BITS = 2
  WIDTH = 3
  POLY = {1, 2}
  MaxOnLink = 2
  MaxChunks = 6
  window_size = 3
  Modes = {"window", "start_stop"}
  Lossy = {TRUE, FALSE}
  Seqs = {0, 1, 2, 3}
  Infos = {"a", "b"}
  MaxCalls = 4
  Fds = {3, 4}
  MaxLogins = 3
  Answers <- MCAnswers
  BUFLEN = 3
INVARIANTS
  FramesRecovered
  WrittenIsSent
  WindowBound
  ClosedIsWhole
  ListIsWindow
  OneConnection
  TokenOfLogin
  SaysWhatHappened
  ReceivesWhole
PROPERTIES
  NackIsHeard
  FileArrives
  CommandEnds
  Returns
\* The programs end, or wait for ever, for a lost datagram among other things.
CHECK_DEADLOCK FALSE
