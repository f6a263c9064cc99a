SPECIFICATION Spec
CONSTANTS
  SeqSpace = 16
  Isn <- NearWrap
  TCP_MSS = 1
  TCP_MAX_RETX = 1
  Total <- OnlyClient
  Circumstances <- Adverse
INVARIANTS StreamsInOrder SentMeansReceived 
PROPERTIES HandshakeAgrees SendSucceeds
CHECK_DEADLOCK FALSE
