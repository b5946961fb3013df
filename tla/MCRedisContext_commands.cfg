SPECIFICATION FairSpec
CONSTANTS
  s1 = s1
  q1 = q1
  n1 = n1
  f1 = f1
  NoCall = NoCall
  NoReply = NoReply
  Calls = {s1, q1, n1}
  Flights = {f1}
  Kind <- KindMixed
  FlightOf <- FlightSame
INVARIANTS
  TypeOK
  AnswerIsStatus
  RepliesBalance
PROPERTIES
  AnsweredAlone
  HangExplained
