SPECIFICATION ActorSpec
CONSTANTS
  q1 = q1
  m1 = m1
  m2 = m2
  m3 = m3
  Blocks = {q1}
  First = q1
  Successors <- MCSuccessors
  Accepts <- MCAccepts
  Items = {m1, m2, m3}
  MayFail <- MCMayFail
  FollowUp <- MCFollowUp
  MayThrow = {m2}
CHECK_DEADLOCK FALSE
INVARIANT AnswersFollowOrder
PROPERTIES AskedIsAnswered DestructorReturns
