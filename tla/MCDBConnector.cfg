SPECIFICATION FairSpec
CONSTANTS
  s1 = s1
  s2 = s2
  c1 = c1
  c2 = c2
  Sender <- MCSenders
  NoSender = NoSender
  Serial <- MCSerial
  NoSerial = NoSerial
  Call <- MCCalls
  Op = {page}
  NoOp = NoOp
  Reply = {reply}
  NoReply = NoReply
INVARIANTS
  TypeOK
  RefCountsPending
  OneExclusivePending
PROPERTIES
  AnswersAreReported
  ImplementsTable
  CalledBack
