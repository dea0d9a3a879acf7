\* Answers, reports and pieces of frames, and profiles of up to two rows.
CONSTANTS
  MaxFrames = 4
  Profiles <- MCProfiles
  Addresses <- MCAddresses
  Lengths <- MCLengths
  None = None
SPECIFICATION Spec
INVARIANTS TypeOK RowsAsMeasured StatusWithoutRows CodesDistinct RepliesReachSender SizesTold
PROPERTIES AnswerProtects AnswersReachHandler
