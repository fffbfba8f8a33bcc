\* Three runners on one run, with up to two steps each.
SPECIFICATION Spec
CONSTANTS
  a = a
  b = b
  c = c
  Earlier = Earlier
  MaxNew = 2
  Runners <- MCRunners
  Histories <- MCHistories
SYMMETRY MCSymmetry
INVARIANTS
  SharedLogIsGapless
  WinnersAreWhole
  RejectedOnlyByRival
  AnswerIsLast
  AnswerIsTold
