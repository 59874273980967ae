\* Two texts and a web message, two iterations, one slot, one fault.
SPECIFICATION FairSpec
CONSTANTS
  Turns = {t1, t2, w1}
  Texts = {t1, t2}
  Slots = {s1}
  Plans <- MCPlans
  MaxIterations = 2
  MaxFaults = 1
INVARIANTS ThreadIsReadable AnswerNamesBooking
PROPERTY TurnsEnd
