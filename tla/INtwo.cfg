SPECIFICATION Spec
CONSTANTS
  q1 = q1 q2 = q2
  t1 = t1 t2 = t2 t3 = t3
  Contacts = {bob, amy}
  Irc = {}
  Ignored = {}
  Questions = {q1, q2}
  Texts = {t1, t2, t3}
  Answers <- MCAnswers
  Timeout = 2
  None = None
INVARIANTS TestIsOwn
