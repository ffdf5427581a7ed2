SPECIFICATION MCSpec
CONSTANTS
  batch = batch
  single = single
  plain = plain
  e1 = e1
  e2 = e2
  q1 = q1
  q2 = q2
  p1 = p1
  Request = {q1, q2, q3}
  Process = {p1, p2}
  Fingerprint = {batch, single}
  Envelope = {e1, e2}
  NoRecord = NoRecord
  EnvelopesOf <- MCEnvelopesOf
  MaxForget = 2
INVARIANTS
  OneHolder
  SameAnswer
  RecordsMatchPayload
  EnvelopeOnce
PROPERTIES
  EveryRequestAnswered
CHECK_DEADLOCK FALSE
