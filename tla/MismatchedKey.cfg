SPECIFICATION Spec
CONSTANTS
  batch = batch
  single = single
  plain = plain
  e1 = e1
  e2 = e2
  q1 = q1
  q2 = q2
  p1 = p1
  Request = {q1, q2}
  Process = {p1}
  Fingerprint = {single, plain}
  Envelope = {e1, e2}
  NoRecord = NoRecord
  EnvelopesOf <- MCEnvelopesOf
  MaxForget = 0
INVARIANTS
  MismatchIsRefused
CHECK_DEADLOCK FALSE
