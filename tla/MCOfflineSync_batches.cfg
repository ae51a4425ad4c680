\* Two overlapping tries of each outbox; lost answers, lost workers, faults.
SPECIFICATION FairSpec
CONSTANTS
  new = new
  ack = ack
  resolved = resolved
  Try = {t1, t2}
  Status = {new, ack, resolved}
  New = new
  Outbox <- MCOutbox
INVARIANTS TypeOK AckedIsDone StoredOncePerTry MalformedChangesNothing LastEditWins
PROPERTIES FiledOnce EveryBatchEnds
