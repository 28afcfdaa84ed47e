SPECIFICATION RoomsSpec
CONSTANTS
  t1 = t1  s1 = s1  s2 = s2  r1 = r1  r2 = r2  m1 = m1  m2 = m2  m3 = m3  w1 = w1
  None = None
  Topics = {t1}
  Sessions = {s1, s2}
  RoomIds = {r1, r2}
  MemberIds = {m1, m2, m3}
  Watches = {w1}
  SubscriberBuffer = 1
  Mailbox = 1
CHECK_DEADLOCK FALSE
INVARIANTS MailboxClosedOnce LiveRoomIsRegistered
PROPERTY EndedRoomRetires
