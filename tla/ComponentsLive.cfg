CONSTANTS
  Focus = {"InboxQueue", "ScreenshotOcr", "BusDelivery"}
  InboxWorkers = {b1}
  a1 = a1
  a2 = a2
  b1 = b1
  b2 = b2
  c1 = c1
  g1 = g1
  m1 = m1
  m2 = m2
SPECIFICATION FairSpec
PROPERTY MailFiled
PROPERTY ScreenshotsRead
PROPERTY EverythingCommitted
CHECK_DEADLOCK FALSE
