SPECIFICATION Spec
CONSTANTS
  p1 = p1
  p2 = p2
  p3 = p3
  p4 = p4
  a = a
  b = b
  Pres = {p1, p2, p3, p4}
  MemberOf <- Members
  BootOf <- Boots
  Entry = {once, cron}
  Cron = {cron}
  None = None
  MaxBoot = 2
INVARIANT CronStaysArmed
CHECK_DEADLOCK FALSE
