SPECIFICATION Spec
CONSTANTS
  Threads = {t1, t2}
  Channels = {c1, c2}
PROPERTIES
  StopsForNobody
