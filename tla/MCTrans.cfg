SPECIFICATION Spec
CONSTANTS
  t1 = t1  t2 = t2  t3 = t3  k1 = k1  k2 = k2  s1 = s1  s2 = s2  s3 = s3
  Trans = {t1, t2}
  Cube = {s1, s2}
  Self = s3
  Kind <- KindMixed
  ToSvr <- ToFirst
  NeedResp = {t2}
  SendKey <- OneKey
  Size <- Sizes
  eMaxCacheSize = 2
  MaxDeaths = 1
  MaxResends = 1
INVARIANTS TypeOK CacheIsWhatWaits WaiterIsKnown ReturnsWithResp LeavesWhenAllHeard
 
\* All transactions may be finished.
CHECK_DEADLOCK FALSE
