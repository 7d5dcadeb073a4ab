\* widths scaled down: types 5, 8, 16, 32 hold lengths below 3, 5, 8, 11
CONSTANTS
  Limit <- MCLimit
  SDS_MAX_PREALLOC = 5
  SDS_LLSTR_SIZE = 4
  StaticBuf = 2
  SizeMod = 64
  Text <- MCText
  Number <- MCNumber
  Format <- MCFormat
  MaxLen = 4
SPECIFICATION Spec
INVARIANTS SdsTypeOK HeaderSound RoomMade ContentKept RangeKeepsBetween QuotingRoundTrip SplitSound NumbersPrinted IncrLenGuarded GrowthNeverWraps PrintfWhole
