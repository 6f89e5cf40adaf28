CONSTANTS
  Base = 8
  Nums <- MCNums
  Strings <- MCStrings
  MaxPacketSize = 3
  SeqNums = 4
  Payloads <- MCPayloads
  Texts <- MCTexts
  Buffers <- MCBuffers
  MaxCap = 7
  Times <- MCTimes
  DateTimes <- MCDateTimes
SPECIFICATION Spec
INVARIANTS LenEncReadsBack PayloadsReadBack LiteralsReadBack TimesDenoted
