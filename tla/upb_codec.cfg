\* Schemas of one message of two fields and of two messages; inputs of up to
\* two fields and two levels, in buffers cut at every byte; messages of up to
\* twelve bytes, any reallocation of which may fail.
SPECIFICATION CodecSpec
CONSTANTS
  Part = {"one", "two", "decoder", "encoder", "json", "pieces"}
  A = A
  B = B
  Other = Other
  NoValue = NoValue
  EncoderField <- EncoderFields
  EncoderValue <- EncoderValues
  StrPart <- Strings
  VarintBase = 8
  VarintRoom = 3
  InitialBuf = 4
  InitialSegs = 2
  StackSize = 3
  MaxWanted = 12
INVARIANTS CodesAssembled DecodersResumable DecodersNest EncodesMessage PrintsJson ReadsBack
CHECK_DEADLOCK FALSE
