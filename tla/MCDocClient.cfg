SPECIFICATION Spec
CONSTANTS
  Addrs = {"ns1"}
  Bytes = {1, 2}
  MsgLen = 3
  MaxPiece = 2
  Tags = {"t1", "t2"}
  Chars = {"p"}
  PskLen = 2
  Sessions = {{"server", "resp"}, {"userctx"}, {"creds"}}
INVARIANTS
  SwitchReported
  LedFollowsSwitch
  ServerUsable
  MockIsWhatWasSaid
  CredentialUntilNext
  UsageSuffices
