SPECIFICATION Spec
CONSTANTS
  Kinds = {"content", "cloudflare", "block", "wall", "anubis", "custom", "hold"}
  Responses = {1, 2}
  MaxTotal = 1
INVARIANTS NoBlockStored CleanUnlessCut WarcCapHolds
PROPERTY CaptureEnds
