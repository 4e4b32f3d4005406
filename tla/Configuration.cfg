SPECIFICATION Spec
CONSTANTS
  Texts <- MCTexts
  Symbols <- MCSymbols
  Names <- MCNames
  Sources <- MCSources
  UrlParts <- MCUrlParts
  Catalogs <- MCCatalogs
  Limits <- MCLimits
INVARIANTS
  GivenIsReadBack
  SessionHasItsTimeout
PROPERTY
  ConnectStartsAfresh
