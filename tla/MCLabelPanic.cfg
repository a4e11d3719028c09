SPECIFICATION Spec
CONSTANTS
  Special <- MCSpecial
  Kde <- MCKde
  Image <- MCImage
  UriList <- MCUriList
  PlainUtf8 <- MCPlainUtf8
  Plain <- MCPlain
  Html <- MCHtml
  Other <- MCOther
  Offers <- MCOffers
  Paths <- MCPaths
  Picture <- MCPicture
  Cut = 4
  MaxEntries = 2
PROPERTIES EveryCopyStored
