SPECIFICATION InquirySpec
CONSTANTS
  InquiryIds = {"a"}
  Terms = {"t"}
  Prices = {99, 101}
  NoInquiry = NoInquiry
  MaxLines = 2
  MaxDeaths = 0
INVARIANTS
  QuoteReachesConnector
