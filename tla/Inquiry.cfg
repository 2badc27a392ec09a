SPECIFICATION InquirySpec
CONSTANTS
  InquiryIds = {"a", "b"}
  Terms = {"t"}
  Prices = {99, 101}
  NoInquiry = NoInquiry
  MaxLines = 4
  MaxDeaths = 2
INVARIANTS
  InquiryTypeOK
  FileTellsEachInquiry
  StoredIsLatest
  QuotesAreAnswered
PROPERTIES
  InquiryCompletes
  InquiryImplementsWiring
