\* All forms of 5 characters, lists of 4 headers or cookies, numbers to 600.
SPECIFICATION Spec
CONSTANTS
    Characters <- FormCharacters
    MaxFields = 3
    Headers <- SomeHeaders
    Lower <- TwoNames
    Cookies <- SomeCookies
    Reads = {1, 2, 4}
    MaxText = 5
    MaxItems = 4
    MaxNumber = 600
INVARIANTS
    RequestRight
    CookiesRight
    LookupsRight
    SizesGenerated
CHECK_DEADLOCK FALSE
