\* Any method over UDP or TCP, or a REGISTER over TCP that may blame its
\* channel; two addresses, punctual clocks.
SPECIFICATION FairSpec
CONSTANTS
    Settings <- MCSettings
    Punctual = TRUE
    MaxAlternates = 1
    MaxNotices = 2
    MaxOffers = 2
    Provisional <- OneProvisional
    Final <- TwoFinals
INVARIANTS TypeOK OneReport OfferedOnce
PROPERTIES ImplementsExchange TransactionsEnd
\* The system stops when the transactions are over.
CHECK_DEADLOCK FALSE
