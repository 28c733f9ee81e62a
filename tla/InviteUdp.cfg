\* UDP, punctual clocks: one INVITE, its copies and its answers.
SPECIFICATION FairSpec
CONSTANTS
    Reliable = FALSE
    Punctual = TRUE
    MaxOffers = 2
    Provisional <- OneProvisional
    Success <- TwoSuccesses
    Failure <- TwoFailures
INVARIANTS TypeOK EveryWaitIsTimed AckMeansRefused NoMixedVerdict OfferedOnce
PROPERTIES ImplementsExchange LossIsSurvived
\* The system stops when the transactions are over.
CHECK_DEADLOCK FALSE
