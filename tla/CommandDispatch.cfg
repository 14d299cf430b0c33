SPECIFICATION Spec

CONSTANTS
    Programs = {"light_switch", "template"}

INVARIANTS
    TypeOK
    AdvertisedIsServed
    NoDeadCase
    AnsweredOnce
    CalledWithGoodData

\* One command is followed to its answer.
CHECK_DEADLOCK FALSE
