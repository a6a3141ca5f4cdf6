SPECIFICATION FairSpec
CONSTANTS
    Goals = {"tidy", "sort"}
    MaxQuestions = 1
    MaxSteers = 2
    MaxCommands = 4
    MaxFailures = 1
INVARIANTS
    TypeOK
    LastCommandWins
    NoStartBehindSegment
    AnsweredOnce
    OneTurnAtATime
PROPERTIES
    OperatorTaskKept
    StopEndsServe
    QuestionsResolved
    AutosteerGoesOn
