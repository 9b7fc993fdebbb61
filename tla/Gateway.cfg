SPECIFICATION FairSpec
CONSTANT Request = {q1}
INVARIANTS NoRouteIsShadowed TablesAgree HandledOnce
PROPERTY EveryCallIsAnswered
