SPECIFICATION FairSpec
CONSTANTS
    Callers = {"c1"}
    Handler = "handler"
    QueueCap = 1
    MaxRetries = 1
    ServerBudget = 1
    ConnBudget = 2
INVARIANTS TypeOK NoPanic OwnResponse NoRequestForgotten
  
CHECK_DEADLOCK FALSE
