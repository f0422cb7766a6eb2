CONSTANTS
    Table <- MCTable
    Database <- MCDatabase
    MaxBody = 2
    Requests <- MCRequests
    Outcomes = {"None", "Unknown"}
    Initially <- MCInitially
    Lengths = {1}
    Spaces = {"Header", "Body"}
SPECIFICATION FairSpec
INVARIANTS GoodCentralsAreServed TransactionsAreSound
PROPERTIES SubscribersAreServed WrittenAsSent EverythingEnds
CHECK_DEADLOCK FALSE
