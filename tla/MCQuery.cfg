SPECIFICATION QuerySpec
CONSTANTS
    Storages = {"etcd", "postgres"}
    Kites <- MCKites
    Queries <- MCQueries
    Satisfying <- MCSatisfying
    Malformed <- MCMalformed
    StringPrefixes <- MCPrefixes
    RegisterValue = "value"
    Absent = Absent
INVARIANT AnswerExact
INVARIANT TokenFits
