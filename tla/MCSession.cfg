SPECIFICATION FairSpec
CONSTANT MaxMessages = 3
PROPERTIES ImplementsStream CloseEndsReader
