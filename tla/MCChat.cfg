CONSTANTS
  Client = {"c1", "c2"}
  TestClient = {"c2"}
  Killable = {"c1", "c2"}
  Backlog = 1
  Text = {"password", "hello"}
  Password = "password"
  Size = 2
  BUFFER_SIZE = 3
  Closing = {"c1"}
  MaxRestarts = 1
  MaxTurns <- MCMaxTurns
SPECIFICATION Spec
INVARIANTS TypeOK OneOwnerPerConnection LoggedAsTyped AcksPaired NoMutualWait
PROPERTIES SessionsEnd ImplementsConversation
