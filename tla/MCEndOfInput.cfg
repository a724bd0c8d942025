CONSTANTS
  Client = {"c1"}
  TestClient = {}
  Killable = {"c1"}
  Backlog = 2
  Text = {"password", "hello"}
  Password = "password"
  Size = 2
  BUFFER_SIZE = 3
  Closing = {"c1"}
  MaxRestarts = 0
  MaxTurns <- MCMaxTurns
SPECIFICATION Spec
INVARIANT LoggedInNormalText
