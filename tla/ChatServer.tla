----------------------------- MODULE ChatServer -----------------------------
(***************************************************************************)
(* server.c: the accept loop of main, and one detached thread per client   *)
(* that runs client_handler.  A thread is named after the connection that  *)
(* main accepted before it created the thread; which socket it really      *)
(* serves is what it reads from the memory it was given.                   *)
(***************************************************************************)
EXTENDS Wire, ChatFrames

CONSTANT MaxRestarts    \* bounds how often the server is started again

VARIABLES
  restarts,             \* how often it was
  mpc,                  \* main: "accept", "spawn", or "gone" with the process
  client_socket,        \* the connection that main accepted last
  worker_sock,          \* the memory allocated for each thread's argument
  hpc,                  \* where each thread is
  sock,                 \* the socket it serves, its local client_socket
  header, buffer, bytes_read, is_authenticated,
  log                   \* the messages printed for each connection

serverVars == <<restarts, mpc, client_socket, worker_sock, hpc, sock, header, buffer, bytes_read,
                is_authenticated, log>>

NoSocket == "no socket"

ServerInit ==
  /\ restarts = 0 /\ mpc = "accept" /\ client_socket = NoSocket
  /\ worker_sock = [t \in Client |-> NoSocket]
  /\ hpc = [t \in Client |-> "none"]
  /\ sock = [t \in Client |-> NoSocket]
  /\ header = [t \in Client |-> Header("EXIT", 0)]
  /\ buffer = [t \in Client |-> Plain("")]
  /\ bytes_read = [t \in Client |-> 0]
  /\ is_authenticated = [t \in Client |-> FALSE]
  /\ log = [c \in Client |-> <<>>]

\* A failing accept() is retried, which changes nothing.
Accept ==
  /\ mpc = "accept" /\ backlog # <<>>
  /\ client_socket' = Head(backlog) /\ backlog' = Tail(backlog)
  /\ mpc' = "spawn"
  /\ UNCHANGED <<listening, near, far, up, down, restarts, worker_sock, hpc, sock, header, buffer,
                 bytes_read, is_authenticated, log>>

\* Mutated form of Spawn: the socket is left open when there is no thread for it.
SpawnLeaks ==
  /\ mpc = "spawn" /\ mpc' = "accept"
  /\ \/ /\ worker_sock' = [worker_sock EXCEPT ![client_socket] = client_socket]
        /\ hpc' = [hpc EXCEPT ![client_socket] = "new"]
     \/ UNCHANGED <<worker_sock, hpc>>
  /\ UNCHANGED <<wire, restarts, client_socket, sock, header, buffer, bytes_read, is_authenticated, log>>

\* malloc() and pthread_create(); if the thread cannot be created, close.
Spawn ==
  /\ mpc = "spawn" /\ mpc' = "accept"
  /\ \/ /\ worker_sock' = [worker_sock EXCEPT ![client_socket] = client_socket]
        /\ hpc' = [hpc EXCEPT ![client_socket] = "new"]
        /\ UNCHANGED <<far, up>>
     \/ Drop(client_socket) /\ UNCHANGED <<worker_sock, hpc>>
  /\ UNCHANGED <<listening, backlog, near, down, restarts, client_socket, sock, header, buffer,
                 bytes_read, is_authenticated, log>>

HGoto(t, label) == hpc' = [hpc EXCEPT ![t] = label]

\* The loop is left: the socket is closed and the thread returns.
Return(t) == HGoto(t, "returned") /\ Drop(sock[t])

\* Mutated form of Start: the thread is given the address of main's variable.
StartShared(t) ==
  /\ hpc[t] = "new"
  /\ sock' = [sock EXCEPT ![t] = client_socket]
  /\ HGoto(t, "header")
  /\ UNCHANGED <<wire, restarts, mpc, client_socket, worker_sock, header, buffer, bytes_read,
                 is_authenticated, log>>

Start(t) ==
  /\ hpc[t] = "new"
  /\ sock' = [sock EXCEPT ![t] = worker_sock[t]]
  /\ HGoto(t, "header")
  /\ UNCHANGED <<wire, restarts, mpc, client_socket, worker_sock, header, buffer, bytes_read,
                 is_authenticated, log>>

\* A read() that returns -1 once the client has closed, or 0 at the end.
ReadFails(t) == near[sock[t]] = "closed"
AtEnd(t) == ReadFails(t) /\ up[sock[t]] = <<>>

\* Mutated form of Oversized: one byte more than the terminator leaves room for.
OversizedLate(h) == h.payload_length < 0 \/ h.payload_length > BUFFER_SIZE

Oversized(h) == h.payload_length < 0 \/ h.payload_length >= BUFFER_SIZE

ReadHeader(t) ==
  /\ hpc[t] = "header"
  /\ \/ /\ up[sock[t]] # <<>> /\ Head(up[sock[t]]).kind = "header"
        /\ LET h == Head(up[sock[t]]) IN
             /\ header' = [header EXCEPT ![t] = h]
             /\ IF h.command = "EXIT" \/ Oversized(h)
                  THEN Return(t)
                  ELSE /\ HGoto(t, "payload") /\ UNCHANGED far
                       /\ up' = [up EXCEPT ![sock[t]] = Tail(@)]
     \/ ReadFails(t) /\ Return(t) /\ UNCHANGED header
  /\ UNCHANGED <<listening, backlog, near, down, restarts, mpc, client_socket, worker_sock, sock, buffer,
                 bytes_read, is_authenticated, log>>

\* Only a negative result is an error here: 0, the end of the stream, is not.
ReadPayload(t) ==
  LET s == sock[t] IN
  /\ hpc[t] = "payload"
  /\ \/ /\ up[s] # <<>> /\ Head(up[s]).kind = "payload"
        /\ bytes_read' = [bytes_read EXCEPT ![t] = header[t].payload_length]
        /\ buffer' = [buffer EXCEPT ![t] = Head(up[s]).of]
        /\ up' = [up EXCEPT ![s] = Tail(@)]
        /\ HGoto(t, "process") /\ UNCHANGED far
     \/ /\ AtEnd(t)
        /\ bytes_read' = [bytes_read EXCEPT ![t] = 0]
        /\ buffer' = [buffer EXCEPT ![t] = Plain("")]
        /\ HGoto(t, "process") /\ UNCHANGED <<far, up>>
     \/ ReadFails(t) /\ Return(t) /\ UNCHANGED <<buffer, bytes_read>>
  /\ UNCHANGED <<listening, backlog, near, down, restarts, mpc, client_socket, worker_sock, sock, header,
                 is_authenticated, log>>

\* custom_crypt over the bytes read, of which there may be none.
Decrypted(t) == IF bytes_read[t] = 0 THEN buffer[t] ELSE custom_crypt(buffer[t])

\* Mutated form of Admitted: the password is not compared.
AdmittedAny(t) == header[t].command = "AUTH"

Admitted(t) == header[t].command = "AUTH" /\ Decrypted(t) = Plain(Password)

Authenticate(t) ==
  /\ hpc[t] = "process" /\ ~is_authenticated[t]
  /\ IF Admitted(t)
       THEN /\ is_authenticated' = [is_authenticated EXCEPT ![t] = TRUE]
            /\ down' = Answered(sock[t], "AUTH_SUCCESS")
            /\ HGoto(t, "header") /\ UNCHANGED <<far, up>>
       ELSE /\ down' = Answered(sock[t], "AUTH_FAILED")
            /\ Return(t) /\ UNCHANGED is_authenticated
  /\ UNCHANGED <<listening, backlog, near, restarts, mpc, client_socket, worker_sock, sock, header, buffer,
                 bytes_read, log>>

\* Mutated form of LogEntry: the message is printed as it came.
LogEntrySealed(t) == buffer[t]

LogEntry(t) == Decrypted(t)

\* Mutated form of Receive: the message is printed and not confirmed.
ReceiveSilent(t) ==
  /\ hpc[t] = "process" /\ is_authenticated[t]
  /\ log' = IF header[t].command = "MSG" THEN [log EXCEPT ![sock[t]] = Append(@, LogEntry(t))] ELSE log
  /\ HGoto(t, "header")
  /\ UNCHANGED <<wire, restarts, mpc, client_socket, worker_sock, sock, header, buffer, bytes_read,
                 is_authenticated>>

\* Any command but MSG is read and passed over.
Receive(t) ==
  /\ hpc[t] = "process" /\ is_authenticated[t]
  /\ IF header[t].command = "MSG"
       THEN /\ log' = [log EXCEPT ![sock[t]] = Append(@, LogEntry(t))]
            /\ \/ /\ down' = Answered(sock[t], "SERVER_RECEIVED_OK")
                  /\ HGoto(t, "header") /\ UNCHANGED <<far, up>>
               \/ near[sock[t]] = "closed" /\ Return(t) /\ UNCHANGED down
       ELSE HGoto(t, "header") /\ UNCHANGED <<log, far, up, down>>
  /\ UNCHANGED <<listening, backlog, near, restarts, mpc, client_socket, worker_sock, sock, header, buffer,
                 bytes_read, is_authenticated>>

Main == Accept \/ Spawn

client_handler(t) ==
  Start(t) \/ ReadHeader(t) \/ ReadPayload(t) \/ Authenticate(t) \/ Receive(t)

\* The server process is stopped: the kernel closes all its sockets, with or
\* without delivering the answers that are on their way.
StopServer ==
  /\ listening /\ listening' = FALSE
  /\ backlog' = <<>>
  /\ far' = [c \in Client |-> IF far[c] = "open" THEN "closed" ELSE far[c]]
  /\ up' = [c \in Client |-> <<>>]
  /\ down' \in {down, [c \in Client |-> <<>>]}
  /\ mpc' = "gone"
  /\ hpc' = [t \in Client |-> IF hpc[t] = "none" THEN "none" ELSE "returned"]
  /\ UNCHANGED <<near, restarts, client_socket, worker_sock, sock, header, buffer, bytes_read,
                 is_authenticated, log>>

\* Mutated form of RestartServer: the new process listens and accepts nobody.
RestartServerDeaf ==
  /\ mpc = "gone" /\ ~listening /\ listening' = TRUE
  /\ restarts < MaxRestarts /\ restarts' = restarts + 1
  /\ client_socket' = NoSocket
  /\ UNCHANGED <<backlog, near, far, up, down, mpc, worker_sock, hpc, sock, header, buffer,
                 bytes_read, is_authenticated, log>>

\* The server is started again.  SO_REUSEADDR lets it bind its port at once,
\* whatever is left of the old connections, of which it knows nothing.
RestartServer ==
  /\ mpc = "gone" /\ listening' = TRUE
  /\ restarts < MaxRestarts /\ restarts' = restarts + 1
  /\ mpc' = "accept" /\ client_socket' = NoSocket
  /\ UNCHANGED <<backlog, near, far, up, down, worker_sock, hpc, sock, header, buffer,
                 bytes_read, is_authenticated, log>>
=============================================================================
