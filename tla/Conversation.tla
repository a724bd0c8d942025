---------------------------- MODULE Conversation ----------------------------
(***************************************************************************)
(* What the chat of "Task - 4" promises its users, without frames, threads *)
(* or connections: nobody speaks before the right password was given, and  *)
(* what is said is heard as it was said, in order, each message before the *)
(* next one is said.                                                       *)
(***************************************************************************)
EXTENDS Sequences, Naturals

CONSTANTS
  Speaker,
  Word,                 \* what a speaker may give as the password
  Secret,               \* the right one
  Message               \* what may be said

VARIABLES
  word,                 \* the word each speaker gave, "" before
  admitted,             \* the speakers that were let in
  said, heard           \* the messages of each speaker

conversation == <<word, admitted, said, heard>>

Init ==
  /\ word = [c \in Speaker |-> ""]
  /\ admitted = {}
  /\ said = [c \in Speaker |-> <<>>]
  /\ heard = [c \in Speaker |-> <<>>]

Introduce(c) ==
  /\ word[c] = "" /\ \E w \in Word : word' = [word EXCEPT ![c] = w]
  /\ UNCHANGED <<admitted, said, heard>>

Admit(c) ==
  /\ word[c] = Secret /\ admitted' = admitted \union {c}
  /\ UNCHANGED <<word, said, heard>>

Say(c) ==
  /\ c \in admitted /\ heard[c] = said[c]
  /\ \E message \in Message : said' = [said EXCEPT ![c] = Append(@, message)]
  /\ UNCHANGED <<word, admitted, heard>>

Hear(c) ==
  /\ Len(heard[c]) < Len(said[c])
  /\ heard' = [heard EXCEPT ![c] = Append(@, said[c][Len(@) + 1])]
  /\ UNCHANGED <<word, admitted, said>>

Next == \E c \in Speaker : Introduce(c) \/ Admit(c) \/ Say(c) \/ Hear(c)

Spec == Init /\ [][Next]_conversation
=============================================================================
