-------------------------- MODULE VirtualOSProofs --------------------------
(***************************************************************************)
(* Proofs about the virtual operating system, for any names, groups, file  *)
(* names and array sizes: first what holds throughout, by the invariant    *)
(* IInv, then that the arrays implement FileVault.  The latter needs to    *)
(* know what a deletion does to the n-th of the files that are kept.       *)
(***************************************************************************)
EXTENDS VirtualOS, SequenceTheorems, FiniteSetTheorems, TLAPS

(* A deletion closes the gap: what follows slot i moves one slot down.       *)
LEMMA RemoveAtProperties ==
  ASSUME NEW S, NEW s \in Seq(S), NEW i \in 1..Len(s)
  PROVE  /\ RemoveAt(s, i) \in Seq(S)
         /\ Len(RemoveAt(s, i)) = Len(s) - 1
         /\ \A j \in 1..(Len(s) - 1) : RemoveAt(s, i)[j] = IF j < i THEN s[j] ELSE s[j + 1]
<1> DEFINE a == SubSeq(s, 1, i - 1)
           b == SubSeq(s, i + 1, Len(s))
<1>0. Len(s) \in Nat /\ \A j \in 1..Len(s) : s[j] \in S
  BY LenProperties
<1>1. /\ a \in Seq(S) /\ Len(a) = i - 1
      /\ \A j \in 1..(i - 1) : a[j] = s[j]
  <2>1. \A j \in 1..(i - 1) : s[j] \in S
    BY <1>0
  <2>2. /\ a \in Seq(S) /\ Len(a) = IF 1 <= i - 1 THEN i - 1 - 1 + 1 ELSE 0
        /\ \A j \in 1..(i - 1 - 1 + 1) : a[j] = s[1 + j - 1]
    BY <2>1, SubSeqProperties
  <2> QED BY <2>2, <1>0
<1>2. /\ b \in Seq(S) /\ Len(b) = Len(s) - i
      /\ \A j \in 1..(Len(s) - i) : b[j] = s[i + j]
  <2>1. \A j \in (i + 1)..Len(s) : s[j] \in S
    BY <1>0
  <2>2. /\ b \in Seq(S) /\ Len(b) = IF i + 1 <= Len(s) THEN Len(s) - (i + 1) + 1 ELSE 0
        /\ \A j \in 1..(Len(s) - (i + 1) + 1) : b[j] = s[i + 1 + j - 1]
    BY <2>1, <1>0, SubSeqProperties
  <2> QED BY <2>2, <1>0
<1>3. /\ a \o b \in Seq(S)
      /\ Len(a \o b) = Len(a) + Len(b)
      /\ \A j \in 1..(Len(a) + Len(b)) : (a \o b)[j] = IF j <= Len(a) THEN a[j] ELSE b[j - Len(a)]
  BY <1>1, <1>2, ConcatProperties
<1>4. RemoveAt(s, i) = a \o b
  BY DEF RemoveAt
<1> HIDE DEF a, b
<1>5. Len(a \o b) = Len(s) - 1
  BY <1>0, <1>1, <1>2, <1>3
<1>6. ASSUME NEW j \in 1..(Len(s) - 1)
      PROVE  (a \o b)[j] = IF j < i THEN s[j] ELSE s[j + 1]
  <2>1. CASE j < i
    BY <1>0, <1>1, <1>2, <1>3, <2>1
  <2>2. CASE j >= i
    <3>1. /\ j - Len(a) \in 1..(Len(s) - i)
          /\ j \in 1..(Len(a) + Len(b)) /\ ~(j <= Len(a))
          /\ i + (j - Len(a)) = j + 1
      BY <1>0, <1>1, <1>2, <2>2
    <3>2. (a \o b)[j] = b[j - Len(a)]
      BY <1>3, <3>1
    <3>3. b[j - Len(a)] = s[i + (j - Len(a))]
      BY <1>2, <3>1
    <3> QED BY <3>1, <3>2, <3>3, <2>2
  <2>3. j < i \/ j >= i
    BY <1>0
  <2> QED BY <2>1, <2>2, <2>3
<1> QED BY <1>3, <1>4, <1>5, <1>6

(* The cleanup loop runs in a session of root; outside it k rests at 0.      *)
PurgeInv ==
  IF pc = "purge" THEN current_uid = 0 ELSE k = 0

(* The flag of every file tells the truth about its bytes.                   *)
FlagsTrue == \A n \in DOMAIN files : files[n].xored = files[n].isEncrypted

(* What is inductive: nothing weaker survives every command.  The session    *)
(* and the owners of files depend on the accounts being unique, the reads on *)
(* the flags, and the removal of an account on being root's.                 *)
IInv ==
  /\ TypeOK /\ UniqueAccounts /\ SessionIsLive /\ PurgeInv
  /\ FilesOwned /\ FlagsTrue /\ TextByOwner /\ ReadsAreClear

LEMMA InitInv == Init => IInv
<1> SUFFICES ASSUME Init PROVE IInv
  OBVIOUS
<1> USE NameAssumption, SizeAssumption DEF Init
<1>1. Root \in Account
  BY DEF Root, Account
<1>2. TypeOK
  BY <1>1 DEF TypeOK, Answer, File, Command, Outcome, Unlogged
<1>3. UniqueAccounts
  BY DEF UniqueAccounts, Root
<1>4. SessionIsLive /\ PurgeInv /\ FilesOwned /\ FlagsTrue /\ TextByOwner /\ ReadsAreClear
  BY DEF SessionIsLive, PurgeInv, FilesOwned, FlagsTrue, TextByOwner, ReadsAreClear
<1> QED BY <1>2, <1>3, <1>4 DEF IInv

(* The lookup of the active user finds the one account with the session's    *)
(* uid, and without one the guest.                                           *)
LEMMA ActiveUser ==
  ASSUME TypeOK, UniqueAccounts
  PROVE  /\ \A i \in DOMAIN users :
              users[i].user_id = current_uid => current_active_user = users[i].username
         /\ current_active_user \in Username \union {"GUEST"}
<1>1. ASSUME NEW i \in DOMAIN users, users[i].user_id = current_uid
      PROVE  current_active_user = users[i].username
  <2>1. Sessions = {i}
    BY <1>1 DEF Sessions, UniqueAccounts
  <2>2. i \in Int
    BY LenProperties DEF TypeOK
  <2>3. Min({i}) = i
    BY <2>2 DEF Min
  <2> QED BY <2>1, <2>3 DEF current_active_user
<1>2. CASE Sessions = {}
  BY <1>1, <1>2 DEF current_active_user
<1>3. CASE Sessions # {}
  <2>1. PICK i \in DOMAIN users : users[i].user_id = current_uid
    BY <1>3 DEF Sessions
  <2>2. users[i] \in Account
    BY LenProperties DEF TypeOK
  <2> QED BY <1>1, <2>1, <2>2 DEF Account
<1> QED BY <1>1, <1>2, <1>3

-----------------------------------------------------------------------------
(* Type correctness of one step, action by action.                           *)
LEMMA ReplyTyped ==
  ASSUME TypeOK, UniqueAccounts, NEW command \in Command, NEW outcome \in Outcome,
         NEW logged \in {current_active_user, "GUEST", "RISK", "root", Unlogged},
         Reply(command, outcome, logged)
  PROVE  reply' \in Answer
BY ActiveUser, NameAssumption DEF Reply, Answer

(* What the commands on files do to the table, whatever they check on the    *)
(* way: nothing, or one of three changes.  The latter two are the owner's    *)
(* and root's, and no change takes a file from its owner, sets the flag      *)
(* against the bytes or brings in a text that owner or root did not type.    *)
FileCommand(f) ==
  \/ file_creation(f) \/ file_read(f) \/ file_write(f)
  \/ file_delete(f) \/ file_encrypt(f)

Added ==
  \E e \in File :
    /\ files' = Append(files, e) /\ Len(files) < MaxFiles /\ current_uid # -1
    /\ e.owner_id = current_uid /\ e.group_id = current_groupid
    /\ e.author = current_uid /\ e.xored = e.isEncrypted

Rewritten ==
  \E n \in 1..Len(files), e \in File :
    /\ files' = [files EXCEPT ![n] = e]
    /\ current_uid \in {0, files[n].owner_id}
    /\ e.owner_id = files[n].owner_id /\ e.group_id = files[n].group_id
    /\ e.author \in {files[n].author, current_uid} /\ e.xored = e.isEncrypted

Erased ==
  \E n \in 1..Len(files) :
    files' = RemoveAt(files, n) /\ current_uid \in {0, files[n].owner_id}

TableStep == UNCHANGED files \/ Added \/ Rewritten \/ Erased

LEMMA WritersAreOwners ==
  ASSUME NEW file \in File, eval_permissions(file, "w")
  PROVE  current_uid \in {0, file.owner_id}
BY DEF eval_permissions, ClassOf, dynamic_mask

LEMMA FileCommandStep ==
  ASSUME IInv, NEW f \in FileName, FileCommand(f)
  PROVE  /\ pc = "prompt" /\ UNCHANGED <<accounts, session, locals>>
         /\ reply' \in Answer /\ reply'.outcome # "garbled"
         /\ TableStep
<1> USE DEF IInv
<1>1. /\ \A i \in DOMAIN files : files[i] \in File
      /\ DOMAIN files = 1..Len(files)
  BY LenProperties DEF TypeOK
<1>2. pc = "prompt" /\ UNCHANGED <<accounts, session, locals>>
  BY DEF FileCommand, file_creation, file_read, file_write, file_delete, file_encrypt, ReplyOnly
<1>3. reply' \in Answer
  BY ReplyTyped DEF FileCommand, file_creation, file_read, file_write, file_delete, file_encrypt,
                    ReplyOnly, Command, Outcome
<1>4. reply'.outcome # "garbled"
  <2>1. \A i \in DOMAIN files : Shown(files[i]) = FALSE
    BY <1>1 DEF Shown, FlagsTrue, File
  <2> QED BY <2>1 DEF FileCommand, file_creation, file_read, file_write, file_delete, file_encrypt,
                      ReplyOnly, Reply
<1>5. ASSUME file_read(f) PROVE TableStep
  BY <1>5 DEF file_read, ReplyOnly, TableStep
<1>6. ASSUME file_creation(f), files' # files PROVE TableStep
  <2> DEFINE e == [filename |-> f, author |-> current_uid, xored |-> FALSE,
                   owner_id |-> current_uid, group_id |-> current_groupid, isEncrypted |-> FALSE]
  <2>1. e \in File /\ e.xored = e.isEncrypted
    BY DEF File, TypeOK
  <2>2. files' = Append(files, e) /\ ~DiskFull /\ current_uid # -1
    BY <1>6 DEF file_creation, ReplyOnly
  <2>3. Len(files) < MaxFiles
    BY <2>2, SizeAssumption DEF DiskFull, TypeOK
  <2> QED BY <2>1, <2>2, <2>3 DEF Added, TableStep
<1>7. ASSUME file_write(f), files' # files PROVE TableStep
  <2>1. PICK n \in 1..Len(files) :
          eval_permissions(files[n], "w") /\ files' = [files EXCEPT ![n] = Overwritten(files[n])]
    BY <1>1, <1>7 DEF file_write, ReplyOnly
  <2>2. /\ Overwritten(files[n]) \in File
        /\ Overwritten(files[n]).owner_id = files[n].owner_id
        /\ Overwritten(files[n]).group_id = files[n].group_id
        /\ Overwritten(files[n]).author = current_uid
        /\ Overwritten(files[n]).xored = Overwritten(files[n]).isEncrypted
    BY <1>1 DEF Overwritten, File, TypeOK
  <2> QED BY <1>1, <2>1, <2>2, WritersAreOwners DEF Rewritten, TableStep
<1>8. ASSUME file_encrypt(f), files' # files PROVE TableStep
  <2>1. PICK n \in 1..Len(files) :
          /\ eval_permissions(files[n], "w") /\ ~files[n].isEncrypted
          /\ files' = [files EXCEPT ![n] = Encrypted(files[n])]
    BY <1>1, <1>8 DEF file_encrypt, ReplyOnly
  <2>2. /\ Encrypted(files[n]) \in File
        /\ Encrypted(files[n]).owner_id = files[n].owner_id
        /\ Encrypted(files[n]).group_id = files[n].group_id
        /\ Encrypted(files[n]).author = files[n].author
        /\ Encrypted(files[n]).xored = Encrypted(files[n]).isEncrypted
    BY <1>1, <2>1 DEF Encrypted, File, FlagsTrue
  <2> QED BY <1>1, <2>1, <2>2, WritersAreOwners DEF Rewritten, TableStep
<1>9. ASSUME file_delete(f), files' # files PROVE TableStep
  BY <1>1, <1>9 DEF file_delete, ReplyOnly, MayDelete, Erased, TableStep
<1> QED BY <1>2, <1>3, <1>4, <1>5, <1>6, <1>7, <1>8, <1>9 DEF FileCommand, TableStep

LEMMA TypingSession ==
  ASSUME IInv, login_user \/ logout_user
  PROVE  TypeOK'
<1> USE DEF IInv
<1>1. \A i \in DOMAIN users : users[i] \in Account
  BY LenProperties DEF TypeOK
<1>2. CASE login_user
  <2>1. reply' \in Answer
    BY <1>1, <1>2 DEF login_user, Reply, Answer, Command, Outcome, Account
  <2>2. current_uid' \in Int /\ current_groupid' \in Int
    <3>1. \A i \in DOMAIN users : users[i].user_id \in Int /\ users[i].group_id \in Int
      <4>1. Gid \union {0} \subseteq Int
        BY GidAssumption
      <4>2. ASSUME NEW a \in Account PROVE a.user_id \in Int /\ a.group_id \in Int
        BY <4>1 DEF Account
      <4> QED BY <1>1, <4>2
    <3>2. current_uid \in Int /\ current_groupid \in Int
      BY DEF TypeOK
    <3> QED BY <1>2, <3>1, <3>2 DEF login_user, session
  <2> QED BY <1>2, <2>1, <2>2 DEF login_user, TypeOK, accounts, locals
<1>3. CASE logout_user
  <2>1. reply' \in Answer
    BY <1>3, ReplyTyped DEF logout_user, Command, Outcome
  <2> QED BY <1>3, <2>1 DEF logout_user, TypeOK, accounts, locals, session
<1> QED BY <1>2, <1>3

(* A removal that is carried out is root's, and spares the first slot.       *)
Removal ==
  \E i \in 2..Len(users) :
    /\ current_uid = 0 /\ target_uid' = users[i].user_id
    /\ users' = RemoveAt(users, i)
    /\ pc = "prompt" /\ pc' = "purge" /\ k' = Len(files)
    /\ UNCHANGED <<next_uid, files, session, reply>>

LEMMA RemovalStep ==
  ASSUME IInv, NEW name \in Username, user_delete(name)
  PROVE  Removal \/ UNCHANGED <<accounts, files, session, locals>>
<1>1. DOMAIN users = 1..Len(users) /\ Len(users) \in Nat
  BY LenProperties DEF IInv, TypeOK
<1>2. CASE UNCHANGED <<users, locals>>
  BY <1>2 DEF user_delete, accounts
<1>3. CASE ~UNCHANGED <<users, locals>>
  <2>1. PICK i \in DOMAIN users :
          /\ current_uid = 0 /\ name # "root" /\ users[i].username = name
          /\ target_uid' = users[i].user_id /\ users' = RemoveAt(users, i)
          /\ pc' = "purge" /\ k' = Len(files) /\ reply' = reply
    BY <1>3 DEF user_delete, Removable, LastFile
  <2>2. i \in 2..Len(users)
    <3>1. i # 1
      BY <2>1 DEF IInv, UniqueAccounts, Root
    <3> QED BY <1>1, <3>1
  <2> QED BY <2>1, <2>2 DEF Removal, user_delete
<1> QED BY <1>2, <1>3

LEMMA TypingAccounts ==
  ASSUME IInv, NEW name \in Username,
         user_delete(name) \/ \E gid \in Gid : user_create(name, gid)
  PROVE  TypeOK'
<1> USE DEF IInv
<1>1. \A i \in DOMAIN users : users[i] \in Account
  BY LenProperties DEF TypeOK
<1>2. CASE user_delete(name)
  <2>1. CASE UNCHANGED <<accounts, files, session, locals>>
    <3>1. reply' \in Answer
      BY <1>2, <2>1, ReplyTyped DEF user_delete, Command, Outcome, locals
    <3> QED BY <2>1, <3>1 DEF accounts, TypeOK, locals, session
  <2>2. CASE Removal
    <3>1. PICK i \in 2..Len(users) : users' = RemoveAt(users, i) /\ target_uid' = users[i].user_id
      BY <2>2 DEF Removal
    <3>2. i \in 1..Len(users) /\ i \in DOMAIN users /\ Len(users) \in Nat
      BY LenProperties DEF TypeOK
    <3>3. users' \in Seq(Account) /\ Len(users') = Len(users) - 1
      BY <3>1, <3>2, RemoveAtProperties DEF TypeOK
    <3>4. Len(users') \in 1..MaxUsers
      BY <3>2, <3>3, SizeAssumption DEF TypeOK
    <3>5. target_uid' \in Int
      BY <1>1, <3>1, <3>2 DEF Account
    <3> QED BY <2>2, <3>3, <3>4, <3>5 DEF Removal, TypeOK, session
  <2> QED BY <1>2, <2>1, <2>2, RemovalStep
<1>3. ASSUME NEW gid \in Gid, user_create(name, gid)
      PROVE  TypeOK'
  <2>1. reply' \in Answer
    BY <1>3, ReplyTyped DEF user_create, Command, Outcome
  <2>2. CASE UNCHANGED accounts
    BY <1>3, <2>1, <2>2 DEF user_create, accounts, TypeOK, locals, session
  <2>3. CASE ~UNCHANGED accounts
    <3>1. [user_id |-> NewUid, group_id |-> gid, username |-> name] \in Account
      BY GidAssumption DEF TypeOK, NewUid, Account
    <3>2. /\ users' = Append(users, [user_id |-> NewUid, group_id |-> gid, username |-> name])
          /\ Len(users) < MaxUsers /\ next_uid' = next_uid + 1
      BY <1>3, <2>3 DEF user_create
    <3>3. users' \in Seq(Account) /\ Len(users') = Len(users) + 1
      BY <3>1, <3>2, AppendProperties DEF TypeOK
    <3>4. Len(users') \in 1..MaxUsers
      BY <3>2, <3>3, SizeAssumption DEF TypeOK
    <3> QED BY <1>3, <2>1, <3>2, <3>3, <3>4 DEF user_create, TypeOK, locals, session
  <2> QED BY <2>2, <2>3
<1> QED BY <1>2, <1>3

LEMMA TypingPurge ==
  ASSUME IInv, Purge \/ user_deleteReturn
  PROVE  TypeOK'
<1> USE DEF IInv
<1>1. CASE Purge
  <2>1. k \in 1..Len(files)
    BY <1>1 DEF Purge, TypeOK
  <2>2. CASE files[k].owner_id = target_uid
    <3>1. RemoveAt(files, k) \in Seq(File) /\ Len(RemoveAt(files, k)) = Len(files) - 1
      BY <2>1, RemoveAtProperties DEF TypeOK
    <3> QED BY <1>1, <2>1, <2>2, <3>1, SizeAssumption DEF Purge, TypeOK, accounts, session
  <2>3. CASE files[k].owner_id # target_uid
    BY <1>1, <2>1, <2>3 DEF Purge, TypeOK, accounts, session
  <2> QED BY <2>2, <2>3
<1>2. CASE user_deleteReturn
  <2>1. reply' \in Answer
    BY <1>2, ReplyTyped DEF user_deleteReturn, Command, Outcome
  <2> QED BY <1>2, <2>1 DEF user_deleteReturn, TypeOK, accounts, session
<1> QED BY <1>1, <1>2

LEMMA TypingFiles ==
  ASSUME IInv, NEW f \in FileName, FileCommand(f)
  PROVE  TypeOK'
<1> USE DEF IInv
<1>1. /\ pc = "prompt" /\ UNCHANGED <<accounts, session, locals>> /\ reply' \in Answer
      /\ TableStep
  BY FileCommandStep
<1>2. Len(files) \in Nat
  BY LenProperties DEF TypeOK
<1>3. files' \in Seq(File) /\ Len(files') \in 0..MaxFiles
  <2>1. CASE UNCHANGED files
    BY <2>1 DEF TypeOK
  <2>2. CASE Added
    <3>1. PICK e \in File : files' = Append(files, e) /\ Len(files) < MaxFiles
      BY <2>2 DEF Added
    <3> QED BY <1>2, <3>1, AppendProperties, SizeAssumption DEF TypeOK
  <2>3. CASE Rewritten
    <3>1. PICK n \in 1..Len(files), e \in File : files' = [files EXCEPT ![n] = e]
      BY <2>3 DEF Rewritten
    <3> QED BY <3>1, ExceptSeq DEF TypeOK
  <2>4. CASE Erased
    <3>1. PICK n \in 1..Len(files) : files' = RemoveAt(files, n)
      BY <2>4 DEF Erased
    <3>2. files' \in Seq(File) /\ Len(files') = Len(files) - 1
      BY <3>1, RemoveAtProperties DEF TypeOK
    <3>3. Len(files) \in 1..MaxFiles
      BY <1>2 DEF TypeOK
    <3> QED BY <3>2, <3>3, SizeAssumption
  <2> QED BY <1>1, <2>1, <2>2, <2>3, <2>4 DEF TableStep
<1> QED BY <1>1, <1>2, <1>3 DEF TypeOK, PurgeInv, accounts, session, locals

LEMMA TypingStep == IInv /\ [Next]_vars => TypeOK'
<1> SUFFICES ASSUME IInv, [Next]_vars PROVE TypeOK'
  OBVIOUS
<1>1. CASE raw_mem
  <2>1. reply' \in Answer
    BY <1>1, ReplyTyped DEF raw_mem, ReplyOnly, IInv, Command, Outcome
  <2> QED BY <1>1, <2>1 DEF raw_mem, ReplyOnly, IInv, TypeOK, accounts, session, locals
<1>2. CASE Exit
  BY <1>2 DEF Exit, IInv, TypeOK, accounts, session
<1>3. CASE UNCHANGED vars
  BY <1>3 DEF IInv, TypeOK, vars, accounts, session, locals
<1> QED BY <1>1, <1>2, <1>3, TypingSession, TypingAccounts, TypingPurge, TypingFiles DEF Next, Exited, FileCommand

-----------------------------------------------------------------------------
(* The other parts of the invariant, one lemma each.                         *)

\* What every action but user_create, Removal and the commands on files keeps.
LEMMA OtherSteps ==
  ASSUME IInv, [Next]_vars
  PROVE  \/ login_user \/ logout_user \/ Purge \/ user_deleteReturn \/ Removal
         \/ \E name \in Username, gid \in Gid : user_create(name, gid) /\ users' # users
         \/ \E f \in FileName : FileCommand(f)
         \/ Exit
         \/ UNCHANGED <<accounts, files, session, locals>>
<1>1. CASE raw_mem \/ UNCHANGED vars
  BY <1>1 DEF raw_mem, ReplyOnly, vars
<1>2. ASSUME NEW name \in Username, NEW gid \in Gid, user_create(name, gid), users' = users
      PROVE  UNCHANGED <<accounts, files, session, locals>>
  <2>1. CASE UNCHANGED accounts
    BY <1>2, <2>1 DEF user_create
  <2>2. CASE ~UNCHANGED accounts
    <3>1. users' = Append(users, [user_id |-> NewUid, group_id |-> gid, username |-> name])
      BY <1>2, <2>2 DEF user_create
    <3>2. [user_id |-> NewUid, group_id |-> gid, username |-> name] \in Account
      BY GidAssumption DEF NewUid, Account, IInv, TypeOK
    <3>3. Len(users') = Len(users) + 1 /\ Len(users) \in Nat
      BY <3>1, <3>2, AppendProperties, LenProperties DEF IInv, TypeOK
    <3> QED BY <1>2, <3>3
  <2> QED BY <2>1, <2>2
<1> QED BY <1>1, <1>2, RemovalStep DEF Next, Exited, FileCommand

\* The accounts before and after a change of the table.
LEMMA CreatedAccount ==
  ASSUME IInv, NEW name \in Username, NEW gid \in Gid, user_create(name, gid), users' # users
  PROVE  /\ pc = "prompt" /\ current_uid = 0
         /\ Len(users') = Len(users) + 1 /\ next_uid' = next_uid + 1
         /\ \A i \in 1..Len(users) : users'[i] = users[i] /\ users[i].username # name
         /\ users'[Len(users) + 1] = [user_id |-> next_uid, group_id |-> gid, username |-> name]
         /\ UNCHANGED <<files, session, locals>> /\ reply'.outcome = "done" /\ reply'.logged = "root"
<1> DEFINE a == [user_id |-> next_uid, group_id |-> gid, username |-> name]
<1>1. a \in Account
  BY GidAssumption DEF Account, IInv, TypeOK
<1>2. /\ users' = Append(users, a) /\ next_uid' = next_uid + 1 /\ ~Taken(name)
      /\ pc = "prompt" /\ current_uid = 0
      /\ UNCHANGED <<files, session, locals>> /\ reply'.outcome = "done" /\ reply'.logged = "root"
  BY DEF user_create, NewUid, accounts, Reply
<1>3. DOMAIN users = 1..Len(users)
  BY LenProperties DEF IInv, TypeOK
<1> HIDE DEF a
<1>4. /\ Len(users') = Len(users) + 1 /\ users'[Len(users) + 1] = a
      /\ \A i \in 1..Len(users) : users'[i] = users[i]
  BY <1>1, <1>2, AppendProperties DEF IInv, TypeOK
<1> QED BY <1>2, <1>3, <1>4 DEF Taken, a

LEMMA RemovedAccount ==
  ASSUME IInv, NEW i \in 2..Len(users), users' = RemoveAt(users, i)
  PROVE  /\ Len(users') = Len(users) - 1 /\ Len(users) \in Nat
         /\ DOMAIN users = 1..Len(users) /\ DOMAIN users' = 1..(Len(users) - 1)
         /\ \A j \in 1..(Len(users) - 1) : users'[j] = IF j < i THEN users[j] ELSE users[j + 1]
<1>1. i \in 1..Len(users)
  OBVIOUS
<1>2. /\ users' \in Seq(Account) /\ Len(users') = Len(users) - 1
      /\ \A j \in 1..(Len(users) - 1) : users'[j] = IF j < i THEN users[j] ELSE users[j + 1]
  BY <1>1, RemoveAtProperties DEF IInv, TypeOK
<1> QED BY <1>2, LenProperties DEF IInv, TypeOK

LEMMA AccountsStep == IInv /\ [Next]_vars => UniqueAccounts'
<1> SUFFICES ASSUME IInv, [Next]_vars PROVE UniqueAccounts'
  OBVIOUS
<1>0. /\ DOMAIN users = 1..Len(users) /\ Len(users) \in Nat /\ Len(users) >= 1 /\ next_uid \in Nat
      /\ \A i \in 1..Len(users) : users[i].user_id \in Int
      /\ UniqueAccounts
  <2>1. /\ DOMAIN users = 1..Len(users) /\ Len(users) \in Nat
        /\ \A i \in 1..Len(users) : users[i] \in Account
    BY LenProperties DEF IInv, TypeOK
  <2>2. Len(users) >= 1 /\ next_uid \in Nat
    BY SizeAssumption DEF IInv, TypeOK
  <2> QED BY <2>1, <2>2 DEF IInv, Account
<1>1. CASE UNCHANGED accounts
  BY <1>0, <1>1 DEF accounts, UniqueAccounts
<1>2. CASE \E name \in Username, gid \in Gid : user_create(name, gid) /\ users' # users
  <2>1. PICK name \in Username, gid \in Gid : user_create(name, gid) /\ users' # users
    BY <1>2
  <2>2. /\ Len(users') = Len(users) + 1 /\ next_uid' = next_uid + 1
        /\ \A i \in 1..Len(users) : users'[i] = users[i] /\ users[i].username # name
        /\ users'[Len(users) + 1] = [user_id |-> next_uid, group_id |-> gid, username |-> name]
    BY <2>1, CreatedAccount
  <2>3. DOMAIN users' = 1..(Len(users) + 1)
    BY <2>2, TypingStep, LenProperties DEF TypeOK
  <2> QED BY <1>0, <2>2, <2>3 DEF UniqueAccounts
<1>3. CASE Removal
  <2>1. PICK i \in 2..Len(users) : users' = RemoveAt(users, i) /\ next_uid' = next_uid
    BY <1>3 DEF Removal
  <2>2. /\ DOMAIN users' = 1..(Len(users) - 1)
        /\ \A j \in 1..(Len(users) - 1) : users'[j] = IF j < i THEN users[j] ELSE users[j + 1]
    BY <2>1, RemovedAccount
  <2>3. users'[1] = Root
    BY <1>0, <2>2 DEF UniqueAccounts
  <2>4. ASSUME NEW j \in DOMAIN users' PROVE users'[j].user_id < next_uid'
    <3>1. j \in DOMAIN users /\ j + 1 \in DOMAIN users
      BY <1>0, <2>2
    <3>2. users[j].user_id < next_uid /\ users[j + 1].user_id < next_uid
      BY <1>0, <3>1 DEF UniqueAccounts
    <3> QED BY <2>1, <2>2, <3>2
  <2>5. ASSUME NEW j \in DOMAIN users', NEW l \in DOMAIN users', j # l
        PROVE  users'[j].username # users'[l].username /\ users'[j].user_id # users'[l].user_id
    <3> DEFINE old(n) == IF n < i THEN n ELSE n + 1
    <3>1. old(j) \in DOMAIN users /\ old(l) \in DOMAIN users /\ old(j) # old(l)
      BY <1>0, <2>2, <2>5
    <3>2. users'[j] = users[old(j)] /\ users'[l] = users[old(l)]
      BY <2>2
    <3> QED BY <1>0, <3>1, <3>2 DEF UniqueAccounts
  <2> QED BY <2>3, <2>4, <2>5 DEF UniqueAccounts
<1>4. ASSUME NEW f \in FileName, FileCommand(f) PROVE UNCHANGED accounts
  BY <1>4, FileCommandStep
<1> QED BY <1>1, <1>2, <1>3, <1>4, OtherSteps
        DEF login_user, logout_user, Purge, user_deleteReturn, Exit

LEMMA SessionStep == IInv /\ [Next]_vars => SessionIsLive'
<1> SUFFICES ASSUME IInv, [Next]_vars PROVE SessionIsLive'
  OBVIOUS
<1>0. DOMAIN users = 1..Len(users) /\ Len(users) \in Nat /\ SessionIsLive
  BY LenProperties DEF IInv, TypeOK
<1>1. CASE login_user \/ logout_user
  BY <1>0, <1>1 DEF login_user, logout_user, accounts, session, SessionIsLive
<1>2. CASE UNCHANGED <<users, session>>
  BY <1>0, <1>2 DEF session, SessionIsLive
<1>3. CASE \E name \in Username, gid \in Gid : user_create(name, gid) /\ users' # users
  <2>1. /\ Len(users') = Len(users) + 1 /\ UNCHANGED session
        /\ \A i \in 1..Len(users) : users'[i] = users[i]
    BY <1>3, CreatedAccount
  <2>2. DOMAIN users' = 1..(Len(users) + 1)
    BY <2>1, TypingStep, LenProperties DEF TypeOK
  <2> QED BY <1>0, <2>1, <2>2 DEF session, SessionIsLive
<1>4. CASE Removal
  <2>1. PICK i \in 2..Len(users) : users' = RemoveAt(users, i) /\ current_uid = 0 /\ UNCHANGED session
    BY <1>4 DEF Removal
  <2>2. 1 \in DOMAIN users' /\ users'[1] = users[1]
    BY <2>1, RemovedAccount
  <2>3. current_uid = users[1].user_id /\ 1 \in DOMAIN users
    BY <1>0, <2>1 DEF IInv, UniqueAccounts, Root
  <2>4. current_groupid = users[1].group_id
    BY <1>0, <2>1, <2>3 DEF SessionIsLive, IInv, UniqueAccounts
  <2> QED BY <2>1, <2>2, <2>3, <2>4 DEF session, SessionIsLive
<1>5. ASSUME NEW f \in FileName, FileCommand(f) PROVE UNCHANGED <<users, session>>
  BY <1>5, FileCommandStep DEF accounts
<1> QED BY <1>1, <1>2, <1>3, <1>4, <1>5, OtherSteps DEF Purge, user_deleteReturn, Exit, accounts

LEMMA PurgeInvStep == IInv /\ [Next]_vars => PurgeInv'
<1> SUFFICES ASSUME IInv, [Next]_vars PROVE PurgeInv'
  OBVIOUS
<1> USE DEF IInv, PurgeInv
<1>1. CASE Purge \/ user_deleteReturn
  BY <1>1 DEF Purge, user_deleteReturn, session
<1>2. CASE Removal
  BY <1>2 DEF Removal, session
<1>3. CASE login_user \/ logout_user
  BY <1>3 DEF login_user, logout_user, locals
<1>4. CASE \E name \in Username, gid \in Gid : user_create(name, gid) /\ users' # users
  BY <1>4, CreatedAccount DEF session, locals
<1>5. ASSUME NEW f \in FileName, FileCommand(f) PROVE PurgeInv'
  BY <1>5, FileCommandStep DEF session, locals
<1>6. CASE Exit
  BY <1>6 DEF Exit, session
<1>7. CASE UNCHANGED <<accounts, files, session, locals>>
  BY <1>7 DEF session, locals
<1> QED BY <1>1, <1>2, <1>3, <1>4, <1>5, <1>6, <1>7, OtherSteps

LEMMA FilesOwnedStep == IInv /\ [Next]_vars => FilesOwned'
<1> SUFFICES ASSUME IInv, [Next]_vars PROVE FilesOwned'
  OBVIOUS
<1>0. /\ DOMAIN users = 1..Len(users) /\ Len(users) \in Nat
      /\ DOMAIN files = 1..Len(files) /\ Len(files) \in Nat
      /\ FilesOwned /\ PurgeInv /\ k \in 0..Len(files) /\ TypeOK'
  BY LenProperties, TypingStep DEF IInv, TypeOK
<1>1. CASE UNCHANGED <<users, files, pc, target_uid, k>>
  BY <1>0, <1>1 DEF FilesOwned, HasOwner
<1>2. CASE user_deleteReturn \/ Exit
  <2>1. \A n \in DOMAIN files : HasOwner(files[n])
    BY <1>0, <1>2 DEF user_deleteReturn, Exit, FilesOwned
  <2> QED BY <1>2, <2>1 DEF user_deleteReturn, Exit, accounts, FilesOwned, HasOwner
<1>3. CASE \E name \in Username, gid \in Gid : user_create(name, gid) /\ users' # users
  <2>1. /\ Len(users') = Len(users) + 1 /\ UNCHANGED <<files, locals>>
        /\ \A i \in 1..Len(users) : users'[i] = users[i]
    BY <1>3, CreatedAccount
  <2>2. DOMAIN users' = 1..(Len(users) + 1)
    BY <2>1, <1>0, LenProperties DEF TypeOK
  <2> QED BY <1>0, <2>1, <2>2 DEF locals, FilesOwned, HasOwner
<1>4. CASE Removal
  <2>1. PICK i \in 2..Len(users) :
          /\ users' = RemoveAt(users, i) /\ target_uid' = users[i].user_id /\ pc # "purge"
          /\ pc' = "purge" /\ k' = Len(files) /\ files' = files
    BY <1>4 DEF Removal
  <2>2. /\ DOMAIN users' = 1..(Len(users) - 1)
        /\ \A j \in 1..(Len(users) - 1) : users'[j] = IF j < i THEN users[j] ELSE users[j + 1]
    BY <2>1, RemovedAccount
  <2>3. ASSUME NEW n \in DOMAIN files, NEW j \in DOMAIN users, j # i,
               files[n].owner_id = users[j].user_id, files[n].group_id = users[j].group_id
        PROVE  HasOwner(files[n])'
    <3>1. CASE j < i
      <4>1. j \in DOMAIN users' /\ users'[j] = users[j]
        BY <1>0, <2>2, <3>1
      <4> QED BY <2>1, <2>3, <4>1 DEF HasOwner
    <3>2. CASE j > i
      <4>1. j - 1 \in DOMAIN users' /\ users'[j - 1] = users[j]
        BY <1>0, <2>2, <3>2
      <4> QED BY <2>1, <2>3, <4>1 DEF HasOwner
    <3> QED BY <1>0, <2>3, <3>1, <3>2
  <2> QED BY <1>0, <2>1, <2>3 DEF FilesOwned, HasOwner
<1>5. CASE Purge
  <2>1. /\ pc = "purge" /\ pc' = "purge" /\ k \in 1..Len(files) /\ k' = k - 1
        /\ users' = users /\ target_uid' = target_uid
    BY <1>0, <1>5 DEF Purge, accounts
  <2>2. CASE files[k].owner_id = target_uid
    <3>1. files' = RemoveAt(files, k)
      BY <1>5, <2>2 DEF Purge
    <3>2. /\ Len(files') = Len(files) - 1
          /\ \A n \in 1..(Len(files) - 1) : files'[n] = IF n < k THEN files[n] ELSE files[n + 1]
      BY <2>1, <3>1, RemoveAtProperties DEF IInv, TypeOK
    <3>3. DOMAIN files' = 1..(Len(files) - 1)
      BY <1>0, <3>2, LenProperties DEF TypeOK
    <3>4. ASSUME NEW n \in DOMAIN files'
          PROVE  LET old == IF n < k THEN n ELSE n + 1
                 IN  \/ HasOwner(files[old])
                     \/ n <= k - 1 /\ files[old].owner_id = target_uid
      <4>1. CASE n < k
        BY <1>0, <2>1, <3>3, <4>1 DEF FilesOwned
      <4>2. CASE n >= k
        <5>1. n + 1 \in DOMAIN files /\ ~(n + 1 <= k) /\ ~(n < k)
          BY <1>0, <2>1, <3>3, <4>2
        <5> QED BY <1>0, <5>1 DEF FilesOwned
      <4> QED BY <1>0, <2>1, <3>3, <4>1, <4>2
    <3>5. ASSUME NEW n \in DOMAIN files'
          PROVE  \/ HasOwner(files[n])'
                 \/ n <= k' /\ files'[n].owner_id = target_uid'
      <4>1. files'[n] = files[IF n < k THEN n ELSE n + 1]
        BY <3>2, <3>3
      <4> QED BY <2>1, <3>3, <3>4, <4>1 DEF HasOwner
    <3> QED BY <2>1, <3>5 DEF FilesOwned
  <2>3. CASE files[k].owner_id # target_uid
    BY <1>0, <1>5, <2>1, <2>3 DEF Purge, FilesOwned, HasOwner
  <2> QED BY <2>2, <2>3
<1>6. ASSUME NEW f \in FileName, FileCommand(f) PROVE FilesOwned'
  <2>1. UNCHANGED <<users, pc, target_uid, k>> /\ pc = "prompt" /\ TableStep /\ UNCHANGED session
    BY <1>6, FileCommandStep DEF accounts, locals
  <2>2. \A n \in DOMAIN files : HasOwner(files[n])
    BY <1>0, <2>1 DEF FilesOwned
  <2>3. CASE Added
    <3>1. PICK e \in File : /\ files' = Append(files, e) /\ current_uid # -1
                           /\ e.owner_id = current_uid /\ e.group_id = current_groupid
      BY <2>3 DEF Added
    <3>2. /\ Len(files') = Len(files) + 1 /\ files'[Len(files) + 1] = e
          /\ \A n \in 1..Len(files) : files'[n] = files[n]
      BY <3>1, AppendProperties DEF IInv, TypeOK
    <3>3. DOMAIN files' = 1..(Len(files) + 1)
      BY <1>0, <3>2, LenProperties DEF TypeOK
    <3>4. HasOwner(e)
      BY <1>0, <3>1 DEF HasOwner, IInv, SessionIsLive
    <3>5. ASSUME NEW j \in DOMAIN files'
          PROVE  HasOwner(files[j])'
      <4>1. HasOwner(files'[j])
        BY <1>0, <2>2, <3>2, <3>3, <3>4
      <4> QED BY <2>1, <4>1 DEF HasOwner
    <3> QED BY <3>5 DEF FilesOwned
  <2>4. CASE Rewritten
    <3>1. PICK n \in 1..Len(files), e \in File :
            /\ files' = [files EXCEPT ![n] = e]
            /\ e.owner_id = files[n].owner_id /\ e.group_id = files[n].group_id
      BY <2>4 DEF Rewritten
    <3>2. DOMAIN files' = DOMAIN files
      BY <3>1
    <3>3. \A j \in DOMAIN files : /\ files'[j].owner_id = files[j].owner_id
                                /\ files'[j].group_id = files[j].group_id
      BY <3>1
    <3>4. ASSUME NEW j \in DOMAIN files'
          PROVE  HasOwner(files[j])'
      <4>1. HasOwner(files[j])
        BY <2>2, <3>2
      <4> QED BY <2>1, <3>2, <3>3, <4>1 DEF HasOwner
    <3> QED BY <3>4 DEF FilesOwned
  <2>5. CASE Erased
    <3>1. PICK n \in 1..Len(files) : files' = RemoveAt(files, n)
      BY <2>5 DEF Erased
    <3>2. /\ Len(files') = Len(files) - 1
          /\ \A j \in 1..(Len(files) - 1) : files'[j] = IF j < n THEN files[j] ELSE files[j + 1]
      BY <3>1, RemoveAtProperties DEF IInv, TypeOK
    <3>3. DOMAIN files' = 1..(Len(files) - 1)
      BY <1>0, <3>2, LenProperties DEF TypeOK
    <3>4. ASSUME NEW j \in DOMAIN files'
          PROVE  HasOwner(files[j])'
      <4>1. files'[j] = files[IF j < n THEN j ELSE j + 1] /\ (IF j < n THEN j ELSE j + 1) \in DOMAIN files
        BY <1>0, <3>2, <3>3
      <4> QED BY <2>1, <2>2, <4>1 DEF HasOwner
    <3> QED BY <3>4 DEF FilesOwned
  <2> QED BY <1>1, <2>1, <2>3, <2>4, <2>5 DEF TableStep
<1> QED BY <1>1, <1>2, <1>3, <1>4, <1>5, <1>6, OtherSteps
        DEF login_user, logout_user, accounts, locals

\* What is true of each file by itself: its flag, and whose text it holds.
FileInv == FlagsTrue /\ TextByOwner
Good(file) == file.xored = file.isEncrypted /\ file.author \in {0, file.owner_id}

LEMMA FilesStep == IInv /\ [Next]_vars => FileInv'
<1> SUFFICES ASSUME IInv, [Next]_vars PROVE \A n \in DOMAIN files' : Good(files'[n])
  BY DEF FileInv, FlagsTrue, TextByOwner, Good
<1>0. /\ \A n \in 1..Len(files) : Good(files[n])
      /\ DOMAIN files = 1..Len(files) /\ DOMAIN files' = 1..Len(files')
      /\ Len(files) \in Nat /\ files \in Seq(File)
  BY LenProperties, TypingStep DEF IInv, TypeOK, FlagsTrue, TextByOwner, Good
<1>1. CASE UNCHANGED files
  BY <1>0, <1>1
<1>2. CASE Added
  <2>1. PICK e \in File : files' = Append(files, e) /\ Good(e)
    BY <1>2 DEF Added, Good
  <2> QED BY <1>0, <2>1, AppendProperties
<1>3. CASE Rewritten
  <2>1. PICK n \in 1..Len(files), e \in File :
          /\ files' = [files EXCEPT ![n] = e] /\ current_uid \in {0, files[n].owner_id}
          /\ e.owner_id = files[n].owner_id
          /\ e.author \in {files[n].author, current_uid} /\ e.xored = e.isEncrypted
    BY <1>3 DEF Rewritten
  <2>2. Good(e)
    BY <1>0, <2>1 DEF Good
  <2> QED BY <1>0, <2>1, <2>2
<1>4. ASSUME NEW n \in 1..Len(files), files' = RemoveAt(files, n)
      PROVE  \A j \in DOMAIN files' : Good(files'[j])
  <2>1. /\ Len(files') = Len(files) - 1
        /\ \A j \in 1..(Len(files) - 1) : files'[j] = IF j < n THEN files[j] ELSE files[j + 1]
    BY <1>0, <1>4, RemoveAtProperties
  <2> QED BY <1>0, <2>1
<1>5. CASE Purge
  <2>1. k \in 1..Len(files)
    BY <1>5 DEF Purge, IInv, TypeOK
  <2> QED BY <1>1, <1>4, <1>5, <2>1 DEF Purge
<1>6. ASSUME NEW f \in FileName, FileCommand(f) PROVE \A n \in DOMAIN files' : Good(files'[n])
  <2>1. TableStep
    BY <1>6, FileCommandStep
  <2> QED BY <1>1, <1>2, <1>3, <1>4, <2>1 DEF TableStep, Erased
<1> QED BY <1>1, <1>5, <1>6, CreatedAccount, OtherSteps
        DEF login_user, logout_user, user_deleteReturn, Removal, Exit

LEMMA ReadsStep == IInv /\ [Next]_vars => ReadsAreClear'
<1> SUFFICES ASSUME IInv, [Next]_vars PROVE ReadsAreClear'
  OBVIOUS
<1>1. ASSUME NEW f \in FileName, FileCommand(f) PROVE ReadsAreClear'
  BY <1>1, FileCommandStep DEF ReadsAreClear
<1>2. ASSUME NEW name \in Username, NEW gid \in Gid, user_create(name, gid) \/ user_delete(name)
      PROVE  ReadsAreClear'
  BY <1>2 DEF user_create, user_delete, Reply, ReadsAreClear, IInv
<1>3. CASE login_user \/ logout_user \/ raw_mem
  BY <1>3 DEF login_user, logout_user, raw_mem, ReplyOnly, Reply, ReadsAreClear
<1>4. CASE Purge \/ user_deleteReturn \/ Exit \/ UNCHANGED vars
  BY <1>4 DEF Purge, user_deleteReturn, Exit, vars, Reply, ReadsAreClear, IInv
<1>5. ASSUME NEW name \in Username, user_delete(name) PROVE ReadsAreClear'
  BY <1>5 DEF user_delete, Reply, ReadsAreClear, IInv
<1> QED BY <1>1, <1>2, <1>3, <1>4, <1>5 DEF Next, Exited, FileCommand

-----------------------------------------------------------------------------
(* The theorems: IInv holds throughout, and each property follows from it.   *)
THEOREM Invariance == Spec => []IInv
<1>1. IInv /\ [Next]_vars => IInv'
  BY TypingStep, AccountsStep, SessionStep, PurgeInvStep, FilesOwnedStep, FilesStep, ReadsStep
     DEF IInv, FileInv
<1> QED BY InitInv, <1>1, PTL DEF Spec

(* Type correctness: no command takes a table beyond its array.              *)
THEOREM Typing == Spec => []TypeOK
BY Invariance, PTL DEF IInv

(* Names and uids stay unique through any creations and removals             *)
(* (users.c:27-37, 54-67).                                                   *)
THEOREM AccountsAreUnique == Spec => []UniqueAccounts
BY Invariance, PTL DEF IInv

(* The session is nobody's or that of an account that exists (auth.c:27-28,  *)
(* 62-63; users.c:54-57).                                                    *)
THEOREM SessionsAreLive == Spec => []SessionIsLive
BY Invariance, PTL DEF IInv

(* No file outlives its account: the backward loop of users.c:72 misses none *)
(* of them, whatever the table.                                              *)
THEOREM Ownership == Spec => []FilesOwned
BY Invariance, PTL DEF IInv

(* Permitted reads show the text as it was typed (filesystem.c:88-97).       *)
THEOREM ClearReads == Spec => []ReadsAreClear
BY Invariance, PTL DEF IInv

(* Every text was typed by the file's owner or by root (filesystem.c:6-33).  *)
THEOREM OwnersText == Spec => []TextByOwner
BY Invariance, PTL DEF IInv

(* The files of others are kept, by every command and by every turn of the   *)
(* cleanup loop, which only root's sessions run.                             *)
THEOREM KeepOthersFiles == Spec => OthersFilesKept
<1> DEFINE Kept(n) == \/ n \in DOMAIN files' /\ files'[n] = files[n]
                      \/ n > 1 /\ files'[n - 1] = files[n]
<1>1. ASSUME IInv, [Next]_vars, NEW n \in DOMAIN files, current_uid \notin {0, files[n].owner_id}
      PROVE  Kept(n)
  <2>0. DOMAIN files = 1..Len(files) /\ DOMAIN files' = 1..Len(files') /\ Len(files) \in Nat
    BY <1>1, LenProperties, TypingStep DEF IInv, TypeOK
  <2>1. CASE UNCHANGED files
    BY <2>1
  <2>2. CASE Purge
    BY <1>1, <2>2 DEF Purge, IInv, PurgeInv
  <2>3. CASE Added
    <3>1. PICK e \in File : files' = Append(files, e)
      BY <2>3 DEF Added
    <3> QED BY <1>1, <2>0, <3>1, AppendProperties DEF IInv, TypeOK
  <2>4. CASE Rewritten
    BY <1>1, <2>0, <2>4 DEF Rewritten
  <2>5. CASE Erased
    <3>1. PICK i \in 1..Len(files) : files' = RemoveAt(files, i) /\ i # n
      BY <1>1, <2>5 DEF Erased
    <3>2. /\ Len(files') = Len(files) - 1
          /\ \A j \in 1..(Len(files) - 1) : files'[j] = IF j < i THEN files[j] ELSE files[j + 1]
      BY <1>1, <3>1, RemoveAtProperties DEF IInv, TypeOK
    <3>3. CASE n < i
      BY <2>0, <3>2, <3>3
    <3>4. CASE n > i
      <4>1. n - 1 \in 1..(Len(files) - 1) /\ ~(n - 1 < i) /\ n - 1 + 1 = n /\ n > 1
        BY <2>0, <3>4
      <4> QED BY <3>2, <4>1
    <3> QED BY <2>0, <3>1, <3>3, <3>4
  <2>6. ASSUME NEW f \in FileName, FileCommand(f) PROVE TableStep
    BY <1>1, <2>6, FileCommandStep
  <2> HIDE DEF Kept
  <2> QED BY <1>1, <2>1, <2>2, <2>3, <2>4, <2>5, <2>6, CreatedAccount, OtherSteps
          DEF TableStep, login_user, logout_user, user_deleteReturn, Removal, Exit
<1>2. IInv /\ [Next]_vars =>
        [\A n \in DOMAIN files : current_uid \notin {0, files[n].owner_id} => Kept(n)]_vars
  BY <1>1
<1> QED BY <1>2, Invariance, PTL DEF Spec, OthersFilesKept

(* Without a session nothing but login and logout succeeds, except that the  *)
(* files of an account of group -1 can be read while the account exists      *)
(* (auth.c:66-67 resets both ids, users.c:38 takes any group,                *)
(* filesystem.c:21 compares the groups alone).                               *)
THEOREM GuestsShareOneGroup == Spec => []GuestsOnlyRead
<1>1. ASSUME IInv, [Next]_vars, GuestsOnlyRead PROVE GuestsOnlyRead'
  <2> DEFINE Goal == \/ reply'.outcome \in {"denied", "missing"}
                     \/ reply'.command = "read" /\ HasNobodysFile'
  <2> SUFFICES ASSUME current_uid' = -1, reply'.command \notin {"boot", "login", "logout"}
               PROVE  Goal
    BY DEF GuestsOnlyRead
  <2>0. DOMAIN files = 1..Len(files) /\ PurgeInv /\ FilesOwned
    BY <1>1, LenProperties DEF IInv, TypeOK
  <2>1. \A i \in DOMAIN users : users[i].user_id \in Nat
    <3>1. \A i \in DOMAIN users : users[i] \in Account
      BY <1>1, LenProperties DEF IInv, TypeOK
    <3> QED BY <3>1 DEF Account
  <2>2. CASE login_user
    <3>1. reply'.command = "login"
      BY <2>2 DEF login_user, Reply
    <3> QED BY <3>1
  <2>3. CASE logout_user
    <3>1. reply'.command = "logout"
      BY <2>3 DEF logout_user, Reply
    <3> QED BY <3>1
  <2>4. ASSUME NEW name \in Username,
               user_delete(name) \/ \E gid \in Gid : user_create(name, gid)
        PROVE  Goal
    <3>1. CASE user_delete(name)
      BY <3>1 DEF user_delete, Reply, session
    <3>2. ASSUME NEW gid \in Gid, user_create(name, gid) PROVE Goal
      BY <3>2 DEF user_create, Reply, session
    <3> QED BY <2>4, <3>1, <3>2
  <2>5. CASE raw_mem
    BY <2>5 DEF raw_mem, ReplyOnly, Reply, session
  <2>6. ASSUME UNCHANGED <<users, files, session, reply>> PROVE Goal
    BY <1>1, <2>6 DEF GuestsOnlyRead, HasNobodysFile, HasOwner, session
  <2>7. CASE Purge \/ user_deleteReturn
    <3>1. current_uid = -1 /\ pc = "purge"
      BY <2>7 DEF Purge, user_deleteReturn, session
    <3> QED BY <2>0, <3>1 DEF PurgeInv
  <2>8. ASSUME NEW f \in FileName, FileCommand(f) PROVE Goal
    <3>1. current_uid = -1 /\ pc = "prompt"
      BY <2>8 DEF FileCommand, file_creation, file_read, file_write, file_delete, file_encrypt,
                  ReplyOnly, session
    <3>2. current_groupid = -1
      BY <1>1, <2>1, <3>1 DEF IInv, SessionIsLive
    <3>3. ASSUME NEW n \in DOMAIN files PROVE HasOwner(files[n]) /\ files[n].owner_id \in Nat
      BY <2>0, <2>1, <3>1, <3>3 DEF FilesOwned, HasOwner
    <3>4. ASSUME NEW n \in DOMAIN files
          PROVE  ~eval_permissions(files[n], "w") /\ ~MayDelete(files[n])
      BY <3>1, <3>3 DEF eval_permissions, ClassOf, dynamic_mask, MayDelete
    <3>5. ASSUME NEW n \in DOMAIN files, eval_permissions(files[n], "r")
          PROVE  files[n].group_id = -1
      BY <3>1, <3>2, <3>3, <3>5 DEF eval_permissions, ClassOf, dynamic_mask
    <3>6. CASE file_creation(f)
      BY <3>1, <3>6 DEF file_creation, ReplyOnly, Reply
    <3>7. CASE file_read(f)
      <4>1. UNCHANGED <<users, files>>
        BY <3>7 DEF file_read, ReplyOnly, accounts
      <4>2. CASE Missing(f) /\ ReplyOnly("read", "missing", Unlogged)
        BY <4>2 DEF ReplyOnly, Reply
      <4>3. CASE \E i \in DOMAIN files : ~eval_permissions(files[i], "r") /\ reply'.outcome = "denied"
        BY <4>3
      <4>4. ASSUME NEW i \in DOMAIN files, eval_permissions(files[i], "r"), reply'.command = "read"
            PROVE  Goal
        <5>1. HasNobodysFile
          BY <3>3, <3>5, <4>4 DEF HasNobodysFile
        <5>2. HasNobodysFile'
          BY <4>1, <5>1 DEF HasNobodysFile, HasOwner
        <5> QED BY <4>4, <5>2
      <4> QED BY <3>7, <4>2, <4>3, <4>4 DEF file_read, ReplyOnly, Reply
    <3>8. CASE file_write(f) \/ file_delete(f) \/ file_encrypt(f)
      BY <3>4, <3>8 DEF file_write, file_delete, file_encrypt, ReplyOnly, Reply
    <3> QED BY <2>8, <3>6, <3>7, <3>8 DEF FileCommand
  <2>9. CASE Exit \/ UNCHANGED vars
    <3>1. UNCHANGED <<users, files, session, reply>>
      BY <2>9 DEF Exit, vars, accounts
    <3> QED BY <2>6, <3>1
  <2> QED BY <1>1, <2>2, <2>3, <2>4, <2>5, <2>7, <2>8, <2>9 DEF Next, Exited, FileCommand
<1>2. Init => GuestsOnlyRead
  BY DEF Init, GuestsOnlyRead
<1> QED BY <1>1, <1>2, Invariance, PTL DEF Spec

(* The log names the session's user, also where the code writes "root"       *)
(* outright and where logout is about to reset the ids (auth.c:57-63), and   *)
(* no account or file changes without a line of that session's user.         *)
THEOREM LogIsTrue == Spec => LogNamesTheSession
<1> DEFINE Named == reply' # reply /\ reply'.command # "login" /\ reply'.logged # Unlogged
                      => reply'.logged = current_active_user
<1> DEFINE Changed == \/ pc = "prompt" /\ pc' = "prompt" /\ <<users, files>>' # <<users, files>>
                      \/ pc = "purge" /\ pc' = "prompt"
                        => reply'.outcome = "done" /\ reply'.logged = current_active_user
<1>1. ASSUME IInv, [Next]_vars PROVE Named
  <2>1. current_uid = 0 => current_active_user = "root"
    <3>1. 1 \in DOMAIN users /\ users[1] = Root
      BY <1>1, LenProperties DEF IInv, TypeOK, UniqueAccounts
    <3> QED BY <1>1, <3>1, ActiveUser DEF IInv, Root
  <2>2. current_uid = -1 => current_active_user = "GUEST"
    <3>1. \A i \in DOMAIN users : users[i] \in Account
      BY <1>1, LenProperties DEF IInv, TypeOK
    <3> QED BY <3>1 DEF current_active_user, Sessions, Account
  <2>3. ASSUME NEW f \in FileName, FileCommand(f) PROVE Named
    BY <2>2, <2>3 DEF FileCommand, file_creation, file_read, file_write, file_delete, file_encrypt,
                      ReplyOnly, Reply
  <2>4. ASSUME NEW name \in Username, NEW gid \in Gid, user_create(name, gid) PROVE Named
    BY <2>1, <2>4 DEF user_create, Reply
  <2>5. ASSUME NEW name \in Username, user_delete(name) PROVE Named
    BY <2>5 DEF user_delete, Reply
  <2>6. CASE login_user \/ logout_user \/ raw_mem \/ Exit \/ UNCHANGED vars
    BY <2>6 DEF login_user, logout_user, raw_mem, Exit, vars, ReplyOnly, Reply
  <2>7. CASE Purge \/ user_deleteReturn
    BY <1>1, <2>1, <2>7 DEF Purge, user_deleteReturn, Reply, IInv, PurgeInv
  <2> HIDE DEF Named
  <2> QED BY <1>1, <2>3, <2>4, <2>5, <2>6, <2>7 DEF Next, Exited, FileCommand
<1>2. ASSUME IInv, [Next]_vars PROVE Changed
  <2>1. current_uid = 0 => current_active_user = "root"
    <3>1. 1 \in DOMAIN users /\ users[1] = Root
      BY <1>2, LenProperties DEF IInv, TypeOK, UniqueAccounts
    <3> QED BY <1>2, <3>1, ActiveUser DEF IInv, Root
  <2>2. ASSUME NEW f \in FileName, FileCommand(f) PROVE Changed
    BY <2>2 DEF FileCommand, file_creation, file_read, file_write, file_delete, file_encrypt,
                ReplyOnly, Reply, accounts, locals
  <2>3. ASSUME NEW name \in Username, NEW gid \in Gid, user_create(name, gid) PROVE Changed
    BY <2>1, <2>3 DEF user_create, Reply, accounts, locals
  <2>4. ASSUME NEW name \in Username, user_delete(name) PROVE Changed
    BY <2>4 DEF user_delete, locals
  <2>5. CASE login_user \/ logout_user \/ raw_mem \/ Exit \/ UNCHANGED vars
    BY <2>5 DEF login_user, logout_user, raw_mem, Exit, vars, ReplyOnly, accounts, locals
  <2>6. CASE Purge \/ user_deleteReturn
    BY <1>2, <2>1, <2>6 DEF Purge, user_deleteReturn, Reply, IInv, PurgeInv
  <2> HIDE DEF Changed
  <2> QED BY <1>2, <2>2, <2>3, <2>4, <2>5, <2>6 DEF Next, Exited, FileCommand
<1>3. IInv /\ [Next]_vars => [Named /\ Changed]_vars
  BY <1>1, <1>2
<1> QED BY <1>3, Invariance, PTL DEF Spec, LogNamesTheSession

-----------------------------------------------------------------------------
(* Ranks tell slots apart, grow with them, and reach every number up to how  *)
(* many there are.                                                           *)
LEMMA RankBounds ==
  ASSUME NEW S \in SUBSET Int, IsFiniteSet(S), NEW i \in S
  PROVE  Rank(S, i) \in 1..Cardinality(S)
<1> DEFINE upto == {j \in S : j <= i}
<1>1. IsFiniteSet(upto) /\ Cardinality(upto) <= Cardinality(S)
  <2>1. upto \in SUBSET S
    OBVIOUS
  <2> QED BY <2>1, FS_Subset
<1>2. Cardinality(upto) \in Nat /\ Cardinality(S) \in Nat
  BY <1>1, FS_CardinalityType
<1>3. Cardinality(upto) # 0
  <2>1. i \in upto
    OBVIOUS
  <2> QED BY <1>1, <2>1, FS_EmptySet
<1> HIDE DEF upto
<1>4. Cardinality(upto) \in 1..Cardinality(S)
  BY <1>1, <1>2, <1>3
<1> QED BY <1>4 DEF Rank, upto

LEMMA RankGrows ==
  ASSUME NEW S \in SUBSET Int, IsFiniteSet(S), NEW i \in S, NEW j \in S, i < j
  PROVE  Rank(S, i) < Rank(S, j)
<1> DEFINE upto(n) == {l \in S : l <= n}
<1>1. IsFiniteSet(upto(j))
  <2>1. upto(j) \in SUBSET S
    OBVIOUS
  <2> QED BY <2>1, FS_Subset
<1>2. upto(i) \in SUBSET upto(j) /\ j \in upto(j) /\ j \notin upto(i)
  <2>1. \A l \in S : l \in Int
    OBVIOUS
  <2>2. \A l \in S : l <= i => l <= j
    BY <2>1
  <2>3. j <= j /\ ~(j <= i)
    BY <2>1
  <2> QED BY <2>2, <2>3
<1>3. IsFiniteSet(upto(i)) /\ Cardinality(upto(i)) <= Cardinality(upto(j))
      /\ Cardinality(upto(j)) # Cardinality(upto(i))
  BY <1>1, <1>2, FS_Subset
<1>4. Cardinality(upto(i)) \in Nat /\ Cardinality(upto(j)) \in Nat
  BY <1>1, <1>3, FS_CardinalityType
<1>5. Rank(S, i) = Cardinality(upto(i)) /\ Rank(S, j) = Cardinality(upto(j))
  BY DEF Rank
<1> QED BY <1>3, <1>4, <1>5

LEMMA RankIsUnique ==
  ASSUME NEW S \in SUBSET Int, IsFiniteSet(S), NEW i \in S, NEW j \in S, Rank(S, i) = Rank(S, j)
  PROVE  i = j
<1>1. Rank(S, i) \in Int /\ Rank(S, j) \in Int
  BY RankBounds
<1>2. ~(i < j) /\ ~(j < i)
  BY <1>1, RankGrows
<1> QED BY <1>2

LEMMA NthSlot ==
  ASSUME NEW S \in SUBSET Int, IsFiniteSet(S), NEW n \in 1..Cardinality(S)
  PROVE  Nth(S, n) \in S /\ Rank(S, Nth(S, n)) = n
<1> DEFINE c == Cardinality(S)
           f == [i \in S |-> Rank(S, i)]
<1>1. f \in [S -> 1..c] /\ \A i \in S : f[i] = Rank(S, i)
  BY RankBounds
<1>2. f \in Injection(S, 1..c)
  BY <1>1, RankIsUnique DEF Injection, IsInjective
<1>3. c \in Nat
  BY FS_CardinalityType
<1>4. IsFiniteSet(1..c) /\ Cardinality(1..c) = c
  BY <1>3, FS_Interval
<1>5. f \in Surjection(S, 1..c)
  BY <1>2, <1>4, FS_Injection
<1>6. PICK i \in S : f[i] = n
  BY <1>5 DEF Surjection
<1>7. Rank(S, i) = n
  BY <1>1, <1>6
<1> QED BY <1>7 DEF Nth

(* Nothing is lost of a sequence whose slots are all kept.                   *)
LEMMA SelectedWhole ==
  ASSUME NEW X, NEW seq \in Seq(X)
  PROVE  Selected(seq, 1..Len(seq)) = seq
<1>1. Len(seq) \in Nat /\ seq = [n \in 1..Len(seq) |-> seq[n]]
  BY LenProperties
<1>2. IsFiniteSet(1..Len(seq)) /\ Cardinality(1..Len(seq)) = Len(seq)
  <2>1. ASSUME NEW l \in Nat PROVE IsFiniteSet(1..l) /\ Cardinality(1..l) = l
    BY FS_Interval
  <2> QED BY <1>1, <2>1
<1>3. ASSUME NEW n \in 1..Len(seq) PROVE Rank(1..Len(seq), n) = n
  <2>1. {j \in 1..Len(seq) : j <= n} = 1..n
    BY <1>1
  <2>2. Cardinality(1..n) = n
    BY FS_Interval
  <2> QED BY <2>1, <2>2 DEF Rank
<1>4. ASSUME NEW n \in 1..Len(seq) PROVE Nth(1..Len(seq), n) = n
  <2>1. Nth(1..Len(seq), n) \in 1..Len(seq) /\ Rank(1..Len(seq), Nth(1..Len(seq), n)) = n
    BY <1>2, NthSlot
  <2> QED BY <1>3, <2>1
<1> QED BY <1>1, <1>2, <1>4 DEF Selected

(* Ranks only depend on the order of the slots.                              *)
LEMMA SameRanks ==
  ASSUME NEW S \in SUBSET Int, NEW T \in SUBSET Int, IsFiniteSet(T),
         NEW up \in [T -> S],
         \A s \in S : \E t \in T : up[t] = s,
         \A t, u \in T : t < u => up[t] < up[u]
  PROVE  /\ IsFiniteSet(S) /\ Cardinality(S) = Cardinality(T)
         /\ \A t \in T : Rank(S, up[t]) = Rank(T, t)
<1>1. \A t, u \in T : up[t] = up[u] => t = u
  <2>1. ASSUME NEW t \in T, NEW u \in T, up[t] = up[u] PROVE t = u
    <3>1. up[t] \in Int /\ up[u] \in Int
      OBVIOUS
    <3>2. ~(t < u) /\ ~(u < t)
      BY <2>1, <3>1
    <3> QED BY <3>2
  <2> QED BY <2>1
<1>2. up \in Bijection(T, S)
  BY <1>1 DEF Bijection, Injection, Surjection, IsInjective
<1>3. IsFiniteSet(S) /\ Cardinality(S) = Cardinality(T)
  BY <1>2, FS_Bijection DEF ExistsBijection
<1>4. ASSUME NEW t \in T PROVE Rank(S, up[t]) = Rank(T, t)
  <2> DEFINE A == {u \in T : u <= t}
             B == {s \in S : s <= up[t]}
             h == [u \in A |-> up[u]]
  <2>1. \A u \in T : u <= t <=> up[u] <= up[t]
    <3>1. ASSUME NEW u \in T PROVE u <= t <=> up[u] <= up[t]
      <4>1. up[u] \in Int /\ up[t] \in Int
        OBVIOUS
      <4>2. t < u => up[t] < up[u]
        OBVIOUS
      <4>3. u < t => up[u] < up[t]
        OBVIOUS
      <4> QED BY <4>1, <4>2, <4>3
    <3> QED BY <3>1
  <2>2. h \in [A -> B] /\ \A u \in A : h[u] = up[u]
    BY <2>1
  <2>3. \A s \in B : \E u \in A : h[u] = s
    BY <2>1
  <2>4. h \in Bijection(A, B)
    <3>1. h \in Injection(A, B)
      BY <1>1, <2>2 DEF Injection, IsInjective
    <3> HIDE DEF h, A, B
    <3> QED BY <2>2, <2>3, <3>1 DEF Bijection, Surjection
  <2>5. IsFiniteSet(A)
    <3>1. A \in SUBSET T
      OBVIOUS
    <3> QED BY <3>1, FS_Subset
  <2>6. Cardinality(B) = Cardinality(A)
    BY <2>4, <2>5, FS_Bijection DEF ExistsBijection
  <2> QED BY <2>6 DEF Rank
<1> QED BY <1>3, <1>4

(* A slot that is not kept may as well be deleted.                           *)
LEMMA SelectedAfterRemoval ==
  ASSUME NEW X, NEW seq \in Seq(X), NEW i \in 1..Len(seq),
         NEW S \in SUBSET (1..Len(seq)), i \notin S
  PROVE  Selected(RemoveAt(seq, i), {n \in 1..(Len(seq) - 1) : (IF n < i THEN n ELSE n + 1) \in S})
           = Selected(seq, S)
<1> DEFINE T == {n \in 1..(Len(seq) - 1) : (IF n < i THEN n ELSE n + 1) \in S}
           up == [n \in T |-> IF n < i THEN n ELSE n + 1]
<1>0. Len(seq) \in Nat /\ T \in SUBSET Int /\ S \in SUBSET Int
  BY LenProperties
<1>1. up \in [T -> S] /\ \A n \in T : up[n] = IF n < i THEN n ELSE n + 1
  OBVIOUS
<1>2. \A s \in S : \E t \in T : up[t] = s
  <2>1. ASSUME NEW s \in S PROVE \E t \in T : up[t] = s
    <3>1. CASE s < i
      <4>1. s \in T
        BY <1>0, <3>1
      <4> QED BY <1>1, <3>1, <4>1
    <3>2. CASE s > i
      <4>1. s - 1 \in T /\ ~(s - 1 < i) /\ s - 1 + 1 = s
        BY <1>0, <3>2
      <4> QED BY <1>1, <4>1
    <3>3. s < i \/ s > i
      <4>1. s \in Int /\ i \in Int /\ s # i
        BY <1>0
      <4> QED BY <4>1
    <3> HIDE DEF T, up
    <3> QED BY <3>1, <3>2, <3>3
  <2> QED BY <2>1
<1>3. \A t, u \in T : t < u => up[t] < up[u]
  BY <1>0, <1>1
<1>4. IsFiniteSet(T)
  <2>1. IsFiniteSet(1..(Len(seq) - 1))
    BY <1>0, FS_Interval
  <2>2. T \in SUBSET (1..(Len(seq) - 1))
    OBVIOUS
  <2> QED BY <2>1, <2>2, FS_Subset
<1>5. \A n \in T : RemoveAt(seq, i)[n] = seq[up[n]]
  <2>1. \A n \in 1..(Len(seq) - 1) : RemoveAt(seq, i)[n] = IF n < i THEN seq[n] ELSE seq[n + 1]
    BY RemoveAtProperties
  <2> QED BY <1>1, <2>1
<1> HIDE DEF T, up
<1>6. /\ IsFiniteSet(S) /\ Cardinality(S) = Cardinality(T)
      /\ \A t \in T : Rank(S, up[t]) = Rank(T, t)
  BY <1>0, <1>1, <1>2, <1>3, <1>4, SameRanks
<1>7. ASSUME NEW n \in 1..Cardinality(T) PROVE RemoveAt(seq, i)[Nth(T, n)] = seq[Nth(S, n)]
  <2>1. Nth(T, n) \in T /\ Rank(T, Nth(T, n)) = n
    BY <1>0, <1>4, NthSlot
  <2>2. Nth(S, n) \in S /\ Rank(S, Nth(S, n)) = n
    BY <1>0, <1>6, NthSlot
  <2>3. up[Nth(T, n)] \in S /\ Rank(S, up[Nth(T, n)]) = n
    BY <1>1, <1>6, <2>1
  <2>4. up[Nth(T, n)] = Nth(S, n)
    <3>1. Rank(S, up[Nth(T, n)]) = Rank(S, Nth(S, n))
      BY <2>2, <2>3
    <3> QED BY <1>0, <1>6, <2>2, <2>3, <3>1, RankIsUnique
  <2> QED BY <1>5, <2>1, <2>4
<1>8. Selected(RemoveAt(seq, i), T) = Selected(seq, S)
  BY <1>6, <1>7 DEF Selected
<1> QED BY <1>8 DEF T

-----------------------------------------------------------------------------
(* The abstract vault, seen from the arrays.                                 *)
Active ==
  IF Sessions = {} THEN [user_id |-> -1, group_id |-> -1, username |-> "GUEST"]
                   ELSE users[Min(Sessions)]
Existing == {users[i] : i \in DOMAIN users}
Issued == {0} \union 1001..(next_uid - 1)
Entry(file) ==
  [filename |-> file.filename, author |-> file.author, isEncrypted |-> file.isEncrypted,
   owner_id |-> file.owner_id, group_id |-> file.group_id]
Entries(table) == [n \in DOMAIN table |-> Entry(table[n])]

\* No account but root has an id below 1001.
NumberInv == next_uid \in Nat /\ next_uid >= 1001

LEMMA NumberStep == IInv /\ NumberInv /\ [Next]_vars => NumberInv'
<1> SUFFICES ASSUME IInv, NumberInv, [Next]_vars PROVE NumberInv'
  OBVIOUS
<1>1. CASE UNCHANGED next_uid
  BY <1>1 DEF NumberInv
<1>2. CASE \E name \in Username, gid \in Gid : user_create(name, gid) /\ users' # users
  <2>1. next_uid' = next_uid + 1
    BY <1>2, CreatedAccount
  <2> QED BY <2>1 DEF NumberInv
<1>3. ASSUME NEW f \in FileName, FileCommand(f) PROVE UNCHANGED next_uid
  BY <1>3, FileCommandStep DEF accounts
<1> QED BY <1>1, <1>2, <1>3, OtherSteps
        DEF accounts, login_user, logout_user, Purge, user_deleteReturn, Removal, Exit

(* The one account that the lookup finds, or none.                           *)
LEMMA ActiveAccount ==
  ASSUME TypeOK, UniqueAccounts
  PROVE  /\ \A i \in DOMAIN users : users[i].user_id = current_uid => Active = users[i]
         /\ current_uid = -1 => Active = Vault!Nobody
<1>1. ASSUME NEW i \in DOMAIN users, users[i].user_id = current_uid PROVE Active = users[i]
  <2>1. Sessions = {i}
    BY <1>1 DEF Sessions, UniqueAccounts
  <2>2. i \in Int
    BY LenProperties DEF TypeOK
  <2>3. Min({i}) = i
    BY <2>2 DEF Min
  <2> QED BY <2>1, <2>3 DEF Active
<1>2. ASSUME current_uid = -1 PROVE Active = Vault!Nobody
  <2>1. \A i \in DOMAIN users : users[i] \in Account
    BY LenProperties DEF TypeOK
  <2>2. Sessions = {}
    BY <1>2, <2>1 DEF Sessions, Account
  <2> QED BY <2>2 DEF Active, Vault!Nobody
<1> QED BY <1>1, <1>2

(* The session seen from its account: root's, nobody's, or an owner's.       *)
LEMMA ActiveMeans ==
  ASSUME IInv
  PROVE  /\ current_uid = 0 => Active = Vault!Root
         /\ current_uid # -1 => /\ Active # Vault!Nobody /\ Active \in Existing
                                /\ Active.user_id = current_uid /\ Active.group_id = current_groupid
<1>1. ASSUME current_uid = 0 PROVE Active = Vault!Root
  <2>1. 1 \in DOMAIN users /\ users[1] = Root /\ Root.user_id = 0
    BY LenProperties DEF IInv, TypeOK, UniqueAccounts, Root
  <2>2. users[1].user_id = current_uid
    BY <1>1, <2>1
  <2>3. Active = users[1]
    BY <2>1, <2>2, ActiveAccount DEF IInv
  <2>4. Root = Vault!Root
    BY DEF Root, Vault!Root
  <2>5. Active = Vault!Root
    BY <2>1, <2>3, <2>4
  <2> QED BY <2>5
<1>2. ASSUME current_uid # -1
      PROVE  /\ Active # Vault!Nobody /\ Active \in Existing
             /\ Active.user_id = current_uid /\ Active.group_id = current_groupid
  <2>1. PICK i \in DOMAIN users : current_uid = users[i].user_id /\ current_groupid = users[i].group_id
    BY <1>2 DEF IInv, SessionIsLive
  <2>2. Active = users[i]
    BY <2>1, ActiveAccount DEF IInv
  <2>3. Vault!Nobody.user_id = -1
    BY DEF Vault!Nobody
  <2> QED BY <1>2, <2>1, <2>2, <2>3 DEF Existing
<1> QED BY <1>1, <1>2

\* What the refinement mapping looks at.
SameVault ==
  /\ Existing' = Existing /\ Issued' = Issued /\ Active' = Active
  /\ Entries(KeptFiles)' = Entries(KeptFiles)

LEMMA SameVaultStutters ==
  ASSUME SameVault
  PROVE  UNCHANGED Vault!vars
BY DEF SameVault, Existing, Issued, Active, Entries, Entry, Vault!vars

LEMMA SameAccounts ==
  ASSUME UNCHANGED <<users, next_uid, current_uid>>
  PROVE  Existing' = Existing /\ Issued' = Issued /\ Active' = Active
BY DEF Existing, Issued, Active, Sessions

LEMMA KeptAtPrompt ==
  /\ pc # "purge" => KeptFiles = files
  /\ pc' # "purge" => KeptFiles' = files'
BY DEF KeptFiles

LEMMA SessionRefines ==
  ASSUME IInv, login_user \/ logout_user
  PROVE  SameVault \/ Vault!LogIn \/ Vault!LogOut
<1>1. /\ UNCHANGED <<accounts, files, locals>> /\ pc = "prompt"
      /\ Existing' = Existing /\ Issued' = Issued /\ Entries(KeptFiles)' = Entries(KeptFiles)
  BY DEF login_user, logout_user, accounts, locals, Existing, Issued, Entries, Entry, KeptFiles
<1>2. CASE UNCHANGED session
  BY <1>1, <1>2, SameAccounts DEF SameVault, accounts, session
<1>3. ASSUME login_user, NEW i \in DOMAIN users, current_uid' = users[i].user_id
      PROVE  Vault!LogIn
  <2>1. TypeOK' /\ UniqueAccounts'
    <3>1. [Next]_vars
      BY <1>3 DEF Next
    <3> QED BY <3>1, TypingStep, AccountsStep
  <2>2. users' = users
    BY <1>1 DEF accounts
  <2>3. Active' = users[i]
    <3>1. Sessions' = {i}
      BY <1>3, <2>1, <2>2 DEF Sessions, UniqueAccounts
    <3>2. i \in Int /\ Min({i}) = i
      <4>1. i \in Int
        BY LenProperties DEF IInv, TypeOK
      <4> QED BY <4>1 DEF Min
    <3> QED BY <2>2, <3>1, <3>2 DEF Active
  <2>4. Active' \in Existing
    BY <2>3 DEF Existing
  <2> QED BY <1>1, <2>4 DEF Vault!LogIn, Active, Existing, Issued, Entries, Entry
<1>4. ASSUME logout_user, ~UNCHANGED session PROVE Vault!LogOut
  <2>1. current_uid' = -1 /\ users' = users
    BY <1>1, <1>4 DEF logout_user, accounts
  <2>2. \A i \in DOMAIN users : users[i] \in Account
    BY LenProperties DEF IInv, TypeOK
  <2>3. Sessions' = {}
    BY <2>1, <2>2 DEF Sessions, Account
  <2>4. Active' = Vault!Nobody
    BY <2>3 DEF Active, Vault!Nobody
  <2> QED BY <1>1, <2>4 DEF Vault!LogOut, Active, Existing, Issued, Entries, Entry
<1> QED BY <1>2, <1>3, <1>4 DEF login_user

LEMMA CreationOpens ==
  ASSUME IInv, NumberInv, NEW name \in Username, NEW gid \in Gid,
         user_create(name, gid), users' # users
  PROVE  Vault!Open
<1> DEFINE a == [user_id |-> next_uid, group_id |-> gid, username |-> name]
<1>1. /\ pc = "prompt" /\ current_uid = 0
      /\ Len(users') = Len(users) + 1 /\ next_uid' = next_uid + 1
      /\ \A i \in 1..Len(users) : users'[i] = users[i] /\ users[i].username # name
      /\ users'[Len(users) + 1] = a
      /\ UNCHANGED <<files, session, locals>>
  BY CreatedAccount
<1>2. DOMAIN users = 1..Len(users) /\ Len(users) \in Nat /\ DOMAIN users' = 1..(Len(users) + 1)
  <2>1. TypeOK'
    <3>1. [Next]_vars
      BY DEF Next
    <3> QED BY <3>1, TypingStep
  <2> QED BY <1>1, <2>1, LenProperties DEF IInv, TypeOK
<1> HIDE DEF a
<1>3. Existing' = Existing \union {a}
  <2>1. DOMAIN users' = DOMAIN users \union {Len(users) + 1}
    BY <1>2
  <2>2. Existing' = {users'[i] : i \in DOMAIN users'} /\ Existing = {users[i] : i \in DOMAIN users}
    BY DEF Existing
  <2>3. \A i \in DOMAIN users : users'[i] = users[i]
    BY <1>1, <1>2
  <2> QED BY <1>1, <2>1, <2>2, <2>3
<1>4. a \in Existing' /\ a.user_id = next_uid /\ a.group_id = gid /\ a.username = name
  BY <1>3 DEF a
<1>5. Issued' = Issued \union {a.user_id} /\ a.user_id \notin Issued
  <2>1. next_uid \in Nat /\ next_uid >= 1001 /\ next_uid' - 1 = next_uid
    BY <1>1 DEF NumberInv
  <2>2. 1001..next_uid = 1001..(next_uid - 1) \union {next_uid} /\ next_uid # 0
        /\ next_uid \notin 1001..(next_uid - 1)
    BY <2>1
  <2>3. Issued = {0} \union 1001..(next_uid - 1) /\ Issued' = {0} \union 1001..next_uid
    BY <2>1 DEF Issued
  <2> QED BY <1>4, <2>2, <2>3
<1>6. name \notin {b.username : b \in Existing}
  BY <1>1, <1>2 DEF Existing
<1>7. Active = Vault!Root /\ Active' = Active
  <2>1. Active = users[1] /\ users[1] = Vault!Root
    <3>1. 1 \in DOMAIN users /\ users[1] = Root /\ Root.user_id = current_uid
      BY <1>1, LenProperties DEF IInv, TypeOK, UniqueAccounts, Root
    <3>2. Active = users[1]
      BY <3>1, ActiveAccount DEF IInv
    <3> QED BY <3>1, <3>2 DEF Root, Vault!Root
  <2>2. Active' = users'[1]
    <3>1. UniqueAccounts' /\ TypeOK'
      <4>1. [Next]_vars
        BY DEF Next
      <4> QED BY <4>1, TypingStep, AccountsStep
    <3>2. 1 \in DOMAIN users' /\ users'[1].user_id = current_uid'
      BY <1>1, <1>2, <3>1 DEF UniqueAccounts, Root, session
    <3>3. Sessions' = {1}
      BY <3>1, <3>2 DEF Sessions, UniqueAccounts
    <3>4. Min({1}) = 1
      BY DEF Min
    <3> QED BY <3>3, <3>4 DEF Active
  <2>3. users'[1] = users[1]
    BY <1>1, LenProperties DEF IInv, TypeOK
  <2> QED BY <2>1, <2>2, <2>3
<1>8. Entries(KeptFiles)' = Entries(KeptFiles)
  BY <1>1, KeptAtPrompt DEF locals, Entries, Entry
<1>9. \E b \in Existing' :
        /\ b.user_id \notin Issued /\ b.group_id \in Gid
        /\ b.username \in Username \ {c.username : c \in Existing}
        /\ Existing' = Existing \union {b}
        /\ Issued' = Issued \union {b.user_id}
  BY <1>3, <1>4, <1>5, <1>6
<1> QED BY <1>7, <1>8, <1>9 DEF Vault!Open, Active, Existing, Issued, Entries, Entry

(* The slots whose files do not belong to an account.                        *)
Spared(table, uid) == {n \in DOMAIN table : table[n].owner_id # uid}

LEMMA SameSelection ==
  ASSUME NEW seq, NEW S
  PROVE  Vault!Selected(seq, S) = Selected(seq, S)
BY DEF Vault!Selected, Vault!Nth, Vault!Rank, Vault!Cardinality, Selected, Nth, Rank, Cardinality

LEMMA EntriesSelected ==
  ASSUME NEW table \in Seq(File), NEW uid
  PROVE  Entries(Selected(table, Spared(table, uid)))
           = Selected(Entries(table), Spared(Entries(table), uid))
<1>1. DOMAIN table = 1..Len(table) /\ Len(table) \in Nat
  BY LenProperties
<1>2. DOMAIN Entries(table) = DOMAIN table
      /\ \A n \in DOMAIN table : Entries(table)[n] = Entry(table[n])
  BY DEF Entries
<1>3. Spared(Entries(table), uid) = Spared(table, uid)
  BY <1>2 DEF Spared, Entry
<1>4. Spared(table, uid) \in SUBSET DOMAIN table
  BY DEF Spared
<1>5. PICK S : S = Spared(table, uid)
  OBVIOUS
<1>6. S \in SUBSET Int /\ IsFiniteSet(S)
  <2>1. IsFiniteSet(1..Len(table))
    BY <1>1, FS_Interval
  <2> QED BY <1>1, <1>4, <1>5, <2>1, FS_Subset
<1>7. \A n \in 1..Cardinality(S) : Nth(S, n) \in DOMAIN table
  BY <1>4, <1>5, <1>6, NthSlot
<1>8. Entries(Selected(table, S)) = Selected(Entries(table), S)
  BY <1>2, <1>7 DEF Selected, Entries
<1> QED BY <1>3, <1>5, <1>8

(* Removing an account is one step of the vault: its files are out of sight  *)
(* at once.                                                                  *)
LEMMA RemovalCloses ==
  ASSUME IInv, [Next]_vars, Removal
  PROVE  \E a \in Existing : Vault!Close(a)
<1>1. PICK i \in 2..Len(users) :
        /\ current_uid = 0 /\ target_uid' = users[i].user_id
        /\ users' = RemoveAt(users, i)
        /\ pc = "prompt" /\ pc' = "purge" /\ k' = Len(files)
        /\ UNCHANGED <<next_uid, files, session, reply>>
  BY DEF Removal
<1>2. /\ Len(users) \in Nat /\ DOMAIN users = 1..Len(users) /\ DOMAIN users' = 1..(Len(users) - 1)
      /\ \A j \in 1..(Len(users) - 1) : users'[j] = IF j < i THEN users[j] ELSE users[j + 1]
  BY <1>1, RemovedAccount
<1>3. users[1] = Root /\ 1 \in DOMAIN users /\ i \in DOMAIN users /\ i # 1
  BY <1>2 DEF IInv, UniqueAccounts
<1>4. users[i] \in Existing /\ users[i] # Vault!Root
  <2>1. users[i].user_id # users[1].user_id
    BY <1>3 DEF IInv, UniqueAccounts
  <2>2. Vault!Root = users[1]
    BY <1>3 DEF Root, Vault!Root
  <2> QED BY <1>3, <2>1, <2>2 DEF Existing
<1>5. Existing' = Existing \ {users[i]}
  <2>1. ASSUME NEW x \in Existing' PROVE x \in Existing \ {users[i]}
    <3>1. PICK j \in 1..(Len(users) - 1) : x = users'[j]
      BY <1>2, <2>1 DEF Existing
    <3>2. PICK l \in DOMAIN users : l = IF j < i THEN j ELSE j + 1
      BY <1>2
    <3>3. l # i /\ x = users[l]
      BY <1>2, <3>1, <3>2
    <3>4. users[l].user_id # users[i].user_id
      BY <1>3, <3>3 DEF IInv, UniqueAccounts
    <3> QED BY <3>3, <3>4 DEF Existing
  <2>2. ASSUME NEW x \in Existing, x # users[i] PROVE x \in Existing'
    <3>1. PICK l \in DOMAIN users : x = users[l] /\ l # i
      BY <2>2 DEF Existing
    <3>2. PICK j \in 1..(Len(users) - 1) : l = IF j < i THEN j ELSE j + 1
      <4>1. CASE l < i
        BY <1>2, <4>1
      <4>2. CASE l > i
        <5>1. l - 1 \in 1..(Len(users) - 1) /\ ~(l - 1 < i) /\ l = l - 1 + 1
          BY <1>2, <4>2
        <5> QED BY <5>1
      <4>3. l < i \/ l > i
        BY <1>2, <3>1
      <4> QED BY <4>1, <4>2, <4>3
    <3>3. x = users'[j] /\ j \in DOMAIN users'
      BY <1>2, <3>1, <3>2
    <3> QED BY <3>3 DEF Existing
  <2> QED BY <2>1, <2>2
<1>6. Active = Vault!Root /\ Active' = Active
  <2>1. Active = Vault!Root
    BY <1>1, ActiveMeans
  <2>2. Active' = users'[1]
    <3>1. UniqueAccounts' /\ TypeOK'
      BY TypingStep, AccountsStep
    <3>2. 1 \in DOMAIN users' /\ users'[1].user_id = current_uid'
      BY <1>1, <1>2, <3>1 DEF UniqueAccounts, Root, session
    <3>3. Sessions' = {1}
      BY <3>1, <3>2 DEF Sessions, UniqueAccounts
    <3>4. Min({1}) = 1
      BY DEF Min
    <3> QED BY <3>3, <3>4 DEF Active
  <2>3. users'[1] = users[1]
    BY <1>2
  <2>4. users[1] = Vault!Root
    BY <1>3 DEF Root, Vault!Root
  <2> QED BY <2>1, <2>2, <2>3, <2>4
<1>7. Entries(KeptFiles) = Entries(files)
  BY <1>1 DEF KeptFiles
<1>8. Entries(KeptFiles)' = Entries(Selected(files, Spared(files, users[i].user_id)))
  BY <1>1 DEF KeptFiles, Spared, Entries, Entry
<1>9. Entries(KeptFiles)' = Selected(Entries(files), Spared(Entries(files), users[i].user_id))
  BY <1>8, EntriesSelected DEF IInv, TypeOK
<1>10. Entries(KeptFiles)'
         = Vault!Selected(Entries(KeptFiles),
             {n \in DOMAIN Entries(KeptFiles) : Entries(KeptFiles)[n].owner_id # users[i].user_id})
  BY <1>7, <1>9, SameSelection DEF Spared
<1>11. Issued' = Issued
  BY <1>1 DEF Issued
<1>12. PICK a : a = users[i]
  OBVIOUS
<1>13. Vault!Close(a)
  BY <1>4, <1>5, <1>6, <1>10, <1>11, <1>12 DEF Vault!Close, Active, Existing, Issued, Entries, Entry
<1> QED BY <1>4, <1>12, <1>13

(* A turn of the cleanup loop deletes what is out of sight already.          *)
LEMMA PurgeStutters ==
  ASSUME IInv, Purge
  PROVE  SameVault
<1>1. UNCHANGED <<users, next_uid, current_uid, pc, target_uid>> /\ pc = "purge" /\ k > 0
  BY DEF Purge, accounts, session
<1>2. files \in Seq(File) /\ Len(files) \in Nat /\ DOMAIN files = 1..Len(files) /\ k \in 1..Len(files)
  BY <1>1, LenProperties DEF IInv, TypeOK
<1>3. KeptFiles = Selected(files, Spared(files, target_uid))
  BY <1>1 DEF KeptFiles, Spared
<1>4. KeptFiles' = Selected(files', Spared(files', target_uid))
  BY <1>1 DEF KeptFiles, Spared
<1>5. ASSUME UNCHANGED files PROVE KeptFiles' = KeptFiles
  BY <1>3, <1>4, <1>5
<1>6. ASSUME files[k].owner_id = target_uid, files' = RemoveAt(files, k)
      PROVE  KeptFiles' = KeptFiles
  <2>1. /\ RemoveAt(files, k) \in Seq(File) /\ Len(RemoveAt(files, k)) = Len(files) - 1
        /\ \A n \in 1..(Len(files) - 1) :
             RemoveAt(files, k)[n] = IF n < k THEN files[n] ELSE files[n + 1]
    BY <1>2, RemoveAtProperties
  <2>2. DOMAIN files' = 1..(Len(files) - 1)
    BY <1>6, <2>1, LenProperties
  <2>3. \A n \in 1..(Len(files) - 1) : (IF n < k THEN n ELSE n + 1) \in DOMAIN files
    BY <1>2
  <2>4. Spared(files', target_uid)
          = {n \in 1..(Len(files) - 1) : (IF n < k THEN n ELSE n + 1) \in Spared(files, target_uid)}
    BY <1>6, <2>1, <2>2, <2>3 DEF Spared
  <2>5. PICK S : S = Spared(files, target_uid)
    OBVIOUS
  <2>6. S \in SUBSET (1..Len(files)) /\ k \notin S
    BY <1>2, <1>6, <2>5 DEF Spared
  <2>7. Selected(RemoveAt(files, k), {n \in 1..(Len(files) - 1) : (IF n < k THEN n ELSE n + 1) \in S})
          = Selected(files, S)
    BY <1>2, <2>6, SelectedAfterRemoval
  <2> QED BY <1>3, <1>4, <1>6, <2>4, <2>5, <2>7
<1>7. KeptFiles' = KeptFiles
  BY <1>5, <1>6 DEF Purge
<1>8. Entries(KeptFiles)' = Entries(KeptFiles)
  BY <1>7 DEF Entries, Entry
<1> QED BY <1>1, <1>8, SameAccounts DEF SameVault

(* When the loop has passed the first slot, no file of the account is left.  *)
LEMMA ReturnStutters ==
  ASSUME IInv, user_deleteReturn, \A i \in DOMAIN users : users[i].user_id # target_uid
  PROVE  SameVault
<1>1. /\ UNCHANGED <<users, next_uid, current_uid, files>> /\ pc = "purge" /\ pc' = "prompt"
      /\ k = 0
  BY DEF user_deleteReturn, accounts, session
<1>2. files \in Seq(File) /\ Len(files) \in Nat /\ DOMAIN files = 1..Len(files)
  BY LenProperties DEF IInv, TypeOK
<1>3. ASSUME NEW n \in DOMAIN files PROVE files[n].owner_id # target_uid
  <2>1. HasOwner(files[n])
    BY <1>1, <1>2 DEF IInv, FilesOwned
  <2> QED BY <2>1 DEF HasOwner
<1>4. Spared(files, target_uid) = 1..Len(files)
  BY <1>2, <1>3 DEF Spared
<1>5. KeptFiles = Selected(files, 1..Len(files))
  BY <1>1, <1>4 DEF KeptFiles, Spared
<1>6. KeptFiles = files /\ KeptFiles' = files
  BY <1>1, <1>2, <1>5, SelectedWhole, KeptAtPrompt
<1>7. Entries(KeptFiles)' = Entries(KeptFiles)
  BY <1>6 DEF Entries, Entry
<1> QED BY <1>1, <1>7, SameAccounts DEF SameVault

(* The account that is being removed is gone for good.                       *)
TargetGone == pc = "purge" => \A i \in DOMAIN users : users[i].user_id # target_uid

LEMMA TargetStep == IInv /\ TargetGone /\ [Next]_vars => TargetGone'
<1> SUFFICES ASSUME IInv, TargetGone, [Next]_vars, pc' = "purge"
             PROVE  \A i \in DOMAIN users' : users'[i].user_id # target_uid'
  BY DEF TargetGone
<1>1. CASE pc = "purge" /\ UNCHANGED <<users, target_uid>>
  BY <1>1 DEF TargetGone
<1>2. CASE Removal
  <2>1. PICK i \in 2..Len(users) : target_uid' = users[i].user_id /\ users' = RemoveAt(users, i)
    BY <1>2 DEF Removal
  <2>2. /\ Len(users) \in Nat /\ DOMAIN users = 1..Len(users) /\ DOMAIN users' = 1..(Len(users) - 1)
        /\ \A j \in 1..(Len(users) - 1) : users'[j] = IF j < i THEN users[j] ELSE users[j + 1]
    BY <2>1, RemovedAccount
  <2>3. ASSUME NEW j \in DOMAIN users' PROVE users'[j].user_id # target_uid'
    <3>1. PICK l \in DOMAIN users : l = IF j < i THEN j ELSE j + 1
      BY <2>2
    <3>2. l # i /\ i \in DOMAIN users /\ users'[j] = users[l]
      BY <2>2, <3>1
    <3>3. users[l].user_id # users[i].user_id
      BY <3>1, <3>2 DEF IInv, UniqueAccounts
    <3> QED BY <2>1, <3>2, <3>3
  <2> QED BY <2>3
<1>3. CASE ~Removal
  <2>1. ASSUME NEW f \in FileName, FileCommand(f) PROVE pc = "prompt" /\ pc' = pc
    BY <2>1, FileCommandStep DEF locals
  <2>2. ASSUME NEW name \in Username, NEW gid \in Gid, user_create(name, gid) PROVE pc = "prompt" /\ pc' = pc
    BY <2>2 DEF user_create, locals
  <2>3. CASE Purge
    BY <1>1, <2>3 DEF Purge, accounts
  <2>4. CASE UNCHANGED <<accounts, files, session, locals>>
    BY <1>1, <2>4 DEF accounts, locals
  <2>5. CASE login_user \/ logout_user \/ user_deleteReturn \/ Exit
    BY <2>5 DEF login_user, logout_user, user_deleteReturn, Exit, locals
  <2> QED BY <1>3, <2>1, <2>2, <2>3, <2>4, <2>5, OtherSteps
<1> QED BY <1>2, <1>3

(* A file command stores, rewrites, encrypts or erases an entry, or leaves   *)
(* the vault as it was.                                                      *)
LEMMA OwnersMaster ==
  ASSUME IInv, pc = "prompt", NEW i \in DOMAIN files, current_uid \in {0, files[i].owner_id}
  PROVE  Active = Vault!Root \/ Active.user_id = Entries(files)[i].owner_id
<1>1. Entries(files)[i].owner_id = files[i].owner_id
  BY DEF Entries, Entry
<1>2. CASE current_uid = 0
  BY <1>2, ActiveMeans
<1>3. CASE current_uid = files[i].owner_id
  <2>1. HasOwner(files[i])
    BY DEF IInv, FilesOwned
  <2>2. PICK j \in DOMAIN users : files[i].owner_id = users[j].user_id
    BY <2>1 DEF HasOwner
  <2>3. users[j] \in Account
    BY LenProperties DEF IInv, TypeOK
  <2>4. current_uid # -1
    BY <1>3, <2>2, <2>3 DEF Account
  <2> QED BY <1>1, <1>3, <2>4, ActiveMeans
<1> QED BY <1>2, <1>3

\* What every file command leaves alone, and where its entries lie.
LEMMA FileCommandFrame ==
  ASSUME IInv, NEW f \in FileName, FileCommand(f)
  PROVE  /\ Existing' = Existing /\ Issued' = Issued /\ Active' = Active
         /\ pc = "prompt" /\ KeptFiles = files /\ KeptFiles' = files'
         /\ files \in Seq(File) /\ DOMAIN files = 1..Len(files) /\ Len(files) \in Nat
<1>1. pc = "prompt" /\ UNCHANGED <<accounts, session, locals>>
  BY FileCommandStep
<1> QED BY <1>1, SameAccounts, KeptAtPrompt, LenProperties DEF accounts, session, locals, IInv, TypeOK

LEMMA CreationStores ==
  ASSUME IInv, NEW f \in FileName, file_creation(f)
  PROVE  SameVault \/ Vault!Store(f)
<1>1. FileCommand(f)
  BY DEF FileCommand
<1>2. CASE UNCHANGED files
  BY <1>1, <1>2, FileCommandFrame DEF SameVault, Entries, Entry
<1>3. CASE ~UNCHANGED files
  <2> DEFINE e == [filename |-> f, author |-> current_uid, xored |-> FALSE,
                   owner_id |-> current_uid, group_id |-> current_groupid, isEncrypted |-> FALSE]
  <2>1. files' = Append(files, e) /\ current_uid # -1
    BY <1>3 DEF file_creation, ReplyOnly
  <2>2. e \in File
    BY DEF File, IInv, TypeOK
  <2>3. Entry(e) = [filename |-> f, author |-> current_uid, isEncrypted |-> FALSE,
                    owner_id |-> current_uid, group_id |-> current_groupid]
    BY DEF Entry
  <2>4. PICK x : x = e
    OBVIOUS
  <2> HIDE DEF e
  <2>5. Entries(Append(files, x)) = Append(Entries(files), Entry(x))
    <3>1. /\ DOMAIN files = 1..Len(files) /\ Len(files) \in Nat /\ files \in Seq(File) /\ x \in File
      BY <1>1, <2>2, <2>4, FileCommandFrame
    <3>2. Len(Append(files, x)) = Len(files) + 1 /\ Append(files, x) \in Seq(File)
          /\ \A n \in 1..(Len(files) + 1) :
               Append(files, x)[n] = IF n = Len(files) + 1 THEN x ELSE files[n]
      BY <3>1, AppendProperties
    <3>3. DOMAIN Append(files, x) = 1..(Len(files) + 1)
      BY <3>2, LenProperties
    <3>4. Entries(Append(files, x))
            = [n \in 1..(Len(files) + 1) |-> IF n = Len(files) + 1 THEN Entry(x) ELSE Entry(files[n])]
      BY <3>2, <3>3 DEF Entries
    <3>5. Entries(files) \in Seq({Entry(y) : y \in File}) /\ Len(Entries(files)) = Len(files)
      <4>1. \A n \in 1..Len(files) : Entry(files[n]) \in {Entry(y) : y \in File}
        BY <3>1
      <4>2. Entries(files) = [n \in 1..Len(files) |-> Entry(files[n])]
        BY <3>1 DEF Entries
      <4>3. Entries(files) \in [1..Len(files) -> {Entry(y) : y \in File}]
        BY <4>1, <4>2
      <4> QED BY <3>1, <4>3, IsASeq, LenProperties
    <3>6. \A n \in 1..Len(files) : Entries(files)[n] = Entry(files[n])
      BY <3>1 DEF Entries
    <3> HIDE DEF Entries, Entry
    <3>7. Append(Entries(files), Entry(x))
            = [n \in 1..(Len(files) + 1) |-> IF n = Len(files) + 1 THEN Entry(x) ELSE Entries(files)[n]]
      <4>1. PICK t, y : t = Entries(files) /\ y = Entry(x)
        OBVIOUS
      <4>2. t \in Seq({Entry(z) : z \in File}) /\ y \in {Entry(z) : z \in File} /\ Len(t) = Len(files)
        BY <3>1, <3>5, <4>1
      <4>3. /\ Append(t, y) \in Seq({Entry(z) : z \in File}) /\ Len(Append(t, y)) = Len(files) + 1
            /\ \A n \in 1..Len(files) : Append(t, y)[n] = t[n]
            /\ Append(t, y)[Len(files) + 1] = y
        BY <4>2, AppendProperties
      <4>4. Append(t, y) = [n \in 1..(Len(files) + 1) |-> Append(t, y)[n]]
        BY <4>3, LenProperties
      <4>5. \A n \in 1..(Len(files) + 1) :
              Append(t, y)[n] = IF n = Len(files) + 1 THEN y ELSE t[n]
        BY <3>1, <4>3
      <4> QED BY <4>1, <4>4, <4>5
    <3> QED BY <3>1, <3>4, <3>6, <3>7
  <2>6. Entries(files') = Append(Entries(files), Entry(e))
    BY <2>1, <2>4, <2>5
  <2>7. Active # Vault!Nobody /\ Active.user_id = current_uid /\ Active.group_id = current_groupid
    BY <2>1, ActiveMeans
  <2>8. Entries(KeptFiles)' = Entries(files') /\ Entries(KeptFiles) = Entries(files)
    BY <1>1, FileCommandFrame DEF Entries, Entry
  <2>9. Entries(KeptFiles)'
          = Append(Entries(KeptFiles),
                   [filename |-> f, author |-> Active.user_id, isEncrypted |-> FALSE,
                    owner_id |-> Active.user_id, group_id |-> Active.group_id])
    BY <2>3, <2>6, <2>7, <2>8
  <2>10. Existing' = Existing /\ Issued' = Issued /\ Active' = Active
    BY <1>1, FileCommandFrame
  <2> QED BY <2>7, <2>9, <2>10 DEF Vault!Store, Active, Existing, Issued, Entries, Entry
<1> QED BY <1>2, <1>3

\* The file that a command by name reaches, when the session may change it.
LEMMA Reached ==
  ASSUME IInv, NEW f \in FileName, FileCommand(f), NEW i \in DOMAIN files, Finds(i, f),
         current_uid \in {0, files[i].owner_id}
  PROVE  /\ Vault!Masters(i) /\ i \in DOMAIN Entries(KeptFiles)
         /\ Entries(KeptFiles)[i] = Entry(files[i])
<1>1. /\ pc = "prompt" /\ KeptFiles = files /\ DOMAIN files = 1..Len(files) /\ Len(files) \in Nat
  BY FileCommandFrame
<1>2. DOMAIN Entries(KeptFiles) = DOMAIN files
      /\ \A j \in DOMAIN files : Entries(KeptFiles)[j] = Entry(files[j])
  BY <1>1 DEF Entries
<1>3. Active = Vault!Root \/ Active.user_id = Entries(KeptFiles)[i].owner_id
  BY <1>1, OwnersMaster
<1>4. \A j \in 1..(i - 1) : Entries(KeptFiles)[j].filename # Entries(KeptFiles)[i].filename
  <2>1. \A j \in 1..(i - 1) : j \in DOMAIN files /\ files[j].filename # files[i].filename
    BY <1>1 DEF Finds
  <2> QED BY <1>2, <2>1 DEF Entry
<1>5. Vault!Masters(i)
  BY <1>3, <1>4 DEF Vault!Masters, Active, Entries, Entry
<1> QED BY <1>2, <1>5

EntryType ==
  [filename : FileName, author : Int, isEncrypted : BOOLEAN, owner_id : Int, group_id : Int]

LEMMA EntriesExcept ==
  ASSUME NEW table, NEW i \in DOMAIN table, NEW file
  PROVE  Entries([table EXCEPT ![i] = file]) = [Entries(table) EXCEPT ![i] = Entry(file)]
BY DEF Entries

LEMMA WritingRewrites ==
  ASSUME IInv, NEW f \in FileName, file_write(f)
  PROVE  SameVault \/ \E i \in DOMAIN Entries(KeptFiles) : Vault!Rewrite(i)
<1>1. FileCommand(f)
  BY DEF FileCommand
<1>2. CASE UNCHANGED files
  BY <1>1, <1>2, FileCommandFrame DEF SameVault, Entries, Entry
<1>3. CASE ~UNCHANGED files
  <2>1. PICK i \in DOMAIN files :
          /\ Finds(i, f) /\ eval_permissions(files[i], "w")
          /\ files' = [files EXCEPT ![i] = Overwritten(files[i])]
    BY <1>3 DEF file_write, ReplyOnly
  <2>2. files[i] \in File
    BY <1>1, FileCommandFrame, LenProperties
  <2>3. current_uid \in {0, files[i].owner_id}
    BY <2>1, <2>2, WritersAreOwners
  <2>4. Vault!Masters(i) /\ i \in DOMAIN Entries(KeptFiles) /\ Entries(KeptFiles)[i] = Entry(files[i])
    BY <1>1, <2>1, <2>3, Reached
  <2>5. current_uid = Active.user_id
    <3>1. current_uid # -1
      <4>1. HasOwner(files[i])
        BY <1>1, FileCommandFrame DEF IInv, FilesOwned
      <4>2. PICK j \in DOMAIN users : files[i].owner_id = users[j].user_id
        BY <4>1 DEF HasOwner
      <4>3. users[j] \in Account
        BY LenProperties DEF IInv, TypeOK
      <4> QED BY <2>3, <4>2, <4>3 DEF Account
    <3> QED BY <3>1, ActiveMeans
  <2>6. Entry(Overwritten(files[i]))
          = [Entry(files[i]) EXCEPT !.author = current_uid, !.isEncrypted = FALSE]
    <3>1. PICK e : e = Overwritten(files[i])
      OBVIOUS
    <3>2. /\ e.filename = files[i].filename /\ e.author = current_uid /\ e.isEncrypted = FALSE
          /\ e.owner_id = files[i].owner_id /\ e.group_id = files[i].group_id
      BY <2>2, <3>1 DEF Overwritten, File
    <3>3. /\ Entry(e) \in EntryType /\ Entry(files[i]) \in EntryType
          /\ Entry(e).filename = Entry(files[i]).filename
          /\ Entry(e).author = current_uid /\ Entry(e).isEncrypted = FALSE
          /\ Entry(e).owner_id = Entry(files[i]).owner_id /\ Entry(e).group_id = Entry(files[i]).group_id
      BY <2>2, <3>2 DEF Entry, EntryType, File, IInv, TypeOK
    <3>4. PICK r : r = Entry(files[i])
      OBVIOUS
    <3>5. Entry(e) = [r EXCEPT !.author = current_uid, !.isEncrypted = FALSE]
      BY <3>3, <3>4 DEF EntryType, IInv, TypeOK
    <3> QED BY <3>1, <3>4, <3>5
  <2>7. Entries(KeptFiles)' = [Entries(KeptFiles) EXCEPT ![i] = Entry(Overwritten(files[i]))]
    <3>1. PICK e : e = Overwritten(files[i])
      OBVIOUS
    <3>2. PICK t : t = files
      OBVIOUS
    <3>3. Entries(KeptFiles)' = Entries([t EXCEPT ![i] = e]) /\ KeptFiles = t
      BY <1>1, <2>1, <3>1, <3>2, FileCommandFrame DEF Entries, Entry
    <3> QED BY <3>1, <3>2, <3>3, EntriesExcept
  <2>8. Entries(KeptFiles)'
          = [Entries(KeptFiles) EXCEPT ![i].author = Active.user_id, ![i].isEncrypted = FALSE]
    BY <2>4, <2>5, <2>6, <2>7
  <2>9. Existing' = Existing /\ Issued' = Issued /\ Active' = Active
    BY <1>1, FileCommandFrame
  <2>10. Vault!Rewrite(i)
    BY <2>4, <2>8, <2>9 DEF Vault!Rewrite, Active, Existing, Issued, Entries, Entry
  <2> QED BY <2>4, <2>10
<1> QED BY <1>2, <1>3

LEMMA EncryptionEncrypts ==
  ASSUME IInv, NEW f \in FileName, file_encrypt(f)
  PROVE  SameVault \/ \E i \in DOMAIN Entries(KeptFiles) : Vault!Encrypt(i)
<1>1. FileCommand(f)
  BY DEF FileCommand
<1>2. CASE UNCHANGED files
  BY <1>1, <1>2, FileCommandFrame DEF SameVault, Entries, Entry
<1>3. CASE ~UNCHANGED files
  <2>1. PICK i \in DOMAIN files :
          /\ Finds(i, f) /\ eval_permissions(files[i], "w")
          /\ files' = [files EXCEPT ![i] = Encrypted(files[i])]
    BY <1>3 DEF file_encrypt, ReplyOnly
  <2>2. files[i] \in File
    BY <1>1, FileCommandFrame, LenProperties
  <2>3. current_uid \in {0, files[i].owner_id}
    BY <2>1, <2>2, WritersAreOwners
  <2>4. Vault!Masters(i) /\ i \in DOMAIN Entries(KeptFiles) /\ Entries(KeptFiles)[i] = Entry(files[i])
    BY <1>1, <2>1, <2>3, Reached
  <2>5. Entry(Encrypted(files[i])) = [Entry(files[i]) EXCEPT !.isEncrypted = TRUE]
    <3>1. PICK e : e = Encrypted(files[i])
      OBVIOUS
    <3>2. /\ e.filename = files[i].filename /\ e.author = files[i].author /\ e.isEncrypted = TRUE
          /\ e.owner_id = files[i].owner_id /\ e.group_id = files[i].group_id
      BY <2>2, <3>1 DEF Encrypted, File
    <3>3. /\ Entry(e) \in EntryType /\ Entry(files[i]) \in EntryType
          /\ Entry(e).filename = Entry(files[i]).filename
          /\ Entry(e).author = Entry(files[i]).author /\ Entry(e).isEncrypted = TRUE
          /\ Entry(e).owner_id = Entry(files[i]).owner_id /\ Entry(e).group_id = Entry(files[i]).group_id
      BY <2>2, <3>2 DEF Entry, EntryType, File, IInv, TypeOK
    <3>4. PICK r : r = Entry(files[i])
      OBVIOUS
    <3>5. Entry(e) = [r EXCEPT !.isEncrypted = TRUE]
      BY <3>3, <3>4 DEF EntryType, IInv, TypeOK
    <3> QED BY <3>1, <3>4, <3>5
  <2>6. Entries(KeptFiles)' = [Entries(KeptFiles) EXCEPT ![i] = Entry(Encrypted(files[i]))]
    <3>1. PICK e : e = Encrypted(files[i])
      OBVIOUS
    <3>2. PICK t : t = files
      OBVIOUS
    <3>3. Entries(KeptFiles)' = Entries([t EXCEPT ![i] = e]) /\ KeptFiles = t
      BY <1>1, <2>1, <3>1, <3>2, FileCommandFrame DEF Entries, Entry
    <3> QED BY <3>1, <3>2, <3>3, EntriesExcept
  <2>7. Entries(KeptFiles)' = [Entries(KeptFiles) EXCEPT ![i].isEncrypted = TRUE]
    BY <2>4, <2>5, <2>6
  <2>8. Existing' = Existing /\ Issued' = Issued /\ Active' = Active
    BY <1>1, FileCommandFrame
  <2>9. Vault!Encrypt(i)
    BY <2>4, <2>7, <2>8 DEF Vault!Encrypt, Active, Existing, Issued, Entries, Entry
  <2> QED BY <2>4, <2>9
<1> QED BY <1>2, <1>3

\* Deleting from the table and from the vault closes the same gap.
LEMMA EntriesRemoved ==
  ASSUME NEW table \in Seq(File), NEW i \in DOMAIN table
  PROVE  Entries(RemoveAt(table, i)) = Vault!RemoveAt(Entries(table), i)
<1>1. DOMAIN table = 1..Len(table) /\ Len(table) \in Nat
  BY LenProperties
<1>2. PICK t : t = Entries(table)
  OBVIOUS
<1>3. t \in Seq({Entry(y) : y \in File}) /\ Len(t) = Len(table)
      /\ \A n \in 1..Len(table) : t[n] = Entry(table[n])
  <2>1. \A n \in 1..Len(table) : Entry(table[n]) \in {Entry(y) : y \in File}
    BY <1>1, LenProperties
  <2>2. t = [n \in 1..Len(table) |-> Entry(table[n])]
    BY <1>1, <1>2 DEF Entries
  <2>3. t \in [1..Len(table) -> {Entry(y) : y \in File}]
    BY <2>1, <2>2
  <2>4. t \in Seq({Entry(y) : y \in File})
    BY <1>1, <2>3
  <2> QED BY <1>1, <2>2, <2>3, <2>4, LenProperties
<1>4. /\ RemoveAt(table, i) \in Seq(File) /\ Len(RemoveAt(table, i)) = Len(table) - 1
      /\ \A j \in 1..(Len(table) - 1) : RemoveAt(table, i)[j] = IF j < i THEN table[j] ELSE table[j + 1]
  BY <1>1, RemoveAtProperties
<1>5. /\ RemoveAt(t, i) \in Seq({Entry(y) : y \in File}) /\ Len(RemoveAt(t, i)) = Len(table) - 1
      /\ \A j \in 1..(Len(table) - 1) : RemoveAt(t, i)[j] = IF j < i THEN t[j] ELSE t[j + 1]
  <2>1. PICK X : X = {Entry(y) : y \in File}
    OBVIOUS
  <2>2. t \in Seq(X) /\ i \in 1..Len(t)
    BY <1>1, <1>3, <2>1
  <2>3. /\ RemoveAt(t, i) \in Seq(X) /\ Len(RemoveAt(t, i)) = Len(t) - 1
        /\ \A j \in 1..(Len(t) - 1) : RemoveAt(t, i)[j] = IF j < i THEN t[j] ELSE t[j + 1]
    BY <2>2, RemoveAtProperties
  <2> QED BY <1>3, <2>1, <2>3
<1>6. RemoveAt(t, i) = [j \in 1..(Len(table) - 1) |-> RemoveAt(t, i)[j]]
  BY <1>5, LenProperties
<1>7. DOMAIN RemoveAt(table, i) = 1..(Len(table) - 1)
  BY <1>4, LenProperties
<1>8. Entries(RemoveAt(table, i)) = [j \in 1..(Len(table) - 1) |-> Entry(RemoveAt(table, i)[j])]
  BY <1>7 DEF Entries
<1>9. ASSUME NEW j \in 1..(Len(table) - 1) PROVE RemoveAt(t, i)[j] = Entry(RemoveAt(table, i)[j])
  <2>1. j \in 1..Len(table) /\ j + 1 \in 1..Len(table)
    BY <1>1
  <2> QED BY <1>3, <1>4, <1>5, <2>1
<1>10. Entries(RemoveAt(table, i)) = RemoveAt(t, i)
  BY <1>6, <1>8, <1>9
<1> QED BY <1>2, <1>10 DEF RemoveAt, Vault!RemoveAt

LEMMA DeletionErases ==
  ASSUME IInv, NEW f \in FileName, file_delete(f)
  PROVE  SameVault \/ \E i \in DOMAIN Entries(KeptFiles) : Vault!Erase(i)
<1>1. FileCommand(f)
  BY DEF FileCommand
<1>2. CASE UNCHANGED files
  BY <1>1, <1>2, FileCommandFrame DEF SameVault, Entries, Entry
<1>3. CASE ~UNCHANGED files
  <2>1. PICK i \in DOMAIN files :
          /\ Finds(i, f) /\ MayDelete(files[i]) /\ files' = RemoveAt(files, i)
    BY <1>3 DEF file_delete, ReplyOnly
  <2>2. Vault!Masters(i) /\ i \in DOMAIN Entries(KeptFiles)
    BY <1>1, <2>1, Reached DEF MayDelete
  <2>3. Entries(KeptFiles)' = Entries(RemoveAt(files, i)) /\ KeptFiles = files /\ files \in Seq(File)
    BY <1>1, <2>1, FileCommandFrame DEF Entries, Entry
  <2>4. Entries(KeptFiles)' = Vault!RemoveAt(Entries(KeptFiles), i)
    BY <2>3, EntriesRemoved
  <2>5. Existing' = Existing /\ Issued' = Issued /\ Active' = Active
    BY <1>1, FileCommandFrame
  <2>6. Vault!Erase(i)
    BY <2>2, <2>4, <2>5 DEF Vault!Erase, Active, Existing, Issued, Entries, Entry
  <2> QED BY <2>2, <2>6
<1> QED BY <1>2, <1>3

(* Every step is a step of the vault or leaves it as it is.                  *)
LEMMA NextRefines ==
  ASSUME IInv, NumberInv, TargetGone, [Next]_vars
  PROVE  Vault!Next \/ SameVault
<1>1. CASE login_user \/ logout_user
  BY <1>1, SessionRefines DEF Vault!Next
<1>2. CASE Purge
  BY <1>2, PurgeStutters
<1>3. CASE user_deleteReturn
  BY <1>3, ReturnStutters DEF user_deleteReturn, TargetGone
<1>4. CASE Removal
  <2>1. PICK a : a \in Existing /\ Vault!Close(a)
    BY <1>4, RemovalCloses
  <2> QED BY <2>1 DEF Vault!Next, Existing
<1>5. ASSUME NEW name \in Username, NEW gid \in Gid, user_create(name, gid), users' # users
      PROVE  Vault!Open
  BY <1>5, CreationOpens
<1>6. ASSUME NEW f \in FileName, FileCommand(f) PROVE Vault!Next \/ SameVault
  <2>1. CASE file_creation(f)
    BY <2>1, CreationStores DEF Vault!Next
  <2>2. CASE file_read(f)
    <3>1. UNCHANGED files
      BY <2>2 DEF file_read, ReplyOnly
    <3> QED BY <1>6, <3>1, FileCommandFrame DEF SameVault, Entries, Entry
  <2>3. CASE file_write(f)
    <3>1. SameVault \/ \E i \in DOMAIN Entries(KeptFiles) : Vault!Rewrite(i)
      BY <2>3, WritingRewrites
    <3> QED BY <3>1 DEF Vault!Next, Entries, Entry
  <2>4. CASE file_delete(f)
    <3>1. SameVault \/ \E i \in DOMAIN Entries(KeptFiles) : Vault!Erase(i)
      BY <2>4, DeletionErases
    <3> QED BY <3>1 DEF Vault!Next, Entries, Entry
  <2>5. CASE file_encrypt(f)
    <3>1. SameVault \/ \E i \in DOMAIN Entries(KeptFiles) : Vault!Encrypt(i)
      BY <2>5, EncryptionEncrypts
    <3> QED BY <3>1 DEF Vault!Next, Entries, Entry
  <2> QED BY <1>6, <2>1, <2>2, <2>3, <2>4, <2>5 DEF FileCommand
<1>7. CASE Exit \/ UNCHANGED <<accounts, files, session, locals>>
  <2>1. UNCHANGED <<users, next_uid, current_uid, files, target_uid>>
        /\ (pc' = pc \/ (pc = "prompt" /\ pc' = "exit"))
    BY <1>7 DEF Exit, accounts, session, locals
  <2>2. KeptFiles' = KeptFiles
    BY <2>1 DEF KeptFiles
  <2>3. Entries(KeptFiles)' = Entries(KeptFiles)
    BY <2>2 DEF Entries, Entry
  <2> QED BY <2>1, <2>3, SameAccounts DEF SameVault
<1> QED BY <1>1, <1>2, <1>3, <1>4, <1>5, <1>6, <1>7, OtherSteps DEF Vault!Next

(* The arrays implement the vault: for any names, groups and sizes of the    *)
(* arrays, every command is one step of it or none, the cleanup loop none at *)
(* all (users.c:16-93, auth.c:14-67, filesystem.c:35-196).                   *)
THEOREM VaultRefinement == Spec => ImplementsFileVault
<1>1. Init => Vault!Init /\ NumberInv /\ TargetGone
  <2> SUFFICES ASSUME Init PROVE Vault!Init /\ NumberInv /\ TargetGone
    OBVIOUS
  <2>1. users = <<Root>> /\ next_uid = 1001 /\ files = <<>> /\ current_uid = -1 /\ pc = "prompt"
    BY DEF Init
  <2>2. IInv
    BY InitInv
  <2>3. Existing = {Vault!Root}
    BY <2>1 DEF Existing, Root, Vault!Root
  <2>4. Issued = {0}
    BY <2>1 DEF Issued
  <2>5. Active = Vault!Nobody
    BY <2>1, <2>2, ActiveAccount DEF IInv
  <2>6. Entries(KeptFiles) = <<>>
    BY <2>1 DEF Entries, KeptFiles
  <2>7. Vault!Init
    BY <2>3, <2>4, <2>5, <2>6 DEF Vault!Init, Active, Existing, Issued, Entries, Entry
  <2> QED BY <2>1, <2>7 DEF NumberInv, TargetGone
<1>2. IInv /\ NumberInv /\ TargetGone /\ [Next]_vars => NumberInv' /\ TargetGone'
  BY NumberStep, TargetStep
<1>3. IInv /\ NumberInv /\ TargetGone /\ [Next]_vars => [Vault!Next]_(Vault!vars)
  BY NextRefines, SameVaultStutters
<1> QED BY <1>1, <1>2, <1>3, Invariance, PTL DEF Spec, ImplementsFileVault, Vault!Spec
=============================================================================
