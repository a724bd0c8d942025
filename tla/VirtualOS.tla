----------------------------- MODULE VirtualOS -----------------------------
(***************************************************************************)
(* The virtual operating system of "Task - 3": accounts (users.c), the     *)
(* session (auth.c), the file table (filesystem.c), the audit log          *)
(* (audit.c) and the command loop that drives them (final.c).              *)
(*                                                                         *)
(* users[] and files[] are sequences; totalUsers and totalFiles are their  *)
(* lengths.  One command is one action, except removeuser: its cleanup     *)
(* loop deletes from the table it walks through, so each turn is a step.   *)
(*                                                                         *)
(* A text is told by the user who typed it and by whether its bytes have   *)
(* been XORed with the key; a password by whether it is the right one.     *)
(* What scanf reads is assumed to fit its buffer, and audit.log to open.   *)
(* The tests of file_creation and file_write for texts longer than the     *)
(* buffers they were read into never fire then and are left out; a         *)
(* password can be longer than an account's field, and is rejected.        *)
(***************************************************************************)
EXTENDS Integers, SequencesExt, Selection

CONSTANTS
  Username,             \* the names that are typed, "root" among them
  Gid,                  \* the group ids that root assigns
  FileName,
  MaxUsers, MaxFiles,   \* MAX_USERS, MAX_FILES: the sizes of the arrays
  UidBound              \* bounds next_uid, hence how many accounts are made

\* Any integer: also -1, which stands for "nobody" in current_groupid.
ASSUME GidAssumption == Gid \subseteq Int
ASSUME NameAssumption == "root" \in Username
ASSUME SizeAssumption == MaxUsers \in Nat \ {0} /\ MaxFiles \in Nat /\ UidBound \in Nat

VARIABLES
  users, next_uid,
  files,
  current_uid, current_groupid,
  pc,                   \* "prompt", in the cleanup loop "purge", or "exit"
  target_uid, k,        \* the locals of user_delete
  reply                 \* how the last command ended and whom it put in the log

accounts == <<users, next_uid>>
session == <<current_uid, current_groupid>>
locals == <<pc, target_uid, k>>
vars == <<accounts, files, session, locals, reply>>

\* No user name: the command appends nothing to the log.
Unlogged == "-"

Account == [user_id : Nat, group_id : Gid \union {0}, username : Username]
File == [filename : FileName, author : Int, xored : BOOLEAN,
         owner_id : Int, group_id : Int, isEncrypted : BOOLEAN]
Outcome == {"done", "denied", "refused", "rejected", "full", "taken", "missing", "already", "garbled"}
Command == {"boot", "login", "logout", "adduser", "removeuser",
            "create", "read", "write", "delete", "encrypt", "dump"}

Answer == [command : Command, outcome : Outcome,
           logged : Username \union {"GUEST", "RISK", Unlogged}]

Root == [user_id |-> 0, group_id |-> 0, username |-> "root"]

Init ==
  /\ users = <<Root>> /\ next_uid = 1001
  /\ files = <<>>
  /\ current_uid = -1 /\ current_groupid = -1
  /\ pc = "prompt" /\ target_uid = -1 /\ k = 0
  /\ reply = [command |-> "boot", outcome |-> "done", logged |-> Unlogged]

\* The command ends: what became of it, and the user of its line in the log.
Reply(command, outcome, logged) ==
  reply' = [command |-> command, outcome |-> outcome, logged |-> logged]

\* The slots that the lookup of the session's account stops at.
Sessions == {i \in DOMAIN users : users[i].user_id = current_uid}

current_active_user ==
  IF Sessions = {} THEN "GUEST" ELSE users[Min(Sessions)].username

\* Slot i is the first with that name; no slot has it.
Finds(i, f) == files[i].filename = f /\ \A j \in 1..(i - 1) : files[j].filename # f
Missing(f) == \A j \in DOMAIN files : files[j].filename # f

\* The permissions that create gives to every file.
dynamic_mask == [owner |-> {"r", "w"}, group |-> {"r"}, others |-> {}]

ClassOf(file) ==
  IF current_uid = file.owner_id THEN "owner"
  ELSE IF current_groupid = file.group_id THEN "group" ELSE "others"

\* Mutated form of eval_permissions: the group is tested whatever the mode.
eval_permissionsAnyMode(file, mode) ==
  current_uid = 0 \/ mode \in dynamic_mask[ClassOf(file)] \/ current_groupid = file.group_id

eval_permissions(file, mode) ==
  current_uid = 0 \/ mode \in dynamic_mask[ClassOf(file)]
-----------------------------------------------------------------------------
(* auth.c *)

login_user ==
  /\ pc = "prompt"
  /\ \/ \E i \in DOMAIN users :
          /\ current_uid' = users[i].user_id
          /\ current_groupid' = users[i].group_id
          /\ Reply("login", "done", users[i].username)
     \/ /\ \E name \in Username : Reply("login", "refused", name)
        /\ UNCHANGED session
     \/ Reply("login", "rejected", "RISK") /\ UNCHANGED session
  /\ UNCHANGED <<accounts, files, locals>>

\* Mutated form of logout_user: the log line is written after the reset.
logout_userLogLate ==
  /\ pc = "prompt"
  /\ \/ current_uid = -1 /\ Reply("logout", "refused", Unlogged) /\ UNCHANGED session
     \/ /\ current_uid # -1
        /\ Reply("logout", "done", "GUEST")
        /\ current_uid' = -1 /\ current_groupid' = -1
  /\ UNCHANGED <<accounts, files, locals>>

\* Mutated form of logout_user: the group outlives the session.
logout_userGroupStays ==
  /\ pc = "prompt"
  /\ \/ current_uid = -1 /\ Reply("logout", "refused", Unlogged) /\ UNCHANGED session
     \/ /\ current_uid # -1
        /\ Reply("logout", "done", current_active_user)
        /\ current_uid' = -1 /\ UNCHANGED current_groupid
  /\ UNCHANGED <<accounts, files, locals>>

logout_user ==
  /\ pc = "prompt"
  /\ \/ current_uid = -1 /\ Reply("logout", "refused", Unlogged) /\ UNCHANGED session
     \/ /\ current_uid # -1
        /\ Reply("logout", "done", current_active_user)
        /\ current_uid' = -1 /\ current_groupid' = -1
  /\ UNCHANGED <<accounts, files, locals>>
-----------------------------------------------------------------------------
(* users.c *)

Taken(name) == \E i \in DOMAIN users : users[i].username = name

\* Mutated form of NewUid: numbered by the slot, as in an array without removals.
NewUidBySlot == 1000 + Len(users)

NewUid == next_uid

user_create(name, gid) ==
  /\ pc = "prompt"
  /\ \/ /\ current_uid # 0
        /\ Reply("adduser", "denied", current_active_user)
        /\ UNCHANGED accounts
     \/ /\ current_uid = 0
        /\ \/ Reply("adduser", "rejected", Unlogged)
           \/ Len(users) >= MaxUsers /\ Reply("adduser", "full", Unlogged)
           \/ Len(users) < MaxUsers /\ Taken(name) /\ Reply("adduser", "taken", Unlogged)
        /\ UNCHANGED accounts
     \/ /\ current_uid = 0
        /\ Len(users) < MaxUsers /\ ~Taken(name)
        /\ next_uid < UidBound
        /\ users' = Append(users, [user_id |-> NewUid, group_id |-> gid, username |-> name])
        /\ next_uid' = next_uid + 1
        /\ Reply("adduser", "done", "root")
  /\ UNCHANGED <<files, session, locals>>

\* Mutated form of LastFile: counted from 0 in a table that starts at 1.
LastFileShort == Len(files) - 1

\* The cleanup loop starts here and goes backwards.
LastFile == Len(files)

\* Mutated form of Removable: root is removed like any other account.
RemovableAll(name) == Taken(name)

Removable(name) == name # "root" /\ Taken(name)

user_delete(name) ==
  /\ pc = "prompt"
  /\ \/ /\ \/ current_uid # 0 /\ Reply("removeuser", "denied", current_active_user)
           \/ /\ current_uid = 0 /\ ~Removable(name)
              /\ Reply("removeuser", IF name = "root" THEN "refused" ELSE "missing", Unlogged)
        /\ UNCHANGED <<users, locals>>
     \/ /\ current_uid = 0 /\ Removable(name)
        /\ \E i \in DOMAIN users :
             /\ users[i].username = name
             /\ target_uid' = users[i].user_id
             /\ users' = RemoveAt(users, i)
        /\ pc' = "purge" /\ k' = LastFile
        /\ UNCHANGED reply
  /\ UNCHANGED <<next_uid, files, session>>

\* Mutated form of Purge: the loop runs forwards over the shifting table.
PurgeForwards ==
  /\ pc = "purge" /\ k > 0
  /\ LET i == Len(files) - k + 1 IN
       IF i \in DOMAIN files /\ files[i].owner_id = target_uid
         THEN files' = RemoveAt(files, i) /\ k' = k - 2
         ELSE UNCHANGED files /\ k' = k - 1
  /\ UNCHANGED <<accounts, session, pc, target_uid, reply>>

\* One turn of the cleanup loop, on slot k.
Purge ==
  /\ pc = "purge" /\ k > 0
  /\ IF files[k].owner_id = target_uid THEN files' = RemoveAt(files, k) ELSE UNCHANGED files
  /\ k' = k - 1
  /\ UNCHANGED <<accounts, session, pc, target_uid, reply>>

\* Mutated form of user_deleteReturn: the removal leaves no line in the log.
user_deleteReturnSilent ==
  /\ pc = "purge" /\ k = 0
  /\ Reply("removeuser", "done", Unlogged)
  /\ pc' = "prompt" /\ target_uid' = -1
  /\ UNCHANGED <<accounts, files, session, k>>

user_deleteReturn ==
  /\ pc = "purge" /\ k = 0
  /\ Reply("removeuser", "done", "root")
  /\ pc' = "prompt" /\ target_uid' = -1
  /\ UNCHANGED <<accounts, files, session, k>>
-----------------------------------------------------------------------------
(* filesystem.c *)

\* The commands that leave the tables alone: only the reply tells of them.
ReplyOnly(command, outcome, logged) ==
  Reply(command, outcome, logged) /\ UNCHANGED <<accounts, files, session, locals>>

\* Mutated form of DiskFull: one file too many.
DiskFullLate == Len(files) > MaxFiles

DiskFull == Len(files) >= MaxFiles

file_creation(f) ==
  /\ pc = "prompt"
  /\ \/ current_uid = -1 /\ ReplyOnly("create", "denied", "GUEST")
     \/ current_uid # -1 /\ DiskFull /\ ReplyOnly("create", "full", Unlogged)
     \/ /\ current_uid # -1 /\ ~DiskFull
        /\ files' = Append(files,
             [filename |-> f, author |-> current_uid, xored |-> FALSE,
              owner_id |-> current_uid, group_id |-> current_groupid, isEncrypted |-> FALSE])
        /\ Reply("create", "done", current_active_user)
        /\ UNCHANGED <<accounts, session, locals>>

\* Reading an encrypted file XORs the text once more on the way out.
Shown(file) == IF file.isEncrypted THEN ~file.xored ELSE file.xored

file_read(f) ==
  /\ pc = "prompt"
  /\ \/ Missing(f) /\ ReplyOnly("read", "missing", Unlogged)
     \/ \E i \in DOMAIN files :
          /\ Finds(i, f)
          /\ \/ /\ ~eval_permissions(files[i], "r")
                /\ ReplyOnly("read", "denied", current_active_user)
             \/ /\ eval_permissions(files[i], "r")
                /\ ReplyOnly("read", IF Shown(files[i]) THEN "garbled" ELSE "done",
                             current_active_user)

\* Mutated form of Overwritten: the flag of the old text stays.
OverwrittenFlagKept(file) ==
  [file EXCEPT !.author = current_uid, !.xored = FALSE]

Overwritten(file) ==
  [file EXCEPT !.author = current_uid, !.xored = FALSE, !.isEncrypted = FALSE]

file_write(f) ==
  /\ pc = "prompt"
  /\ \/ Missing(f) /\ ReplyOnly("write", "missing", Unlogged)
     \/ \E i \in DOMAIN files :
          /\ Finds(i, f)
          /\ \/ /\ ~eval_permissions(files[i], "w")
                /\ ReplyOnly("write", "denied", current_active_user)
             \/ /\ eval_permissions(files[i], "w")
                /\ files' = [files EXCEPT ![i] = Overwritten(files[i])]
                /\ Reply("write", "done", current_active_user)
                /\ UNCHANGED <<accounts, session, locals>>

\* Mutated form of MayDelete: a member of the owner's group may delete.
MayDeleteGroup(file) == current_uid = 0 \/ current_groupid = file.group_id

MayDelete(file) == current_uid \in {0, file.owner_id}

file_delete(f) ==
  /\ pc = "prompt"
  /\ \/ Missing(f) /\ ReplyOnly("delete", "missing", Unlogged)
     \/ \E i \in DOMAIN files :
          /\ Finds(i, f)
          /\ \/ /\ ~MayDelete(files[i])
                /\ ReplyOnly("delete", "denied", current_active_user)
             \/ /\ MayDelete(files[i])
                /\ files' = RemoveAt(files, i)
                /\ Reply("delete", "done", current_active_user)
                /\ UNCHANGED <<accounts, session, locals>>

Encrypted(file) == [file EXCEPT !.xored = ~file.xored, !.isEncrypted = TRUE]

file_encrypt(f) ==
  /\ pc = "prompt"
  /\ \/ Missing(f) /\ ReplyOnly("encrypt", "missing", Unlogged)
     \/ \E i \in DOMAIN files :
          /\ Finds(i, f)
          /\ \/ /\ ~eval_permissions(files[i], "w")
                /\ ReplyOnly("encrypt", "denied", current_active_user)
             \/ /\ eval_permissions(files[i], "w") /\ files[i].isEncrypted
                /\ ReplyOnly("encrypt", "already", Unlogged)
             \/ /\ eval_permissions(files[i], "w") /\ ~files[i].isEncrypted
                /\ files' = [files EXCEPT ![i] = Encrypted(files[i])]
                /\ Reply("encrypt", "done", current_active_user)
                /\ UNCHANGED <<accounts, session, locals>>
-----------------------------------------------------------------------------
(* final.c *)

raw_mem ==
  /\ pc = "prompt"
  /\ \/ current_uid # 0 /\ ReplyOnly("dump", "denied", current_active_user)
     \/ current_uid = 0 /\ ReplyOnly("dump", "done", Unlogged)

\* exit, or the end of the input.
Exit ==
  /\ pc = "prompt" /\ pc' = "exit"
  /\ UNCHANGED <<accounts, files, session, target_uid, k, reply>>

Exited == pc = "exit" /\ UNCHANGED vars

Next ==
  \/ login_user \/ logout_user
  \/ \E name \in Username : user_delete(name) \/ \E gid \in Gid : user_create(name, gid)
  \/ Purge \/ user_deleteReturn
  \/ \E f \in FileName : \/ file_creation(f) \/ file_read(f) \/ file_write(f)
                         \/ file_delete(f) \/ file_encrypt(f)
  \/ raw_mem \/ Exit \/ Exited

Spec == Init /\ [][Next]_vars
-----------------------------------------------------------------------------
(* Type correctness; the tables never outgrow their arrays. *)
TypeOK ==
  /\ users \in Seq(Account) /\ Len(users) \in 1..MaxUsers
  /\ next_uid \in Nat
  /\ files \in Seq(File) /\ Len(files) \in 0..MaxFiles
  /\ current_uid \in Int /\ current_groupid \in Int
  /\ pc \in {"prompt", "purge", "exit"}
  /\ target_uid \in Int
  /\ k \in 0..Len(files)
  /\ reply \in Answer

(* No name and no uid belongs to two accounts, not even after removals and   *)
(* new accounts in any order, and root keeps the first slot                  *)
(* (users.c:27-37: the duplicate test and the counter; users.c:54: no        *)
(* removal of root).                                                         *)
UniqueAccounts ==
  /\ users[1] = Root
  /\ \A i \in DOMAIN users : users[i].user_id < next_uid
  /\ \A i, j \in DOMAIN users :
       i # j => /\ users[i].username # users[j].username
                /\ users[i].user_id # users[j].user_id

(* The session is nobody's (both ids -1), or that of an account that still   *)
(* exists, in the group that account has: no removal pulls an account from   *)
(* under its session, no logout leaves half of it (auth.c:62-63).            *)
SessionIsLive ==
  \/ current_uid = -1 /\ current_groupid = -1
  \/ \E i \in DOMAIN users :
       current_uid = users[i].user_id /\ current_groupid = users[i].group_id

HasOwner(file) ==
  \E i \in DOMAIN users : file.owner_id = users[i].user_id /\ file.group_id = users[i].group_id

(* Every file belongs to an account that exists, with that account's group;  *)
(* while an account is being removed its files lie in the slots that the     *)
(* backward loop of users.c:72 has yet to visit.                             *)
FilesOwned ==
  \A n \in DOMAIN files :
    \/ HasOwner(files[n])
    \/ pc = "purge" /\ n <= k /\ files[n].owner_id = target_uid

(* Whatever sequence of write and encrypt went before, a read that is        *)
(* permitted shows the text as it was typed (filesystem.c:88-97).            *)
ReadsAreClear == reply.outcome # "garbled"

(* The text of a file was typed by its owner or by root: the group shares it *)
(* for reading only (final.c:57-60, filesystem.c:6-33).                      *)
TextByOwner ==
  \A n \in DOMAIN files : files[n].author \in {0, files[n].owner_id}

(* A file of somebody else keeps its text and its flag, whoever is logged in *)
(* except root; it stays in its slot or moves one slot down when a deletion  *)
(* closes a gap before it (filesystem.c:151-155).                            *)
OthersFilesKept ==
  [][\A n \in DOMAIN files :
       current_uid \notin {0, files[n].owner_id} =>
         \/ n \in DOMAIN files' /\ files'[n] = files[n]
         \/ n > 1 /\ files'[n - 1] = files[n]]_vars

\* A file that counts as one of nobody's group.
HasNobodysFile == \E n \in DOMAIN files : files[n].group_id = -1 /\ HasOwner(files[n])

(* Without a session every command but login and logout is denied or finds   *)
(* nothing, whoever was logged in before: both ids are -1 then               *)
(* (auth.c:66-67).  The one exception is a read: root may give an account    *)
(* the group -1 (final.c:46-48, users.c:38), and a file of such an account,  *)
(* while it exists, counts as one of the reader's group                      *)
(* (filesystem.c:21-22).                                                     *)
GuestsOnlyRead ==
  current_uid = -1 /\ reply.command \notin {"boot", "login", "logout"} =>
    \/ reply.outcome \in {"denied", "missing"}
    \/ reply.command = "read" /\ HasNobodysFile

(* Apart from login, whose line names the user who was typed, a line of the  *)
(* log names the user of the session that gave the command (auth.c:61-67     *)
(* reads it before the ids are reset, users.c:44,91 write "root" outright).  *)
(* And nothing changes behind the log's back: a command that has changed an  *)
(* account or a file ends with such a line, the removal of an account when   *)
(* its last file is gone (users.c:69-91, filesystem.c:35-196).               *)
LogNamesTheSession ==
  [][/\ reply' # reply /\ reply'.command # "login" /\ reply'.logged # Unlogged
          => reply'.logged = current_active_user
     /\ \/ pc = "prompt" /\ pc' = "prompt" /\ <<users, files>>' # <<users, files>>
        \/ pc = "purge" /\ pc' = "prompt"
          => reply'.outcome = "done" /\ reply'.logged = current_active_user]_vars

\* While an account's files are being purged they are gone for the user.
KeptFiles ==
  IF pc = "purge" THEN Selected(files, {n \in DOMAIN files : files[n].owner_id # target_uid})
                  ELSE files

Vault == INSTANCE FileVault WITH
  accounts <- {users[i] : i \in DOMAIN users},
  issued <- {0} \union 1001..(next_uid - 1),
  user <- IF Sessions = {} THEN [user_id |-> -1, group_id |-> -1, username |-> "GUEST"]
                           ELSE users[Min(Sessions)],
  vault <- [n \in DOMAIN KeptFiles |->
              [filename |-> KeptFiles[n].filename, author |-> KeptFiles[n].author,
               isEncrypted |-> KeptFiles[n].isEncrypted,
               owner_id |-> KeptFiles[n].owner_id, group_id |-> KeptFiles[n].group_id]]

(* The arrays, the shifting and the backward cleanup loop implement the      *)
(* abstract vault: account and files of a removed user vanish in one step,   *)
(* only owner and root rewrite, encrypt or erase, and by name they reach the *)
(* oldest file (users.c:59-93, filesystem.c:35-196).                         *)
ImplementsFileVault == Vault!Spec

(* README.md:219: "every login, file operation, and permission decision is   *)
(* appended to audit.log".  Here: a file command that got as far as deciding *)
(* on a permission has put a line in the log.                                *)
DecisionsAreLogged ==
  reply.command \in {"read", "write", "delete", "encrypt"} /\ reply.outcome # "missing"
    => reply.logged # Unlogged
=============================================================================
