----------------------------- MODULE FileVault -----------------------------
(***************************************************************************)
(* What the virtual operating system promises: accounts with identities    *)
(* that are never given out twice, and a vault of files, oldest first.  A  *)
(* file belongs to the account that stored it; that account and root, and  *)
(* nobody else, rewrite, encrypt or erase it, and it leaves the vault with *)
(* its account, all of the account's files at once.                        *)
(***************************************************************************)
EXTENDS Integers, SequencesExt, Selection

CONSTANTS Username, Gid, FileName

VARIABLES
  accounts,             \* the accounts that exist
  issued,               \* the identities given out so far
  user,                 \* the account that is logged in, or Nobody
  vault                 \* the files

vars == <<accounts, issued, user, vault>>

Root == [user_id |-> 0, group_id |-> 0, username |-> "root"]
Nobody == [user_id |-> -1, group_id |-> -1, username |-> "GUEST"]

Init == accounts = {Root} /\ issued = {0} /\ user = Nobody /\ vault = <<>>

LogIn == user' \in accounts /\ UNCHANGED <<accounts, issued, vault>>
LogOut == user' = Nobody /\ UNCHANGED <<accounts, issued, vault>>

Open ==
  /\ user = Root
  /\ \E a \in accounts' :
       /\ a.user_id \notin issued /\ a.group_id \in Gid
       /\ a.username \in Username \ {b.username : b \in accounts}
       /\ accounts' = accounts \union {a}
       /\ issued' = issued \union {a.user_id}
  /\ UNCHANGED <<user, vault>>

Close(a) ==
  /\ user = Root /\ a # Root
  /\ accounts' = accounts \ {a}
  /\ vault' = Selected(vault, {n \in DOMAIN vault : vault[n].owner_id # a.user_id})
  /\ UNCHANGED <<issued, user>>

Store(f) ==
  /\ user # Nobody
  /\ vault' = Append(vault, [filename |-> f, author |-> user.user_id, isEncrypted |-> FALSE,
                             owner_id |-> user.user_id, group_id |-> user.group_id])
  /\ UNCHANGED <<accounts, issued, user>>

\* A name stands for the oldest file that has it.
Masters(i) ==
  /\ user = Root \/ user.user_id = vault[i].owner_id
  /\ \A j \in 1..(i - 1) : vault[j].filename # vault[i].filename

Rewrite(i) ==
  /\ Masters(i)
  /\ vault' = [vault EXCEPT ![i].author = user.user_id, ![i].isEncrypted = FALSE]
  /\ UNCHANGED <<accounts, issued, user>>

Encrypt(i) ==
  /\ Masters(i)
  /\ vault' = [vault EXCEPT ![i].isEncrypted = TRUE]
  /\ UNCHANGED <<accounts, issued, user>>

Erase(i) ==
  /\ Masters(i)
  /\ vault' = RemoveAt(vault, i)
  /\ UNCHANGED <<accounts, issued, user>>

Next ==
  \/ LogIn \/ LogOut \/ Open \/ \E a \in accounts : Close(a)
  \/ \E f \in FileName : Store(f)
  \/ \E i \in DOMAIN vault : Rewrite(i) \/ Encrypt(i) \/ Erase(i)

Spec == Init /\ [][Next]_vars
=============================================================================
