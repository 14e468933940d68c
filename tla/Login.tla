------------------------------- MODULE Login --------------------------------
(***************************************************************************)
(* The login dialogue of CKernel: the keys of KeyPressedHandler are        *)
(* collected by LoginInput and every Enter runs commenceLogin, in the      *)
(* interrupt that delivers the key.  _OffBoot says what is asked for.      *)
(*                                                                         *)
(* On the card there are the directories below SD:/users, the desktop      *)
(* directories in them and the password files.  An empty user name stands  *)
(* for SD:/users itself, which FatFs makes of SD:/users//.  Escape         *)
(* sequences change nothing and are left out.                              *)
(***************************************************************************)
EXTENDS Naturals, Sequences, FiniteSets, SequencesExt

CONSTANTS
  Char,       \* the characters typed
  Accounts,   \* the users on the card at first, with their passwords
  Rest,       \* what the unset rest of Buffer may hold behind the password
  MaxLen,     \* bound on the length of a text typed
  MaxUsers    \* bound on the number of users

Text == UNION {[1..n -> Char] : n \in 0..MaxLen}
Yes == {<<"y">>, <<"y", "e", "s">>}
No == {<<"n">>, <<"n", "o">>}

ASSUME LoginAssumption ==
  /\ MaxLen \in Nat /\ MaxUsers \in Nat
  /\ <<>> \notin DOMAIN Accounts

VARIABLES
  offBoot,        \* _OffBoot
  input,          \* _inputUsername, _userResponse and _inputPassword
  userNameMatch,  \* _UserNameMatch
  users,          \* the directories below SD:/users
  desktops,       \* the users with a desktop directory
  secrets,        \* the password files and what they hold
  at,             \* the current directory of FatFs
  cardFailed      \* history: an operation on the card has failed since the boot

vars == <<offBoot, input, userNameMatch, users, desktops, secrets, at, cardFailed>>
cardVars == <<users, desktops, secrets>>

\* The values of _OffBoot; the code has numbers for all but the last, the
\* halt after a panic.
Asked == {"name", "create", "password", "newName", "newPassword", "shell", "halted"}

Buffers == {"name", "answer", "password"}
BufferOf(o) ==
  CASE o \in {"name", "newName"} -> "name"
    [] o = "create" -> "answer"
    [] o \in {"password", "newPassword"} -> "password"
Dialogue == Asked \ {"shell", "halted"}
Name == input["name"]

TypeOK ==
  /\ offBoot \in Asked
  /\ input \in [Buffers -> Text]
  /\ userNameMatch \in BOOLEAN
  /\ users \subseteq Text \ {<<>>}
  /\ desktops \subseteq users \cup {<<>>}
  /\ DOMAIN secrets \subseteq users \cup {<<>>}
  /\ \A u \in DOMAIN secrets : secrets[u] \in Text
  /\ at \in {"root", "home", "desktop"}
  /\ cardFailed \in BOOLEAN

Init ==
  /\ offBoot = "name"
  /\ input = [b \in Buffers |-> <<>>]
  /\ userNameMatch = FALSE
  /\ users = DOMAIN Accounts
  /\ desktops = {}
  /\ secrets = Accounts
  /\ at = "root"
  /\ cardFailed = FALSE

\* A character or a backspace; a backspace on an empty buffer writes a NUL
\* in front of it, over a byte that is 0 in any layout of these variables.
TypeKey(c) ==
  /\ offBoot \in Dialogue
  /\ Len(input[BufferOf(offBoot)]) < MaxLen
  /\ input' = [input EXCEPT ![BufferOf(offBoot)] = Append(@, c)]
  /\ UNCHANGED <<offBoot, userNameMatch, users, desktops, secrets, at, cardFailed>>

Backspace ==
  /\ offBoot \in Dialogue
  /\ input[BufferOf(offBoot)] # <<>>
  /\ input' = [input EXCEPT ![BufferOf(offBoot)] = Front(@)]
  /\ UNCHANGED <<offBoot, userNameMatch, users, desktops, secrets, at, cardFailed>>

Ask(o) == offBoot' = o
Forget(buffer) == input' = [input EXCEPT ![buffer] = <<>>]

\* The search ends silently at the first f_findfirst or f_findnext that fails;
\* a user who was not met until then is taken for one who does not exist.
CheckName(fault) ==
  /\ offBoot = "name"
  /\ \/ userNameMatch' = (userNameMatch \/ Name \in users)
     \/ fault /\ UNCHANGED userNameMatch
  /\ IF userNameMatch' THEN Ask("password") /\ UNCHANGED input
                       ELSE Ask("create") /\ Forget("name")
  /\ UNCHANGED <<users, desktops, secrets, at>>

\* A mutant: the answer is not cleared.
BugCheckAnswer ==
  /\ offBoot = "create"
  /\ \/ input["answer"] \in No /\ Ask("name")
     \/ input["answer"] \in Yes /\ Ask("newName")
     \/ input["answer"] \notin No \cup Yes /\ UNCHANGED offBoot
  /\ UNCHANGED <<input, userNameMatch, users, desktops, secrets, at, cardFailed>>

CheckAnswer ==
  /\ offBoot = "create"
  /\ \/ input["answer"] \in No /\ Ask("name")
     \/ input["answer"] \in Yes /\ Ask("newName")
     \/ input["answer"] \notin No \cup Yes /\ UNCHANGED offBoot
  /\ Forget("answer")
  /\ UNCHANGED <<userNameMatch, users, desktops, secrets, at, cardFailed>>

\* A path SD:/users/<u>/<u>.txt leads somewhere; SD:/users/ alone does not.
Home(u) == u = <<>> \/ u \in users

\* f_chdir to the desktop, or to the user, then EditUserName, which takes the
\* desktop for the directory of the shell whatever f_chdir said.
EnterShell(desks, fault) ==
  /\ Ask("shell")
  /\ \/ Name \in desks /\ at' = "desktop"
     \/ /\ Name \notin desks \/ fault
        /\ \/ Name \in users /\ at' = "home"
           \/ (Name \notin users \/ fault) /\ UNCHANGED at
  /\ UNCHANGED <<input, userNameMatch, users>>

\* A mutant: the login does not make the desktop first.
BugCheckPassword(fault) ==
  /\ offBoot = "password"
  /\ Name \in DOMAIN secrets /\ input["password"] = secrets[Name]
  /\ EnterShell(desktops, fault)
  /\ UNCHANGED <<desktops, secrets>>

\* Buffer is compared up to its first NUL, which no read puts there; if the
\* file is not read at all, Buffer holds only what was there before.
Right(fault) ==
  \E rest \in Rest :
    \/ Name \in DOMAIN secrets /\ input["password"] = secrets[Name] \o rest
    \/ (Name \notin DOMAIN secrets \/ fault) /\ input["password"] = rest
Wrong(fault) ==
  \E rest \in Rest :
    \/ Name \in DOMAIN secrets /\ input["password"] # secrets[Name] \o rest
    \/ (Name \notin DOMAIN secrets \/ fault) /\ input["password"] # rest

CheckPassword(fault) ==
  /\ offBoot = "password"
  /\ \/ /\ Right(fault)
        /\ \/ desktops' = desktops \cup {Name}
           \/ fault /\ desktops' = desktops
        /\ EnterShell(desktops', fault)
     \/ /\ Wrong(fault)
        /\ Forget("password")
        /\ UNCHANGED <<offBoot, userNameMatch, users, desktops, at>>
  /\ UNCHANGED secrets

\* A mutant: the directory of the user itself is not made.
BugMakeUser(fault) ==
  /\ offBoot = "newName"
  /\ desktops' = desktops \cup {Name}
  /\ Ask("newPassword")
  /\ UNCHANGED <<input, userNameMatch, users, secrets, at>>

\* mkdir of the user, of its documents and of its desktop; what fails is
\* reported and the dialogue goes on.
MakeUser(fault) ==
  /\ offBoot = "newName"
  /\ Cardinality(users \cup {Name}) <= MaxUsers
  /\ \/ users' = users \cup ({Name} \ {<<>>})
     \/ fault /\ users' = users
  /\ \/ Name \in users' \cup {<<>>} /\ desktops' = desktops \cup {Name}
     \/ (Name \notin users' \cup {<<>>} \/ fault) /\ desktops' = desktops
  /\ Ask("newPassword")
  /\ UNCHANGED <<input, userNameMatch, secrets, at>>

Put(u, text) == [v \in DOMAIN secrets \cup {u} |-> IF v = u THEN text ELSE secrets[v]]

\* A failure leaves the file as it was, or truncated, or written in part,
\* and asks for nothing: the next Enter tries again.
StorePassword(fault) ==
  /\ offBoot = "newPassword"
  /\ \/ /\ Home(Name)
        /\ secrets' = Put(Name, input["password"])
        /\ EnterShell(desktops, fault)
     \/ /\ ~Home(Name) \/ fault
        /\ \/ UNCHANGED secrets
           \/ /\ Home(Name)
              /\ \E n \in 0..Len(input["password"]) : secrets' = Put(Name, SubSeq(input["password"], 1, n))
        /\ UNCHANGED <<offBoot, input, userNameMatch, users, at>>
  /\ UNCHANGED desktops

\* commenceLogin begins with f_mkdir (SD:/users) and panics if that fails.
Panic ==
  /\ offBoot \in Dialogue
  /\ Ask("halted")
  /\ cardFailed' = TRUE
  /\ UNCHANGED <<input, userNameMatch, users, desktops, secrets, at>>

\* fault: whether the operations of this step may fail.
CardStep(fault) ==
  /\ CheckName(fault) \/ CheckPassword(fault) \/ MakeUser(fault) \/ StorePassword(fault)
  /\ cardFailed' = (cardFailed \/ fault)

Enter == CheckAnswer \/ \E fault \in BOOLEAN : CardStep(fault)

\* Power is cut, or the system is rebooted: the card stays.
Restart ==
  /\ offBoot' = "name"
  /\ input' = [b \in Buffers |-> <<>>]
  /\ userNameMatch' = FALSE
  /\ at' = "root"
  /\ cardFailed' = FALSE
  /\ UNCHANGED cardVars

Next == (\E c \in Char : TypeKey(c)) \/ Backspace \/ Enter \/ Panic \/ Restart

Spec == Init /\ [][Next]_vars

-----------------------------------------------------------------------------
(* Properties.                                                              *)

\* Whatever Enter leads to, the answer to the question now asked is typed
\* into an empty buffer: nothing of an earlier question or of a refused
\* answer is left in it, as long as the card works.
PromptStartsEmpty ==
  [][Enter /\ ~cardFailed' /\ offBoot' \in Dialogue => input'[BufferOf(offBoot')] = <<>>]_vars

\* The shell starts in the directory it shows, the desktop that EditUserName
\* names, as long as the card works.
SessionInDesktop == offBoot = "shell" /\ ~cardFailed => at = "desktop"

\* Once a user name is accepted the dialogue can be finished: the password
\* of an existing user is asked for, even after faults, and that of a new
\* user can be stored.
CanFinish ==
  /\ offBoot = "password" => Name \in users
  /\ offBoot = "newPassword" /\ ~cardFailed => Home(Name)
=============================================================================
