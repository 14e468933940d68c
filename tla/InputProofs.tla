----------------------------- MODULE InputProofs -----------------------------
(***************************************************************************)
(* Proofs about what the interrupt of a key runs: the keyboard (Keyboard), *)
(* which gets its reports, the login dialogue (Login) and the shell        *)
(* (Shell), for any keys, users, directories, parameters and bounds.  The  *)
(* three have no variable in common, so that one module extends them all.  *)
(***************************************************************************)
EXTENDS Login, Keyboard, Shell, FiniteSetTheorems, WellFoundedInduction, TLAPS

-----------------------------------------------------------------------------
(* Folds: tlapm knows their definition and no induction over data, but a    *)
(* set of numbers without a least element is empty (WFMin), which is enough *)
(* to show that a fold over a sequence has a solution and runs along it.    *)

\* The numbers are well-founded.
LEMMA LessWF == IsWellFoundedOn({ss \in Nat \X Nat : ss[1] < ss[2]}, Nat)
  BY NatLessThanWellFounded DEF OpToRel

\* Induction over numbers: a set has all of them that has 0 and each next one.
LEMMA Induction ==
  ASSUME NEW S, 0 \in S, \A n \in Nat : n \in S => n + 1 \in S
  PROVE  Nat \subseteq S
<1> SUFFICES ASSUME Nat \ S # {} PROVE FALSE
  OBVIOUS
<1> DEFINE R == {ss \in Nat \X Nat : ss[1] < ss[2]}
<1>1. IsWellFoundedOn(R, Nat) /\ Nat \ S \subseteq Nat
  BY LessWF
<1> HIDE DEF R
<1>2. \E x \in Nat \ S : \A y \in Nat \ S : <<y, x>> \notin R
  BY <1>1, WFMin
<1>3. PICK x \in Nat \ S : \A y \in Nat \ S : <<y, x>> \notin R
  BY <1>2
<1>4. \A y \in Nat \ S : ~(y < x)
  BY <1>3 DEF R
<1>5. x # 0 /\ x - 1 \in Nat /\ x - 1 < x /\ (x - 1) + 1 = x
  OBVIOUS
<1> QED
  BY <1>4, <1>5

\* The last of some positions, as a fold chooses it.
Latest(S) == CHOOSE x \in S : \A y \in S : x >= y

LEMMA LatestIs == ASSUME NEW S \in SUBSET Int, NEW x \in S, \A y \in S : x >= y PROVE Latest(S) = x
<1>1. \A y \in S : (\A z \in S : y >= z) => y = x
  OBVIOUS
<1> QED
  BY <1>1 DEF Latest

LEMMA LatestOfInterval ==
  ASSUME NEW i \in Nat
  PROVE  /\ 1 .. (i + 1) # {} /\ Latest(1 .. (i + 1)) = i + 1
         /\ (1 .. (i + 1)) \ {i + 1} = 1 .. i
<1>1. 1 .. (i + 1) \in SUBSET Int /\ i + 1 \in 1 .. (i + 1) /\ \A y \in 1 .. (i + 1) : i + 1 >= y
  OBVIOUS
<1>2. Latest(1 .. (i + 1)) = i + 1
  BY <1>1, LatestIs
<1> QED
  BY <1>1, <1>2

\* g solves the recursion of a fold over the first k elements of s.
Solves(g, F, base, s, k) ==
  \A t \in SUBSET (1 .. k) :
    /\ t # {} => Latest(t) \in t
    /\ g[t] = IF t = {} THEN base ELSE F[<<g[t \ {Latest(t)}], s[Latest(t)]>>]

LEMMA FoldExists ==
  ASSUME NEW T, NEW V, NEW F \in [T \X V -> T], NEW base \in T, NEW n \in Nat, NEW s \in [1 .. n -> V]
  PROVE  \E g \in [SUBSET (1 .. n) -> T] : Solves(g, F, base, s, n)
<1> DEFINE Solvable(k) == k <= n => \E g \in [SUBSET (1 .. k) -> T] : Solves(g, F, base, s, k)
           S == {k \in Nat : Solvable(k)}
<1>1. Solvable(0)
  <2>1. [t \in SUBSET (1 .. 0) |-> base] \in [SUBSET (1 .. 0) -> T]
    OBVIOUS
  <2>2. 1 .. 0 = {} /\ \A t \in SUBSET (1 .. 0) : t = {}
    OBVIOUS
  <2>3. Solves([t \in SUBSET (1 .. 0) |-> base], F, base, s, 0)
    BY <2>2 DEF Solves
  <2> QED
    BY <2>1, <2>3
<1>2. ASSUME NEW k \in Nat, Solvable(k) PROVE Solvable(k + 1)
  <2> SUFFICES ASSUME k + 1 <= n PROVE \E g \in [SUBSET (1 .. (k + 1)) -> T] : Solves(g, F, base, s, k + 1)
    OBVIOUS
  <2>0. k <= n
    OBVIOUS
  <2>1. PICK h \in [SUBSET (1 .. k) -> T] : Solves(h, F, base, s, k)
    BY <1>2, <2>0
  <2> DEFINE g == [t \in SUBSET (1 .. (k + 1)) |->
                     IF k + 1 \in t THEN F[<<h[t \ {k + 1}], s[k + 1]>>] ELSE h[t]]
  <2>2. \A t \in SUBSET (1 .. (k + 1)) :
           /\ t \ {k + 1} \in SUBSET (1 .. k)
           /\ k + 1 \notin t => t \in SUBSET (1 .. k)
           /\ k + 1 \in t => Latest(t) = k + 1
    <3> TAKE t \in SUBSET (1 .. (k + 1))
    <3>1. k + 1 \in t => Latest(t) = k + 1
      <4> SUFFICES ASSUME k + 1 \in t PROVE Latest(t) = k + 1
        OBVIOUS
      <4>1. t \in SUBSET Int /\ \A y \in t : k + 1 >= y
        OBVIOUS
      <4> QED
        BY <4>1, LatestIs
    <3> QED
      BY <3>1
  <2>3. s[k + 1] \in V
    OBVIOUS
  <2>4. g \in [SUBSET (1 .. (k + 1)) -> T]
    BY <2>2, <2>3
  <2>5. ASSUME NEW t \in SUBSET (1 .. (k + 1))
        PROVE  /\ t # {} => Latest(t) \in t
               /\ g[t] = IF t = {} THEN base ELSE F[<<g[t \ {Latest(t)}], s[Latest(t)]>>]
    <3>1. CASE k + 1 \in t
      <4>1. Latest(t) = k + 1 /\ t \ {k + 1} \in SUBSET (1 .. (k + 1)) /\ k + 1 \notin t \ {k + 1}
        BY <2>2, <3>1
      <4>2. g[t \ {k + 1}] = h[t \ {k + 1}]
        BY <4>1
      <4>3. g[t] = F[<<h[t \ {k + 1}], s[k + 1]>>]
        BY <3>1
      <4> QED
        BY <3>1, <4>1, <4>2, <4>3
    <3>2. CASE k + 1 \notin t
      <4>1. t \in SUBSET (1 .. k) /\ g[t] = h[t]
        BY <2>2, <3>2
      <4>2. /\ t # {} => Latest(t) \in t
            /\ h[t] = IF t = {} THEN base ELSE F[<<h[t \ {Latest(t)}], s[Latest(t)]>>]
        BY <2>1, <4>1 DEF Solves
      <4>3. g[t \ {Latest(t)}] = h[t \ {Latest(t)}]
        BY <3>2
      <4> QED
        BY <4>1, <4>2, <4>3
    <3> QED
      BY <3>1, <3>2
  <2> HIDE DEF g
  <2> QED
    BY <2>4, <2>5 DEF Solves
<1>3. Nat \subseteq S
  <2> HIDE DEF Solvable
  <2>1. 0 \in S /\ \A k \in Nat : k \in S => k + 1 \in S
    BY <1>1, <1>2
  <2> HIDE DEF S
  <2> QED
    BY <2>1, Induction
<1>4. Solvable(n)
  <2> HIDE DEF Solvable
  <2> QED
    BY <1>3
<1>5. n <= n
  OBVIOUS
<1> QED
  BY <1>4, <1>5, Zenon

\* The solution, at the first elements, and the run of the fold.
StepsOf(It, T, F, base, s, n) ==
  /\ It[1 .. 0] = base
  /\ \A i \in 0 .. (n - 1) : It[1 .. i] \in T => It[1 .. (i + 1)] = F[<<It[1 .. i], s[i + 1]>>]

RunOf(acc, It, F, base, s, n) ==
  /\ acc[0] = base /\ acc[n] = It[1 .. n]
  /\ \A i \in 0 .. (n - 1) : acc[i + 1] = F[<<acc[i], s[i + 1]>>]

LEMMA FoldRuns ==
  ASSUME NEW T, NEW V, NEW F \in [T \X V -> T], NEW base \in T, NEW n \in Nat, NEW s \in [1 .. n -> V],
         NEW It, StepsOf(It, T, F, base, s, n)
  PROVE  \E acc \in [0 .. n -> T] : RunOf(acc, It, F, base, s, n)
<1> USE DEF StepsOf, RunOf
<1> DEFINE InT(i) == i <= n => It[1 .. i] \in T
           S == {i \in Nat : InT(i)}
<1>1. InT(0)
  OBVIOUS
<1>2. ASSUME NEW i \in Nat, InT(i) PROVE InT(i + 1)
  <2> SUFFICES ASSUME i + 1 <= n PROVE It[1 .. (i + 1)] \in T
    OBVIOUS
  <2>1. i \in 0 .. (n - 1) /\ It[1 .. i] \in T /\ s[i + 1] \in V
    BY <1>2
  <2> QED
    BY <2>1
<1>3. Nat \subseteq S
  <2> HIDE DEF InT
  <2>1. 0 \in S /\ \A k \in Nat : k \in S => k + 1 \in S
    BY <1>1, <1>2
  <2> HIDE DEF S
  <2> QED
    BY <2>1, Induction
<1>4. \A i \in 0 .. n : It[1 .. i] \in T
  <2> SUFFICES ASSUME NEW i \in 0 .. n PROVE It[1 .. i] \in T
    OBVIOUS
  <2>1. i \in Nat /\ i <= n
    OBVIOUS
  <2>2. i \in S
    BY <1>3, <2>1
  <2> QED
    BY <2>1, <2>2
<1> DEFINE acc == [i \in 0 .. n |-> It[1 .. i]]
<1>5. acc \in [0 .. n -> T] /\ acc[0] = base /\ acc[n] = It[1 .. n]
  BY <1>4
<1>6. \A i \in 0 .. (n - 1) : acc[i + 1] = F[<<acc[i], s[i + 1]>>]
  BY <1>4
<1> QED
  BY <1>5, <1>6

-----------------------------------------------------------------------------
(* The login dialogue: an accepted name can be finished with, a session     *)
(* starts in the desktop, questions start empty.                            *)

\* The name is kept from its acceptance to the session, and what MakeUser has
\* made is there when the password is stored; _UserNameMatch is never reset,
\* which does no harm because no question for a name follows it.
Accepted ==
  /\ offBoot = "password" => Name \in users
  /\ offBoot = "newPassword" /\ ~cardFailed => Home(Name) /\ Name \in desktops
  /\ offBoot = "shell" /\ ~cardFailed => at = "desktop"
  /\ userNameMatch => offBoot \in {"password", "shell", "halted"}

Booleans == userNameMatch \in BOOLEAN /\ cardFailed \in BOOLEAN
Inv == DOMAIN input = Buffers /\ Booleans /\ Accepted

LEMMA InitInv == Init => Inv
  BY DEF Init, Inv, Booleans, Accepted

\* The keys of a password and of an answer leave the name alone.
LEMMA KeyKeepsInv ==
  ASSUME Inv, offBoot \in Dialogue, NEW text,
         input' = [input EXCEPT ![BufferOf(offBoot)] = text],
         UNCHANGED <<offBoot, userNameMatch, users, desktops, secrets, at, cardFailed>>
  PROVE  Inv'
<1>1. DOMAIN input' = Buffers
  BY DEF Inv
<1>2. offBoot \in {"password", "newPassword"} => Name' = Name
  <2> SUFFICES ASSUME offBoot \in {"password", "newPassword"} PROVE input'["name"] = input["name"]
    BY DEF Name
  <2>1. BufferOf(offBoot) = "password"
    BY DEF BufferOf
  <2> QED
    BY <2>1
<1> QED
  BY <1>1, <1>2 DEF Inv, Booleans, Accepted, Home

LEMMA CheckNameInv ==
  ASSUME Inv, NEW fault \in BOOLEAN, CheckName(fault), cardFailed' = (cardFailed \/ fault)
  PROVE  Inv'
<1>1. DOMAIN input' = Buffers
  BY DEF Inv, CheckName, Forget
<1>2. ~userNameMatch /\ userNameMatch' \in BOOLEAN /\ cardFailed' \in BOOLEAN
  BY DEF Inv, Booleans, Accepted, CheckName
<1>3. CASE userNameMatch'
  <2>1. offBoot' = "password" /\ input' = input /\ users' = users /\ Name \in users
    BY <1>2, <1>3 DEF CheckName, Ask
  <2> QED
    BY <1>1, <1>2, <1>3, <2>1 DEF Inv, Booleans, Accepted, Name
<1>4. CASE ~userNameMatch'
  BY <1>1, <1>2, <1>4 DEF Inv, Booleans, Accepted, CheckName, Ask
<1> QED
  BY <1>3, <1>4

LEMMA CheckAnswerInv == ASSUME Inv, CheckAnswer PROVE Inv'
<1>1. DOMAIN input' = Buffers
  BY DEF Inv, CheckAnswer, Forget
<1>2. offBoot' \in {"name", "create", "newName"} /\ ~userNameMatch
  BY DEF Inv, Booleans, Accepted, CheckAnswer, Ask
<1> QED
  BY <1>1, <1>2 DEF Inv, Booleans, Accepted, CheckAnswer

LEMMA CheckPasswordInv ==
  ASSUME Inv, NEW fault \in BOOLEAN, CheckPassword(fault), cardFailed' = (cardFailed \/ fault)
  PROVE  Inv'
<1>0. offBoot = "password" /\ Name \in users
  BY DEF Inv, Accepted, CheckPassword
<1>1. CASE Right(fault) /\ (desktops' = desktops \cup {Name} \/ fault) /\ EnterShell(desktops', fault)
  <2>1. offBoot' = "shell" /\ input' = input /\ userNameMatch' = userNameMatch
    BY <1>1 DEF EnterShell, Ask
  <2>2. ~cardFailed' => at' = "desktop"
    BY <1>1 DEF EnterShell
  <2> QED
    BY <2>1, <2>2 DEF Inv, Booleans, Accepted
<1>2. CASE Forget("password") /\ UNCHANGED <<offBoot, userNameMatch, users, desktops, at>>
  <2>1. DOMAIN input' = Buffers /\ Name' = Name
    BY <1>2 DEF Inv, Forget, Name, Buffers
  <2> QED
    BY <1>0, <1>2, <2>1 DEF Inv, Booleans, Accepted
<1> QED
  BY <1>1, <1>2 DEF CheckPassword

LEMMA MakeUserInv ==
  ASSUME Inv, NEW fault \in BOOLEAN, MakeUser(fault), cardFailed' = (cardFailed \/ fault)
  PROVE  Inv'
<1>1. /\ offBoot' = "newPassword" /\ input' = input /\ Name' = Name
      /\ ~userNameMatch /\ userNameMatch' = userNameMatch
  BY DEF Inv, Booleans, Accepted, MakeUser, Ask, Name
<1>2. ~cardFailed' => Home(Name)' /\ Name' \in desktops'
  BY <1>1 DEF MakeUser, Home, Inv, Booleans
<1>3. DOMAIN input' = Buffers /\ Booleans'
  BY <1>1 DEF Inv, Booleans
<1>4. Accepted'
  BY <1>1, <1>2 DEF Accepted
<1> QED
  BY <1>3, <1>4 DEF Inv

LEMMA StorePasswordInv ==
  ASSUME Inv, NEW fault \in BOOLEAN, StorePassword(fault), cardFailed' = (cardFailed \/ fault)
  PROVE  Inv'
<1>1. /\ offBoot = "newPassword" /\ input' = input /\ desktops' = desktops /\ users' = users
      /\ ~userNameMatch /\ userNameMatch' = userNameMatch /\ Name' = Name
  BY DEF Inv, Booleans, Accepted, StorePassword, EnterShell, Name
<1>2. CASE EnterShell(desktops, fault)
  BY <1>1, <1>2 DEF Inv, Booleans, Accepted, EnterShell, Ask
<1>3. CASE UNCHANGED <<offBoot, at>>
  BY <1>1, <1>3 DEF Inv, Booleans, Accepted, Home
<1> QED
  BY <1>2, <1>3 DEF StorePassword

LEMMA StepInv == Inv /\ [Next]_vars => Inv'
<1> SUFFICES ASSUME Inv, [Next]_vars PROVE Inv'
  OBVIOUS
<1>1. ASSUME NEW c \in Char, TypeKey(c) PROVE Inv'
  BY <1>1, KeyKeepsInv DEF TypeKey
<1>2. CASE Backspace
  BY <1>2, KeyKeepsInv DEF Backspace
<1>3. CASE CheckAnswer
  BY <1>3, CheckAnswerInv
<1>4. ASSUME NEW fault \in BOOLEAN, CardStep(fault) PROVE Inv'
  BY <1>4, CheckNameInv, CheckPasswordInv, MakeUserInv, StorePasswordInv DEF CardStep
<1>5. CASE Panic
  BY <1>5 DEF Panic, Ask, Inv, Booleans, Accepted
<1>6. CASE Restart
  BY <1>6 DEF Restart, Inv, Booleans, Accepted
<1>7. CASE UNCHANGED vars
  BY <1>7 DEF vars, Inv, Booleans, Accepted, Name, Home
<1> QED
  BY <1>1, <1>2, <1>3, <1>4, <1>5, <1>6, <1>7 DEF Next, Enter

\* In every state the name checked is the name the dialogue goes on with.
THEOREM Invariance == Spec => []Inv
  BY InitInv, StepInv, PTL DEF Spec

\* From the acceptance of a name on, the dialogue can be finished: the
\* password asked for is that of a user on the card.
THEOREM AcceptedCanFinish == Spec => []CanFinish
<1>1. Inv => CanFinish
  BY DEF Inv, Accepted, CanFinish
<1> QED
  BY <1>1, Invariance, PTL

\* As long as the card works, the shell starts in the desktop it shows.
THEOREM StartsInDesktop == Spec => []SessionInDesktop
<1>1. Inv => SessionInDesktop
  BY DEF Inv, Accepted, SessionInDesktop
<1> QED
  BY <1>1, Invariance, PTL

-----------------------------------------------------------------------------
(* The buffers of the questions to come are empty.                          *)

Prompts ==
  /\ offBoot \in {"name", "create", "newName"} => input["password"] = <<>>
  /\ offBoot = "name" => input["answer"] = <<>>
  /\ offBoot = "create" => input["name"] = <<>>

\* A key goes into the buffer of the question asked, which Prompts leaves free.
LEMMA KeyKeepsPrompts ==
  ASSUME Inv, Prompts, offBoot \in Dialogue, NEW text,
         input' = [input EXCEPT ![BufferOf(offBoot)] = text], offBoot' = offBoot
  PROVE  Prompts'
BY DEF Inv, Prompts, Dialogue, Asked, BufferOf, Buffers

\* What a step of the card leaves: the password is forgotten when it was wrong.
LEMMA CardStepPrompts ==
  ASSUME Inv, Prompts, NEW fault \in BOOLEAN, CardStep(fault)
  PROVE  /\ Prompts'
         /\ ~cardFailed' /\ offBoot' \in Dialogue => input'[BufferOf(offBoot')] = <<>>
<1>1. CASE CheckPassword(fault)
  <2>1. \/ offBoot' = "shell"
        \/ offBoot' = "password" /\ input' = [input EXCEPT !["password"] = <<>>]
    BY <1>1 DEF CheckPassword, EnterShell, Ask, Forget
  <2> QED
    BY <2>1 DEF Inv, Prompts, Dialogue, BufferOf, Buffers
<1>2. CASE MakeUser(fault)
  <2>1. offBoot = "newName" /\ offBoot' = "newPassword" /\ input' = input
    BY <1>2 DEF MakeUser, Ask
  <2> QED
    BY <2>1 DEF Prompts, BufferOf
<1>3. CASE StorePassword(fault)
  <2>1. /\ offBoot = "newPassword" /\ offBoot' \in {"newPassword", "shell"}
        /\ offBoot' = "newPassword" => ~Home(Name) \/ fault
    BY <1>3 DEF StorePassword, EnterShell, Ask
  <2>2. offBoot' = "newPassword" => cardFailed'
    BY <2>1 DEF CardStep, Inv, Accepted
  <2> QED
    BY <2>1, <2>2 DEF Prompts, Dialogue
<1>4. CASE CheckName(fault)
  <2>1. \/ offBoot' = "password" /\ input' = input
        \/ offBoot' = "create" /\ input' = [input EXCEPT !["name"] = <<>>]
    BY <1>4 DEF CheckName, Ask, Forget
  <2>2. input["password"] = <<>> /\ input["answer"] = <<>>
    BY <1>4 DEF CheckName, Prompts
  <2> QED
    BY <2>1, <2>2 DEF Inv, Prompts, BufferOf, Buffers
<1> QED
  BY <1>1, <1>2, <1>3, <1>4 DEF CardStep

\* An Enter finds the buffer of the next question empty.
LEMMA EnterPrompts ==
  ASSUME Inv, Prompts, Enter
  PROVE  /\ Prompts'
         /\ ~cardFailed' /\ offBoot' \in Dialogue => input'[BufferOf(offBoot')] = <<>>
<1>1. CASE CheckAnswer
  <2>1. /\ offBoot = "create" /\ offBoot' \in {"name", "create", "newName"}
        /\ input' = [input EXCEPT !["answer"] = <<>>]
    BY <1>1 DEF CheckAnswer, Ask, Forget
  <2> QED
    BY <2>1 DEF Inv, Prompts, BufferOf, Buffers
<1>2. ASSUME NEW fault \in BOOLEAN, CardStep(fault)
      PROVE  /\ Prompts'
             /\ ~cardFailed' /\ offBoot' \in Dialogue => input'[BufferOf(offBoot')] = <<>>
  BY <1>2, CardStepPrompts
<1> QED
  BY <1>1, <1>2 DEF Enter

LEMMA StepPrompts == Inv /\ Prompts /\ [Next]_vars => Prompts'
<1> SUFFICES ASSUME Inv, Prompts, [Next]_vars PROVE Prompts'
  OBVIOUS
<1>1. ASSUME NEW c \in Char, TypeKey(c) PROVE Prompts'
  BY <1>1, KeyKeepsPrompts DEF TypeKey
<1>2. CASE Backspace
  BY <1>2, KeyKeepsPrompts DEF Backspace
<1>3. CASE Enter
  BY <1>3, EnterPrompts
<1>4. CASE Panic \/ Restart \/ UNCHANGED vars
  BY <1>4 DEF Panic, Ask, Restart, vars, Prompts, Buffers
<1> QED
  BY <1>1, <1>2, <1>3, <1>4 DEF Next

\* As long as the card works, every question of the dialogue is answered into
\* an empty buffer, whatever was typed, refused or retried before it.
THEOREM QuestionsStartEmpty == Spec => PromptStartsEmpty
<1>1. Init => Prompts
  BY DEF Init, Prompts, Buffers
<1>2. Inv /\ Prompts /\ [Next]_vars
        => [Enter /\ ~cardFailed' /\ offBoot' \in Dialogue => input'[BufferOf(offBoot')] = <<>>]_vars
  BY EnterPrompts
<1> QED
  BY <1>1, <1>2, StepPrompts, Invariance, PTL DEF Spec, PromptStartsEmpty

-----------------------------------------------------------------------------
(* The keyboard: requests and answers stay together.                        *)


Ep(X) == [urb : {"none", "live", "stale"}, completed : BOOLEAN, tds : Seq(X),
          running : BOOLEAN, dead : BOOLEAN]
EventSet == [ep : {"control", "report"}, ok : BOOLEAN,
             data : Reports \cup {NoReport}]

\* The answers of endpoint 0 that are on their way are few.
Answered == \E i \in DOMAIN events : events[i].ep = "control"
OneAnswer == \A i, j \in DOMAIN events :
               events[i].ep = "control" /\ events[j].ep = "control" => i = j

\* Nothing is left for the controller, or it will not look for it.
Quiet == control.dead \/ (~control.running /\ control.tds = <<>>)

\* While no transfer has timed out: what the place of the main loop says about
\* endpoint 0, about the controller and about the answer on its way.
Phases ==
  /\ main.at \in {"loop", "num", "scroll"} =>
       control.completed /\ control.urb = "none" /\ ~Answered /\ Quiet
  /\ main.at = "submit" =>
       /\ ~control.completed /\ control.urb = "none" /\ ~Answered
       /\ control.dead \/ (~control.running /\ Len(control.tds) = 1)
  /\ main.at \in {"poll", "expired"} =>
       \/ /\ control.completed /\ control.urb = "none" /\ ~Answered /\ Quiet
       \/ /\ ~control.completed /\ control.urb = "live" /\ ~Answered
          /\ control.dead \/ Len(control.tds) = 1
       \/ /\ ~control.completed /\ control.urb = "live" /\ Answered /\ Quiet

KeyTypes ==
  /\ control \in Ep(SUBSET Locks)
  /\ report \in Ep({NoReport}) /\ report.urb = "live"
  /\ events \in Seq(EventSet)
  /\ main \in [at : {"loop", "num", "scroll", "submit", "poll", "expired"}, status : SUBSET Locks]

KeyInv == KeyTypes /\ ("timeout" \notin faults => ~failed /\ OneAnswer /\ Phases)

\* What the operations do to the fields of an endpoint.
LEMMA BeginSets ==
  ASSUME NEW X, NEW e \in Ep(X), NEW f, f = Begin(e)
  PROVE  /\ f \in Ep(X)
         /\ f.urb = e.urb /\ ~f.completed
         /\ f.tds = e.tds /\ (f.running <=> e.running) /\ (f.dead <=> e.dead)
  BY DEF Ep, Begin

LEMMA EnqueueSets ==
  ASSUME NEW X, NEW e \in Ep(X), NEW td \in X, NEW f, f = Enqueue(e, td)
  PROVE  /\ f \in Ep(X)
         /\ f.urb = e.urb /\ (f.completed <=> e.completed)
         /\ f.tds = Append(e.tds, td) /\ (f.running <=> e.running) /\ (f.dead <=> e.dead)
  BY DEF Ep, Enqueue

LEMMA SubmitSets ==
  ASSUME NEW X, NEW e \in Ep(X), NEW f, f = Submit(e)
  PROVE  /\ f \in Ep(X)
         /\ f.urb = "live" /\ (f.completed <=> e.completed)
         /\ f.tds = e.tds /\ f.running /\ (f.dead <=> e.dead)
  BY DEF Ep, Submit

LEMMA LeaveSets ==
  ASSUME NEW X, NEW e \in Ep(X), NEW f, f = Leave(e)
  PROVE  /\ f \in Ep(X)
         /\ f.urb = (IF e.urb = "live" THEN "stale" ELSE e.urb) /\ f.completed
         /\ f.tds = e.tds /\ (f.running <=> e.running) /\ (f.dead <=> e.dead)
  BY DEF Ep, Leave

LEMMA LetSets ==
  ASSUME NEW X, NEW e \in Ep(X), NEW f, f = Let(e)
  PROVE  /\ f \in Ep(X)
         /\ f.urb = "none" /\ (f.completed <=> e.completed)
         /\ f.tds = e.tds /\ (f.running <=> e.running) /\ (f.dead <=> e.dead)
  BY DEF Ep, Let

LEMMA CompleteSets ==
  ASSUME NEW X, NEW e \in Ep(X), NEW f, f = Complete(e)
  PROVE  /\ f \in Ep(X)
         /\ f.urb = e.urb /\ f.completed
         /\ f.tds = e.tds /\ (f.running <=> e.running) /\ (f.dead <=> e.dead)
  BY DEF Ep, Complete

LEMMA DoneSets ==
  ASSUME NEW X, NEW e \in Ep(X), e.tds # <<>>, NEW f, f = Done(e)
  PROVE  /\ f \in Ep(X)
         /\ f.urb = e.urb /\ (f.completed <=> e.completed)
         /\ f.tds = Tail(e.tds) /\ (f.running <=> Len(e.tds) > 1) /\ (f.dead <=> e.dead)
<1>1. PICK v : v = (Len(e.tds) > 1)
  BY Zenon
<1>2. f = [e EXCEPT !.tds = Tail(e.tds), !.running = v]
  BY <1>1, Zenon DEF Done
<1>3. v \in BOOLEAN /\ (v <=> Len(e.tds) > 1)
  <2>1. (Len(e.tds) > 1) \in BOOLEAN
    OBVIOUS
  <2>2. v \in BOOLEAN
    BY <1>1, <2>1, Zenon
  <2> QED
    BY <1>1, <2>2, Zenon
<1>4. Tail(e.tds) \in Seq(X)
  BY DEF Ep
<1>5. f \in Ep(X) /\ f.urb = e.urb /\ f.tds = Tail(e.tds) /\ (f.completed <=> e.completed)
  BY <1>2, <1>3, <1>4 DEF Ep
<1>6. (f.running <=> v) /\ (f.dead <=> e.dead)
  BY <1>2, <1>3 DEF Ep
<1> QED
  BY <1>3, <1>5, <1>6

LEMMA BrokenSets ==
  ASSUME NEW X, NEW e \in Ep(X), e.tds # <<>>, NEW f, f = Broken(e)
  PROVE  f \in Ep(X) /\ f.urb = e.urb /\ (f.completed <=> e.completed) /\ f.dead
<1>1. PICK g : g = Done(e)
  OBVIOUS
<1>2. g \in Ep(X) /\ g.urb = e.urb /\ (g.completed <=> e.completed)
  BY <1>1, DoneSets
<1>3. f = [g EXCEPT !.dead = TRUE]
  BY <1>1, Zenon DEF Broken
<1> QED
  BY <1>2, <1>3 DEF Ep

\* An event that is added or taken, and the answers among the events.
LEMMA EventAdded ==
  ASSUME events \in Seq(EventSet), NEW e \in EventSet, events' = Append(events, e)
  PROVE  /\ events' \in Seq(EventSet)
         /\ Answered' <=> Answered \/ e.ep = "control"
         /\ OneAnswer /\ ~(Answered /\ e.ep = "control") => OneAnswer'
<1>1. PICK n \in Nat : n = Len(events)
  OBVIOUS
<1>2. /\ DOMAIN events = 1 .. n /\ DOMAIN events' = 1 .. n + 1 /\ events' \in Seq(EventSet)
      /\ \A i \in 1 .. n : events'[i] = events[i]
      /\ events'[n + 1] = e
  BY <1>1
<1> QED
  BY <1>1, <1>2 DEF Answered, OneAnswer

LEMMA EventTaken ==
  ASSUME events \in Seq(EventSet), NEW name \in {"control", "report"}, Take(name)
  PROVE  /\ events' \in Seq(EventSet)
         /\ OneAnswer => OneAnswer'
         /\ name = "report" => (Answered' <=> Answered)
         /\ name = "control" => Answered /\ (OneAnswer => ~Answered')
<1>1. events # <<>> /\ Head(events).ep = name /\ events' = Tail(events)
  BY DEF Take
<1>2. PICK n \in Nat \ {0} : n = Len(events)
  BY <1>1
<1>3. /\ DOMAIN events = 1 .. n /\ DOMAIN events' = 1 .. n - 1 /\ events' \in Seq(EventSet)
      /\ \A i \in 1 .. n - 1 : events'[i] = events[i + 1]
      /\ events[1].ep = name
  BY <1>1, <1>2
<1>4. ASSUME OneAnswer PROVE OneAnswer'
  <2>1. ASSUME NEW i \in DOMAIN events', NEW j \in DOMAIN events',
               events'[i].ep = "control", events'[j].ep = "control"
        PROVE  i = j
    <3>1. i \in 1 .. n - 1 /\ j \in 1 .. n - 1 /\ i + 1 \in 1 .. n /\ j + 1 \in 1 .. n
      BY <1>2, <1>3, <2>1
    <3>2. events[i + 1].ep = "control" /\ events[j + 1].ep = "control"
      BY <1>3, <2>1, <3>1, Zenon
    <3>3. i + 1 = j + 1
      BY <1>3, <1>4, <3>1, <3>2, Zenon DEF OneAnswer
    <3> QED
      BY <3>1, <3>3
  <2> QED
    BY <2>1 DEF OneAnswer
<1>5. ASSUME name = "report" PROVE Answered' <=> Answered
  <2>1. \A i \in 1 .. n : events[i].ep = "control" => i # 1 /\ i - 1 \in 1 .. n - 1 /\ events'[i - 1] = events[i]
    BY <1>2, <1>3, <1>5
  <2>2. \A i \in 1 .. n - 1 : i + 1 \in 1 .. n /\ events'[i] = events[i + 1]
    BY <1>2, <1>3
  <2>3. ASSUME Answered PROVE Answered'
    <3>1. PICK i \in 1 .. n : events[i].ep = "control"
      BY <1>3, <2>3 DEF Answered
    <3> QED
      BY <1>3, <2>1, <3>1, Zenon DEF Answered
  <2>4. ASSUME Answered' PROVE Answered
    <3>1. PICK i \in 1 .. n - 1 : events'[i].ep = "control"
      BY <1>3, <2>4 DEF Answered
    <3> QED
      BY <1>3, <2>2, <3>1, Zenon DEF Answered
  <2> QED
    BY <2>3, <2>4
<1>6. ASSUME name = "control" PROVE Answered /\ (OneAnswer => ~Answered')
  <2>1. 1 \in 1 .. n /\ events[1].ep = "control"
    BY <1>3, <1>6
  <2>2. Answered
    BY <1>3, <2>1, Zenon DEF Answered
  <2>3. ASSUME OneAnswer, NEW i \in DOMAIN events', events'[i].ep = "control" PROVE FALSE
    <3>1. i \in 1 .. n - 1 /\ i + 1 \in 1 .. n /\ events[i + 1].ep = "control"
      BY <1>3, <2>3
    <3>2. i + 1 = 1
      BY <1>3, <2>1, <2>3, <3>1, Zenon DEF OneAnswer
    <3> QED
      BY <3>1, <3>2
  <2> QED
    BY <2>2, <2>3, Zenon DEF Answered
<1> QED
  BY <1>3, <1>4, <1>5, <1>6

LEMMA NewEvent ==
  ASSUME NEW name \in {"control", "report"}, NEW ok \in BOOLEAN,
         NEW data \in Reports \cup {NoReport}, NEW e,
         e = [ep |-> name, ok |-> ok, data |-> data]
  PROVE  e \in EventSet /\ e.ep = name
  BY DEF EventSet

LEMMA NewEndpointType ==
  ASSUME NEW X
  PROVE  /\ NewEndpoint \in Ep(X) /\ NewEndpoint.urb = "none"
         /\ NewEndpoint.completed /\ ~NewEndpoint.running
         /\ NewEndpoint.tds = <<>>
  BY DEF NewEndpoint, Ep

\* The next request of the report endpoint.
LEMMA Resubmitted ==
  ASSUME NEW e \in Ep({NoReport})
  PROVE  LET f == Submit(Enqueue(e, NoReport))
         IN  f \in Ep({NoReport}) /\ f.urb = "live"
<1>1. PICK g : g = Enqueue(e, NoReport)
  OBVIOUS
<1>2. g \in Ep({NoReport})
  BY <1>1, EnqueueSets
<1>3. PICK f : f = Submit(g)
  OBVIOUS
<1>4. f \in Ep({NoReport}) /\ f.urb = "live"
  BY <1>2, <1>3, SubmitSets
<1> QED
  BY <1>1, <1>3, <1>4, Zenon

LEMMA KeyInit == KeyboardInit => KeyInv
<1> SUFFICES ASSUME KeyboardInit PROVE KeyInv
  OBVIOUS
<1>1. /\ control = NewEndpoint /\ events = <<>>
      /\ report = Submit(Enqueue(NewEndpoint, NoReport))
      /\ main = [at |-> "loop", status |-> {}] /\ failed = FALSE
  BY Zenon DEF KeyboardInit
<1>2. report \in Ep({NoReport}) /\ report.urb = "live"
  BY <1>1, NewEndpointType, Resubmitted, Zenon
<1>3. /\ control \in Ep(SUBSET Locks) /\ control.urb = "none" /\ control.completed
      /\ ~control.running /\ control.tds = <<>>
  BY <1>1, NewEndpointType, Zenon
<1>4. events \in Seq(EventSet) /\ DOMAIN events = {}
  BY <1>1
<1>5. /\ main \in [at : {"loop", "num", "scroll", "submit", "poll", "expired"},
                   status : SUBSET Locks]
      /\ main.at = "loop"
  BY <1>1
<1>6. KeyTypes
  BY <1>2, <1>3, <1>4, <1>5 DEF KeyTypes
<1>7. OneAnswer /\ ~Answered
  BY <1>4 DEF OneAnswer, Answered
<1>8. Phases
  BY <1>3, <1>5, <1>7 DEF Phases, Quiet
<1> QED
  BY <1>1, <1>6, <1>7, <1>8 DEF KeyInv

LEMMA ReportEventKeeps == ASSUME KeyInv, ReportEvent PROVE KeyInv'
<1>1. /\ Take("report")
      /\ failed' = ~(MayEnd(report) /\ MaySubmit(Let(report)))
      /\ report' = Submit(Enqueue(Let(report), NoReport))
      /\ UNCHANGED <<control, main, faults>>
  BY Zenon DEF ReportEvent
<1>2. KeyTypes
  BY DEF KeyInv
<1>3. PICK r : r = Let(report)
  OBVIOUS
<1>4. r \in Ep({NoReport}) /\ r.urb = "none"
  BY <1>2, <1>3, LetSets DEF KeyTypes
<1>5. report' \in Ep({NoReport}) /\ report'.urb = "live"
  BY <1>1, <1>3, <1>4, Resubmitted, Zenon
<1>6. ~failed'
  <2>1. MayEnd(report)
    BY <1>2 DEF KeyTypes, MayEnd
  <2>2. MaySubmit(Let(report))
    BY <1>3, <1>4 DEF MaySubmit
  <2> QED
    BY <1>1, <2>1, <2>2, Zenon
<1>7. events' \in Seq(EventSet) /\ (OneAnswer => OneAnswer') /\ (Answered' <=> Answered)
  BY <1>1, <1>2, EventTaken DEF KeyTypes
<1>8. KeyTypes'
  BY <1>1, <1>2, <1>5, <1>7 DEF KeyTypes
<1>9. Phases => Phases'
  BY <1>1, <1>7 DEF Phases, Quiet
<1> QED
  BY <1>1, <1>6, <1>7, <1>8, <1>9 DEF KeyInv

LEMMA ControlEventKeeps == ASSUME KeyInv, ControlEvent PROVE KeyInv'
<1>1. /\ Take("control")
      /\ failed' \in { ~(MayEnd(control) /\ MayComplete(control)),
                       failed \/ control.urb = "stale" }
      /\ control' = Complete(Let(control))
      /\ UNCHANGED <<report, main, faults>>
  BY Zenon DEF ControlEvent
<1>2. KeyTypes
  BY DEF KeyInv
<1>3. PICK c : c = Let(control)
  OBVIOUS
<1>4. /\ c \in Ep(SUBSET Locks) /\ c.urb = "none" /\ c.tds = control.tds
      /\ (c.running <=> control.running) /\ (c.dead <=> control.dead)
  BY <1>2, <1>3, LetSets DEF KeyTypes
<1>5. /\ control' \in Ep(SUBSET Locks) /\ control'.urb = "none" /\ control'.completed
      /\ control'.tds = control.tds
      /\ (control'.running <=> control.running) /\ (control'.dead <=> control.dead)
  <2>1. PICK d : d = Complete(c)
    OBVIOUS
  <2>2. /\ d \in Ep(SUBSET Locks) /\ d.urb = c.urb /\ d.completed /\ d.tds = c.tds
        /\ (d.running <=> c.running) /\ (d.dead <=> c.dead)
    BY <1>4, <2>1, CompleteSets
  <2> QED
    BY <1>1, <1>3, <1>4, <2>1, <2>2, Zenon
<1>6. events' \in Seq(EventSet) /\ (OneAnswer => OneAnswer') /\ Answered /\ (OneAnswer => ~Answered')
  BY <1>1, <1>2, EventTaken DEF KeyTypes
<1>7. KeyTypes'
  BY <1>1, <1>2, <1>5, <1>6 DEF KeyTypes
<1>8. ASSUME "timeout" \notin faults PROVE ~failed' /\ OneAnswer' /\ Phases'
  <2>1. ~failed /\ OneAnswer /\ Phases
    BY <1>8 DEF KeyInv
  <2>2. main.at \in {"poll", "expired"} /\ ~control.completed /\ control.urb = "live" /\ Quiet
    BY <1>2, <1>6, <2>1 DEF Phases, KeyTypes
  <2>3. MayEnd(control) /\ MayComplete(control) /\ control.urb # "stale"
    BY <2>2 DEF MayEnd, MayComplete
  <2>4. ~failed'
    BY <1>1, <2>1, <2>3, Zenon
  <2>5. Quiet'
    BY <1>5, <2>2 DEF Quiet
  <2>6. Phases'
    BY <1>1, <1>5, <1>6, <2>1, <2>2, <2>5 DEF Phases
  <2> QED
    BY <1>6, <2>1, <2>4, <2>6
<1> QED
  BY <1>1, <1>7, <1>8 DEF KeyInv

\* What the main loop does without the endpoint: the tests of the locks.
LEMMA LocksRead ==
  ASSUME KeyInv, UpdateLEDs \/ GetLEDStatus PROVE KeyInv'
<1>1. \A lock \in Locks : Has(lock) \in SUBSET Locks
  BY DEF Has
<1>2. {"Caps", "Num", "Scroll"} \subseteq Locks
  BY DEF Locks
<1>3. PICK status : /\ main.at \in {"loop", "num"} /\ main'.at \in {"num", "scroll"}
                    /\ main' = [at |-> main'.at, status |-> status]
                    /\ status \in SUBSET Locks
                    /\ UNCHANGED <<control, report, events, faults, failed>>
  <2>1. CASE UpdateLEDs
    BY <1>1, <1>2, <2>1 DEF UpdateLEDs, At
  <2>2. CASE GetLEDStatus
    <3>1. main.status \in SUBSET Locks
      BY DEF KeyInv, KeyTypes
    <3> QED
      BY <1>1, <1>2, <2>2, <3>1 DEF GetLEDStatus, At
  <2> QED
    BY <2>1, <2>2
<1>4. KeyTypes'
  BY <1>3 DEF KeyInv, KeyTypes
<1>5. OneAnswer' = OneAnswer /\ (Answered' <=> Answered) /\ (Quiet' <=> Quiet)
  BY <1>3 DEF OneAnswer, Answered, Quiet
<1>6. Phases => Phases'
  BY <1>3, <1>5 DEF Phases
<1>7. OneAnswer => OneAnswer'
  BY <1>3 DEF OneAnswer
<1> QED
  BY <1>3, <1>4, <1>6, <1>7 DEF KeyInv

LEMMA SetLEDsKeeps == ASSUME KeyInv, SetLEDs PROVE KeyInv'
<1> DEFINE X == SUBSET Locks
<1>1. PICK status : status = main.status \cup Has("Scroll")
  OBVIOUS
<1>2. /\ main.at = "scroll" /\ UNCHANGED <<report, events, faults>>
      /\ \/ /\ main' = [at |-> "loop", status |-> {}]
            /\ UNCHANGED <<control, failed>>
         \/ /\ main' = [at |-> "submit", status |-> status]
            /\ failed' = ~MayTransfer(control)
            /\ control' = Enqueue(Begin(control), status)
  BY <1>1, Zenon DEF SetLEDs, At
<1>3. KeyTypes /\ status \in X
  BY <1>1 DEF KeyInv, KeyTypes, Has, Locks
<1>4. (OneAnswer' <=> OneAnswer) /\ (Answered' <=> Answered)
  BY <1>2 DEF OneAnswer, Answered
<1>5. CASE main' = [at |-> "loop", status |-> {}] /\ UNCHANGED <<control, failed>>
  <2>1. KeyTypes'
    BY <1>2, <1>3, <1>5 DEF KeyTypes
  <2>2. Phases => Phases'
    BY <1>2, <1>4, <1>5 DEF Phases, Quiet
  <2> QED
    BY <1>2, <1>4, <1>5, <2>1, <2>2 DEF KeyInv
<1>6. CASE /\ main' = [at |-> "submit", status |-> status]
           /\ failed' = ~MayTransfer(control)
           /\ control' = Enqueue(Begin(control), status)
  <2>1. PICK b : b = Begin(control)
    OBVIOUS
  <2>2. /\ b \in Ep(X) /\ b.urb = control.urb /\ ~b.completed /\ b.tds = control.tds
        /\ (b.running <=> control.running) /\ (b.dead <=> control.dead)
    BY <1>3, <2>1, BeginSets DEF KeyTypes
  <2>3. PICK c : c = Enqueue(b, status)
    OBVIOUS
  <2>4. /\ c \in Ep(X) /\ c.urb = b.urb /\ (c.completed <=> b.completed)
        /\ c.tds = Append(b.tds, status) /\ (c.running <=> b.running) /\ (c.dead <=> b.dead)
    BY <1>3, <2>2, <2>3, EnqueueSets
  <2>5. control' = c
    BY <1>6, <2>1, <2>3, Zenon
  <2>6. KeyTypes'
    BY <1>2, <1>3, <1>6, <2>4, <2>5 DEF KeyTypes
  <2>7. ASSUME "timeout" \notin faults PROVE ~failed' /\ OneAnswer' /\ Phases'
    <3>1. ~failed /\ OneAnswer /\ control.completed /\ control.urb = "none" /\ ~Answered /\ Quiet
      BY <1>2, <2>7 DEF KeyInv, Phases
    <3>2. ~failed'
      BY <1>6, <3>1, Zenon DEF MayTransfer
    <3>3. c.dead \/ (~c.running /\ Len(c.tds) = 1)
      BY <1>3, <2>2, <2>4, <3>1 DEF Quiet
    <3>4. main'.at = "submit"
      BY <1>6
    <3>5. Phases'
      BY <1>4, <2>2, <2>4, <2>5, <3>1, <3>3, <3>4 DEF Phases
    <3> QED
      BY <1>4, <3>1, <3>2, <3>5
  <2> QED
    BY <1>2, <2>6, <2>7 DEF KeyInv
<1> QED
  BY <1>2, <1>5, <1>6

LEMMA RingDoorbellKeeps == ASSUME KeyInv, RingDoorbell PROVE KeyInv'
<1>1. /\ main.at = "submit" /\ main' = [main EXCEPT !.at = "poll", !.status = {}]
      /\ failed' = ~MaySubmit(control) /\ control' = Submit(control)
      /\ UNCHANGED <<report, events, faults>>
  BY Zenon DEF RingDoorbell, At
<1>2. KeyTypes
  BY DEF KeyInv
<1>3. /\ control' \in Ep(SUBSET Locks) /\ control'.urb = "live"
      /\ (control'.completed <=> control.completed) /\ control'.tds = control.tds
      /\ (control'.dead <=> control.dead)
  <2>1. PICK c : c = Submit(control)
    OBVIOUS
  <2>2. /\ c \in Ep(SUBSET Locks) /\ c.urb = "live" /\ (c.completed <=> control.completed)
        /\ c.tds = control.tds /\ (c.dead <=> control.dead)
    BY <1>2, <2>1, SubmitSets DEF KeyTypes
  <2> QED
    BY <1>1, <2>1, <2>2, Zenon
<1>4. main'.at = "poll" /\ main' = [at |-> "poll", status |-> {}]
  BY <1>1, <1>2 DEF KeyTypes
<1>5. KeyTypes'
  BY <1>1, <1>2, <1>3, <1>4 DEF KeyTypes
<1>6. (OneAnswer' <=> OneAnswer) /\ (Answered' <=> Answered)
  BY <1>1 DEF OneAnswer, Answered
<1>7. ASSUME "timeout" \notin faults PROVE ~failed' /\ OneAnswer' /\ Phases'
  <2>1. /\ OneAnswer /\ ~control.completed /\ control.urb = "none" /\ ~Answered
        /\ control.dead \/ Len(control.tds) = 1
    BY <1>1, <1>7 DEF KeyInv, Phases
  <2>2. ~failed'
    BY <1>1, <2>1, Zenon DEF MaySubmit
  <2>3. Phases'
    BY <1>3, <1>4, <1>6, <2>1 DEF Phases
  <2> QED
    BY <1>6, <2>1, <2>2, <2>3
<1> QED
  BY <1>1, <1>5, <1>7 DEF KeyInv

\* The end of the polling, in time or not.
LEMMA PollEnds ==
  ASSUME KeyInv, Completed \/ GiveUp PROVE KeyInv'
<1>1. /\ main.at \in {"poll", "expired"} /\ main' = [at |-> "loop", status |-> {}]
      /\ control' = Leave(control) /\ UNCHANGED <<report, events, failed>>
      /\ \/ control.completed /\ faults' = faults
         \/ control.urb = "none" /\ faults' = faults
         \/ control.urb # "none" /\ faults' = faults \cup {"timeout"}
  BY DEF Completed, GiveUp, At
<1>2. KeyTypes
  BY DEF KeyInv
<1>3. /\ control' \in Ep(SUBSET Locks) /\ control'.completed /\ control'.tds = control.tds
      /\ control'.urb = (IF control.urb = "live" THEN "stale" ELSE control.urb)
      /\ (control'.running <=> control.running) /\ (control'.dead <=> control.dead)
  <2>1. PICK c : c = Leave(control)
    OBVIOUS
  <2>2. /\ c \in Ep(SUBSET Locks) /\ c.completed /\ c.tds = control.tds
        /\ c.urb = (IF control.urb = "live" THEN "stale" ELSE control.urb)
        /\ (c.running <=> control.running) /\ (c.dead <=> control.dead)
    BY <1>2, <2>1, LeaveSets DEF KeyTypes
  <2> QED
    BY <1>1, <2>1, <2>2, Zenon
<1>4. KeyTypes'
  BY <1>1, <1>2, <1>3 DEF KeyTypes
<1>5. (OneAnswer' <=> OneAnswer) /\ (Answered' <=> Answered)
  BY <1>1 DEF OneAnswer, Answered
<1>6. ASSUME "timeout" \notin faults' PROVE ~failed' /\ OneAnswer' /\ Phases'
  <2>1. "timeout" \notin faults /\ (control.completed \/ control.urb = "none")
    BY <1>1, <1>6
  <2>2. ~failed /\ OneAnswer /\ Phases
    BY <2>1 DEF KeyInv
  <2>3. control.urb = "none" /\ ~Answered /\ Quiet
    BY <1>1, <2>1, <2>2 DEF Phases
  <2>4. Phases'
    BY <1>1, <1>3, <1>5, <2>3 DEF Phases, Quiet
  <2> QED
    BY <1>1, <1>5, <2>2, <2>4
<1> QED
  BY <1>4, <1>6 DEF KeyInv

LEMMA ExpireKeeps == ASSUME KeyInv, Expire PROVE KeyInv'
<1>1. /\ main.at = "poll" /\ main' = [main EXCEPT !.at = "expired"]
      /\ UNCHANGED <<control, report, events, faults, failed>>
  BY DEF Expire, At
<1>2. main'.at = "expired" /\ KeyTypes'
  BY <1>1 DEF KeyInv, KeyTypes
<1>3. (OneAnswer' <=> OneAnswer) /\ (Answered' <=> Answered) /\ (Quiet' <=> Quiet)
  BY <1>1 DEF OneAnswer, Answered, Quiet
<1>4. Phases => Phases'
  BY <1>1, <1>2, <1>3 DEF Phases
<1> QED
  BY <1>1, <1>2, <1>3, <1>4 DEF KeyInv

\* A report, with or without keys.
LEMMA ReportSent ==
  ASSUME KeyInv, SendReport \/ LoseReport PROVE KeyInv'
<1>1. KeyTypes /\ report.tds # <<>>
  BY DEF KeyInv, SendReport, LoseReport, Works
<1>2. PICK e : e \in EventSet /\ e.ep = "report" /\ events' = Append(events, e)
  <2>1. CASE SendReport
    <3>1. PICK new \in Reports :
            events' = Append(events, [ep |-> "report", ok |-> TRUE, data |-> new])
      BY <2>1, Zenon DEF SendReport
    <3>2. PICK e : e = [ep |-> "report", ok |-> TRUE, data |-> new]
      OBVIOUS
    <3>3. e \in EventSet /\ e.ep = "report"
      BY <3>2, NewEvent, Zenon
    <3> QED
      BY <3>1, <3>2, <3>3, Zenon
  <2>2. CASE LoseReport
    <3>1. PICK e : e = [ep |-> "report", ok |-> FALSE, data |-> NoReport]
      OBVIOUS
    <3>2. e \in EventSet /\ e.ep = "report"
      BY <3>1, NewEvent, Zenon
    <3> QED
      BY <2>2, <3>1, <3>2, Zenon DEF LoseReport
  <2> QED
    BY <2>1, <2>2
<1>3. /\ report' \in {Done(report), Broken(report)}
      /\ UNCHANGED <<control, main, failed>>
      /\ "timeout" \in faults' <=> "timeout" \in faults
  BY DEF SendReport, LoseReport
<1>4. report' \in Ep({NoReport}) /\ report'.urb = "live"
  <2>1. PICK d, b : d = Done(report) /\ b = Broken(report)
    OBVIOUS
  <2>2. d \in Ep({NoReport}) /\ d.urb = report.urb
    BY <1>1, <2>1, DoneSets DEF KeyTypes
  <2>3. b \in Ep({NoReport}) /\ b.urb = report.urb
    BY <1>1, <2>1, BrokenSets DEF KeyTypes
  <2> QED
    BY <1>1, <1>3, <2>1, <2>2, <2>3, Zenon DEF KeyTypes
<1>5. events' \in Seq(EventSet) /\ (Answered' <=> Answered) /\ (OneAnswer => OneAnswer')
  BY <1>1, <1>2, EventAdded DEF KeyTypes
<1>6. KeyTypes'
  BY <1>1, <1>3, <1>4, <1>5 DEF KeyTypes
<1>7. Phases => Phases'
  BY <1>3, <1>5 DEF Phases, Quiet
<1> QED
  BY <1>3, <1>5, <1>6, <1>7 DEF KeyInv

LEMMA TailOfOne == ASSUME NEW S, NEW t \in Seq(S), Len(t) = 1 PROVE Tail(t) = <<>>
<1>1. Tail(t) \in Seq(S) /\ Len(Tail(t)) = 0
  OBVIOUS
<1>2. ASSUME NEW v \in Seq(S), Len(v) = 0 PROVE v = <<>>
  BY <1>2
<1> QED
  BY <1>1, <1>2

\* The answer to a lamp setting.
LEMMA LampsAnswered ==
  ASSUME KeyInv, SetLamps \/ RefuseLamps PROVE KeyInv'
<1>1. KeyTypes /\ Works(control) /\ control.tds # <<>> /\ UNCHANGED <<report, main, failed>>
  BY DEF KeyInv, SetLamps, RefuseLamps, Works
<1>2. PICK e : e \in EventSet /\ e.ep = "control" /\ events' = Append(events, e)
  <2>1. PICK d, e : /\ d = [ep |-> "control", ok |-> TRUE, data |-> NoReport]
                    /\ e = [ep |-> "control", ok |-> FALSE, data |-> NoReport]
    OBVIOUS
  <2>2. d \in EventSet /\ d.ep = "control"
    BY <2>1, NewEvent, Zenon
  <2>3. e \in EventSet /\ e.ep = "control"
    BY <2>1, NewEvent, Zenon
  <2>4. events' = Append(events, d) \/ events' = Append(events, e)
    BY <2>1, Zenon DEF SetLamps, RefuseLamps
  <2> QED
    BY <2>2, <2>3, <2>4, Zenon
<1>3. /\ control' \in Ep(SUBSET Locks) /\ control'.urb = control.urb
      /\ (control'.completed <=> control.completed)
      /\ Len(control.tds) = 1 => Quiet'
  <2>1. PICK d, b : d = Done(control) /\ b = Broken(control)
    OBVIOUS
  <2>2. /\ d \in Ep(SUBSET Locks) /\ d.urb = control.urb /\ (d.completed <=> control.completed)
        /\ d.tds = Tail(control.tds) /\ (d.running <=> Len(control.tds) > 1)
    BY <1>1, <2>1, DoneSets DEF KeyTypes
  <2>3. /\ b \in Ep(SUBSET Locks) /\ b.urb = control.urb /\ (b.completed <=> control.completed)
        /\ b.dead
    BY <1>1, <2>1, BrokenSets DEF KeyTypes
  <2>4. Len(control.tds) = 1 => ~d.running /\ d.tds = <<>>
    <3>1. control.tds \in Seq(SUBSET Locks)
      BY <1>1 DEF KeyTypes, Ep
    <3>2. ASSUME Len(control.tds) = 1 PROVE ~d.running /\ d.tds = <<>>
      <4>1. d.tds = <<>>
        BY <2>2, <3>1, <3>2, TailOfOne, Zenon
      <4>2. ~(1 > 1)
        OBVIOUS
      <4> QED
        BY <2>2, <3>2, <4>1, <4>2, Zenon
    <3> QED
      BY <3>2
  <2>5. CASE control' = d
    BY <2>2, <2>4, <2>5 DEF Quiet
  <2>6. CASE control' = b
    BY <2>3, <2>6 DEF Quiet
  <2>7. control' = d \/ control' = b
    BY <2>1, Zenon DEF SetLamps, RefuseLamps
  <2> QED
    BY <2>5, <2>6, <2>7
<1>4. events' \in Seq(EventSet) /\ Answered' /\ (OneAnswer /\ ~Answered => OneAnswer')
  BY <1>1, <1>2, EventAdded DEF KeyTypes
<1>5. KeyTypes'
  BY <1>1, <1>3, <1>4 DEF KeyTypes
<1>6. "timeout" \in faults' <=> "timeout" \in faults
  BY DEF SetLamps, RefuseLamps
<1>7. ASSUME "timeout" \notin faults PROVE ~failed' /\ OneAnswer' /\ Phases'
  <2>1. ~failed /\ OneAnswer /\ Phases /\ control.running /\ ~control.dead /\ ~Quiet
    BY <1>1, <1>7 DEF KeyInv, Works, Quiet
  <2>2. /\ main.at \in {"poll", "expired"} /\ ~control.completed /\ control.urb = "live"
        /\ ~Answered /\ Len(control.tds) = 1
    BY <1>1, <2>1 DEF Phases, KeyTypes
  <2>3. Phases'
    BY <1>1, <1>3, <1>4, <2>2 DEF Phases
  <2> QED
    BY <1>1, <1>4, <2>1, <2>2, <2>3
<1> QED
  BY <1>5, <1>6, <1>7 DEF KeyInv

LEMMA KeyStep ==
  ASSUME KeyInv, [KeyboardNext]_keyboardVars PROVE KeyInv'
<1>1. CASE UNCHANGED keyboardVars
  BY <1>1 DEF keyboardVars, KeyInv, KeyTypes, OneAnswer, Answered, Phases, Quiet
<1> QED
  BY <1>1, ReportEventKeeps, ControlEventKeeps, LocksRead, SetLEDsKeeps, RingDoorbellKeeps, PollEnds,
     ExpireKeeps, ReportSent, LampsAnswered, Zenon DEF KeyboardNext, MainLoop

\* In any order of reports, lamp settings, their answers and errors no
\* assertion of the endpoints fails, until a transfer times out.
THEOREM RequestsAlwaysKept == KeyboardSpec => []RequestsKept
<1>1. KeyInv => RequestsKept
  BY DEF KeyInv, RequestsKept
<1> QED
  BY <1>1, KeyInit, KeyStep, PTL DEF KeyboardSpec

-----------------------------------------------------------------------------
(* The keys of a report: releases, then presses, each folded over keys.     *)

Release(new, b, key) == IF Contains(new.keys, key) THEN b ELSE KeyReleased(b, key)
Press(last, b, key) == IF Contains(last.keys, key) THEN b ELSE KeyPressed(b, key)
ReleaseAll(new, b, s) == FoldLeft(LAMBDA c, key : Release(new, c, key), b, s)
PressAll(last, b, s) == FoldLeft(LAMBDA c, key : Press(last, c, key), b, s)

\* The keys released, one after the other.
ReleaseRun(acc, new, base, s) ==
  /\ acc[0] = base /\ acc[Len(s)] = ReleaseAll(new, base, s)
  /\ \A i \in 0 .. (Len(s) - 1) : acc[i + 1] = Release(new, acc[i], s[i + 1])

LEMMA ReleaseUnfolds ==
  ASSUME NEW new, NEW T, NEW V, NEW base \in T, NEW s \in Seq(V),
         \A x \in T, v \in V : Release(new, x, v) \in T
  PROVE  \E acc \in [0 .. Len(s) -> T] : ReleaseRun(acc, new, base, s)
<1> DEFINE n == Len(s)
           op(x, v) == Release(new, x, v)
           F == [p \in T \X V |-> op(p[1], p[2])]
           Eq(h) == h = [t \in SUBSET (1 .. n) |->
                           IF t = {} THEN base ELSE op(h[t \ {Latest(t)}], s[Latest(t)])]
           It == CHOOSE h : Eq(h)
<1>1. ReleaseAll(new, base, s) = It[1 .. n]
  <2>1. DOMAIN s = 1 .. n
    OBVIOUS
  <2> QED
    BY <2>1, Zenon DEF ReleaseAll, FoldLeft, MapThenFoldSet, Max, Latest
<1>2. n \in Nat /\ s \in [1 .. n -> V] /\ F \in [T \X V -> T]
  OBVIOUS
<1> HIDE DEF n
<1>3. \A x \in T, v \in V : F[<<x, v>>] = op(x, v)
  <2> HIDE DEF op
  <2> QED
    OBVIOUS
<1> HIDE DEF F, op
<1>4. PICK g \in [SUBSET (1 .. n) -> T] : Solves(g, F, base, s, n)
  BY <1>2, FoldExists
<1>5. Eq(g)
  <2>1. ASSUME NEW t \in SUBSET (1 .. n), t # {}
        PROVE  F[<<g[t \ {Latest(t)}], s[Latest(t)]>>] = op(g[t \ {Latest(t)}], s[Latest(t)])
    <3>1. g[t \ {Latest(t)}] \in T /\ s[Latest(t)] \in V
      BY <1>2, <1>4, <2>1 DEF Solves
    <3> QED
      BY <1>3, <3>1
  <2> QED
    BY <1>4, <2>1 DEF Solves
<1>6. Eq(It)
  BY <1>5, Zenon
<1> HIDE DEF It
<1>7. It[1 .. 0] = base
  BY <1>2, <1>6
<1>8. \A i \in 0 .. (n - 1) : It[1 .. (i + 1)] = op(It[1 .. i], s[i + 1])
  <2> TAKE i \in 0 .. (n - 1)
  <2>1. i \in Nat /\ 1 .. (i + 1) \in SUBSET (1 .. n)
    BY <1>2
  <2>2. 1 .. (i + 1) # {} /\ Latest(1 .. (i + 1)) = i + 1 /\ (1 .. (i + 1)) \ {i + 1} = 1 .. i
    BY <2>1, LatestOfInterval
  <2> QED
    BY <1>6, <2>1, <2>2
<1>9. StepsOf(It, T, F, base, s, n)
  BY <1>2, <1>3, <1>7, <1>8 DEF StepsOf
<1>10. PICK acc \in [0 .. n -> T] : RunOf(acc, It, F, base, s, n)
  BY <1>2, <1>9, FoldRuns
<1>11. acc[0] = base /\ acc[n] = It[1 .. n] /\ \A i \in 0 .. (n - 1) : acc[i + 1] = op(acc[i], s[i + 1])
  <2>1. \A i \in 0 .. (n - 1) : acc[i] \in T /\ s[i + 1] \in V
    BY <1>2
  <2>2. \A i \in 0 .. (n - 1) : F[<<acc[i], s[i + 1]>>] = op(acc[i], s[i + 1])
    BY <1>3, <2>1
  <2> QED
    BY <1>10, <2>2 DEF RunOf
<1> QED
  BY <1>1, <1>11, Zenon DEF n, op, ReleaseRun

\* The keys pressed.
PressRun(acc, last, base, s) ==
  /\ acc[0] = base /\ acc[Len(s)] = PressAll(last, base, s)
  /\ \A i \in 0 .. (Len(s) - 1) : acc[i + 1] = Press(last, acc[i], s[i + 1])

LEMMA PressUnfolds ==
  ASSUME NEW last, NEW T, NEW V, NEW base \in T, NEW s \in Seq(V),
         \A x \in T, v \in V : Press(last, x, v) \in T
  PROVE  \E acc \in [0 .. Len(s) -> T] : PressRun(acc, last, base, s)
<1> DEFINE n == Len(s)
           op(x, v) == Press(last, x, v)
           F == [p \in T \X V |-> op(p[1], p[2])]
           Eq(h) == h = [t \in SUBSET (1 .. n) |->
                           IF t = {} THEN base ELSE op(h[t \ {Latest(t)}], s[Latest(t)])]
           It == CHOOSE h : Eq(h)
<1>1. PressAll(last, base, s) = It[1 .. n]
  <2>1. DOMAIN s = 1 .. n
    OBVIOUS
  <2> QED
    BY <2>1, Zenon DEF PressAll, FoldLeft, MapThenFoldSet, Max, Latest
<1>2. n \in Nat /\ s \in [1 .. n -> V] /\ F \in [T \X V -> T]
  OBVIOUS
<1> HIDE DEF n
<1>3. \A x \in T, v \in V : F[<<x, v>>] = op(x, v)
  <2> HIDE DEF op
  <2> QED
    OBVIOUS
<1> HIDE DEF F, op
<1>4. PICK g \in [SUBSET (1 .. n) -> T] : Solves(g, F, base, s, n)
  BY <1>2, FoldExists
<1>5. Eq(g)
  <2>1. ASSUME NEW t \in SUBSET (1 .. n), t # {}
        PROVE  F[<<g[t \ {Latest(t)}], s[Latest(t)]>>] = op(g[t \ {Latest(t)}], s[Latest(t)])
    <3>1. g[t \ {Latest(t)}] \in T /\ s[Latest(t)] \in V
      BY <1>2, <1>4, <2>1 DEF Solves
    <3> QED
      BY <1>3, <3>1
  <2> QED
    BY <1>4, <2>1 DEF Solves
<1>6. Eq(It)
  BY <1>5, Zenon
<1> HIDE DEF It
<1>7. It[1 .. 0] = base
  BY <1>2, <1>6
<1>8. \A i \in 0 .. (n - 1) : It[1 .. (i + 1)] = op(It[1 .. i], s[i + 1])
  <2> TAKE i \in 0 .. (n - 1)
  <2>1. i \in Nat /\ 1 .. (i + 1) \in SUBSET (1 .. n)
    BY <1>2
  <2>2. 1 .. (i + 1) # {} /\ Latest(1 .. (i + 1)) = i + 1 /\ (1 .. (i + 1)) \ {i + 1} = 1 .. i
    BY <2>1, LatestOfInterval
  <2> QED
    BY <1>6, <2>1, <2>2
<1>9. StepsOf(It, T, F, base, s, n)
  BY <1>2, <1>3, <1>7, <1>8 DEF StepsOf
<1>10. PICK acc \in [0 .. n -> T] : RunOf(acc, It, F, base, s, n)
  BY <1>2, <1>9, FoldRuns
<1>11. acc[0] = base /\ acc[n] = It[1 .. n] /\ \A i \in 0 .. (n - 1) : acc[i + 1] = op(acc[i], s[i + 1])
  <2>1. \A i \in 0 .. (n - 1) : acc[i] \in T /\ s[i + 1] \in V
    BY <1>2
  <2>2. \A i \in 0 .. (n - 1) : F[<<acc[i], s[i + 1]>>] = op(acc[i], s[i + 1])
    BY <1>3, <2>1
  <2> QED
    BY <1>10, <2>2 DEF RunOf
<1> QED
  BY <1>1, <1>11, Zenon DEF n, op, PressRun

Codes == Keys \cup {RollOver}
ReportSet == [mods : SUBSET Mods, keys : Seq(Codes)]
Holds(s, k) == Contains(s, k)

\* What the behaviour of a keyboard is while a report is handled.
Behaviours == [modifiers : SUBSET Mods, lastKey : Codes \cup {NoKey},
               locks : SUBSET Locks, made : Seq(Codes)]

LEMMA ReportsTyped ==
  Reports \cup {NoReport} \subseteq ReportSet
<1>0. IsFiniteSet(Keys)
  BY KeyboardAssumption
<1>1. NoReport \in ReportSet
  BY DEF NoReport, ReportSet
<1>2. ASSUME NEW set \in SUBSET Keys, NEW q \in SetToSeqs(set) PROVE q \in Seq(Codes)
  <2>1. Cardinality(set) \in Nat
    BY <1>0, FS_Subset, FS_CardinalityType
  <2>2. q \in [1 .. Cardinality(set) -> set]
    BY <1>0 DEF SetToSeqs
  <2> QED
    BY <2>1, <2>2 DEF Codes
<1>3. <<RollOver, RollOver>> \in Seq(Codes)
  BY DEF Codes
<1>4. \A q \in UNION {SetToSeqs(set) : set \in SUBSET Keys} : q \in Seq(Codes)
  BY <1>2
<1>5. Reports \subseteq ReportSet
  <2> SUFFICES ASSUME NEW r \in Reports PROVE r \in ReportSet
    OBVIOUS
  <2> DEFINE Q == (UNION {SetToSeqs(set) : set \in SUBSET Keys})
                    \cup {<<RollOver, RollOver>>}
  <2>0. Reports = {[mods |-> m, keys |-> q] : m \in SUBSET Mods, q \in Q}
    BY DEF Reports
  <2>3. \A q \in Q : q \in Seq(Codes)
    BY <1>3, <1>4
  <2> HIDE DEF Q
  <2>1. PICK m \in SUBSET Mods, q \in Q : r = [mods |-> m, keys |-> q]
    BY <2>0
  <2>2. q \in Seq(Codes)
    BY <2>1, <2>3
  <2> QED
    BY <2>1, <2>2 DEF ReportSet
<1> QED
  BY <1>1, <1>5

LEMMA HasAppended ==
  ASSUME NEW X, NEW s \in Seq(X), NEW e \in X, NEW k
  PROVE  Holds(Append(s, e), k) <=> Holds(s, k) \/ k = e
<1>1. Len(Append(s, e)) = Len(s) + 1 /\ Append(s, e)[Len(s) + 1] = e /\ Len(s) \in Nat
  OBVIOUS
<1>2. \A i \in 1 .. Len(s) : Append(s, e)[i] = s[i]
  OBVIOUS
<1>3. ASSUME Holds(Append(s, e), k) PROVE Holds(s, k) \/ k = e
  <2>1. PICK i \in 1 .. (Len(s) + 1) : Append(s, e)[i] = k
    BY <1>1, <1>3 DEF Holds, Contains
  <2> QED
    BY <1>1, <1>2, <2>1 DEF Holds, Contains
<1>4. ASSUME Holds(s, k) \/ k = e PROVE Holds(Append(s, e), k)
  BY <1>1, <1>2, <1>4 DEF Holds, Contains
<1> QED
  BY <1>3, <1>4

\* c is b after a release of the key, which new has or not.
Releases(new, b, key, c) ==
  /\ c \in Behaviours /\ c.modifiers = b.modifiers /\ c.made = b.made
  /\ Holds(new.keys, key) \/ key # b.lastKey => c.lastKey = b.lastKey
  /\ ~Holds(new.keys, key) /\ key = b.lastKey => c.lastKey = NoKey

LEMMA ReleaseTyped ==
  ASSUME NEW new, NEW b \in Behaviours, NEW key
  PROVE  Releases(new, b, key, Release(new, b, key))
<1>1. CASE Holds(new.keys, key) \/ key # b.lastKey
  BY <1>1 DEF Release, Releases, KeyReleased, Holds
<1>2. CASE ~Holds(new.keys, key) /\ key = b.lastKey
  <2>1. Release(new, b, key) = [b EXCEPT !.lastKey = NoKey]
    BY <1>2 DEF Release, KeyReleased, Holds
  <2> QED
    BY <1>2, <2>1 DEF Releases, Behaviours
<1> QED
  BY <1>1, <1>2

LEMMA PressTyped ==
  ASSUME NEW last, NEW b \in Behaviours, NEW key \in Codes
  PROVE  /\ Press(last, b, key) \in Behaviours
         /\ Press(last, b, key).modifiers = b.modifiers
         /\ Holds(last.keys, key) \/ key = b.lastKey => Press(last, b, key) = b
         /\ ~Holds(last.keys, key) /\ key # b.lastKey =>
              /\ Press(last, b, key).lastKey = key
              /\ Press(last, b, key).made = Append(b.made, key)
<1> DEFINE new == ~Holds(last.keys, key) /\ key # b.lastKey
<1>1. CASE ~new
  BY <1>1 DEF Press, KeyPressed, Holds
<1>2. CASE new
  <2>1. PICK l : l = Translate(b, key)
    OBVIOUS
  <2>2. l \in SUBSET Locks
    BY <2>1 DEF Translate, Behaviours
  <2>3. Press(last, b, key) = [b EXCEPT !.lastKey = key, !.locks = l, !.made = Append(@, key)]
    BY <1>2, <2>1 DEF Press, KeyPressed, Holds
  <2>4. b.made \in Seq(Codes) /\ Append(b.made, key) \in Seq(Codes)
    BY DEF Behaviours
  <2> HIDE DEF new
  <2>5. Press(last, b, key) \in Behaviours
    BY <2>2, <2>3, <2>4 DEF Behaviours
  <2>6. /\ Press(last, b, key).modifiers = b.modifiers
        /\ Press(last, b, key).lastKey = key /\ Press(last, b, key).made = Append(b.made, key)
    BY <2>3 DEF Behaviours
  <2> QED
    BY <1>2, <2>5, <2>6 DEF new
<1> QED
  BY <1>1, <1>2

\* The key remembered is forgotten when it is up.
ReleasedTo(after, start, new, last) ==
  /\ after \in Behaviours /\ after.modifiers = start.modifiers /\ after.made = start.made
  /\ after.lastKey = NoKey \/ after.lastKey = start.lastKey
  /\ Holds(last.keys, after.lastKey) =>
       after.lastKey = NoKey \/ Holds(new.keys, after.lastKey)

LEMMA AllReleased ==
  ASSUME NEW new \in ReportSet, NEW last \in ReportSet, NEW start \in Behaviours, NEW keys,
         keys = last.keys, NEW after, after = ReleaseAll(new, start, keys)
  PROVE  ReleasedTo(after, start, new, last)
<1> DEFINE s == last.keys
           n == Len(s)
<1>1. s \in Seq(Codes) /\ n \in Nat
  BY DEF ReportSet
<1>2. PICK acc \in [0 .. n -> Behaviours] :
        /\ acc[0] = start /\ acc[n] = after
        /\ \A i \in 0 .. (n - 1) : acc[i + 1] = Release(new, acc[i], s[i + 1])
  <2>1. \A x \in Behaviours, v \in Codes : Release(new, x, v) \in Behaviours
    BY ReleaseTyped DEF Releases
  <2> HIDE DEF s
  <2>2. PICK acc \in [0 .. Len(s) -> Behaviours] : ReleaseRun(acc, new, start, s)
    BY <1>1, <2>1, ReleaseUnfolds
  <2> QED
    BY <2>2, Zenon DEF s, ReleaseRun
<1> HIDE DEF s, n
<1> DEFINE P(i) == i <= n =>
             /\ acc[i].modifiers = start.modifiers /\ acc[i].made = start.made
             /\ \/ acc[i].lastKey = NoKey
                \/ /\ acc[i].lastKey = start.lastKey
                   /\ \A j \in 1 .. i : s[j] = start.lastKey => Holds(new.keys, start.lastKey)
           S == {i \in Nat : P(i)}
<1>3. P(0)
  BY <1>2
<1>4. ASSUME NEW i \in Nat, P(i) PROVE P(i + 1)
  <2> SUFFICES ASSUME i + 1 <= n PROVE P(i + 1)
    OBVIOUS
  <2>1. i \in 0 .. (n - 1) /\ acc[i] \in Behaviours /\ acc[i + 1] = Release(new, acc[i], s[i + 1])
    BY <1>1, <1>2
  <2>2. /\ acc[i + 1].modifiers = acc[i].modifiers /\ acc[i + 1].made = acc[i].made
        /\ Holds(new.keys, s[i + 1]) \/ s[i + 1] # acc[i].lastKey => acc[i + 1].lastKey = acc[i].lastKey
        /\ ~Holds(new.keys, s[i + 1]) /\ s[i + 1] = acc[i].lastKey =>
             acc[i + 1].lastKey = NoKey
    <3>1. PICK b, key : b = acc[i] /\ key = s[i + 1]
      OBVIOUS
    <3>2. b \in Behaviours
      BY <2>1, <3>1
    <3>3. PICK c : c = Release(new, b, key)
      OBVIOUS
    <3>4. Releases(new, b, key, c)
      BY <3>2, <3>3, ReleaseTyped
    <3>5. /\ c.modifiers = b.modifiers /\ c.made = b.made
          /\ Holds(new.keys, key) \/ key # b.lastKey => c.lastKey = b.lastKey
          /\ ~Holds(new.keys, key) /\ key = b.lastKey => c.lastKey = NoKey
      BY <3>4 DEF Releases
    <3> QED
      BY <2>1, <3>1, <3>3, <3>5
  <2>3. \A j \in 1 .. (i + 1) : j \in 1 .. i \/ j = i + 1
    OBVIOUS
  <2>4. P(i) /\ i <= n
    BY <1>1, <1>4
  <2>5. acc[i].lastKey = start.lastKey =>
           \/ acc[i + 1].lastKey = NoKey
           \/ acc[i + 1].lastKey = start.lastKey /\ (s[i + 1] = start.lastKey => Holds(new.keys, start.lastKey))
    BY <2>2, Zenon
  <2>6. acc[i].lastKey = NoKey => acc[i + 1].lastKey = NoKey
    BY <2>2, Zenon
  <2> QED
    BY <2>2, <2>3, <2>4, <2>5, <2>6
<1>5. Nat \subseteq S
  <2> HIDE DEF P
  <2>1. 0 \in S /\ \A i \in Nat : i \in S => i + 1 \in S
    BY <1>3, <1>4
  <2> HIDE DEF S
  <2> QED
    BY <2>1, Induction
<1>6. P(n)
  <2> HIDE DEF P
  <2> QED
    BY <1>1, <1>5 DEF n
<1>7. after \in Behaviours
  <2>1. n \in 0 .. n
    BY <1>1 DEF n
  <2> QED
    BY <1>2, <2>1
<1>8. n <= n /\ acc[n] = after
  BY <1>1, <1>2 DEF n
<1>9. \A k : Holds(last.keys, k) <=> \E j \in 1 .. n : s[j] = k
  BY DEF Holds, Contains, s, n
<1> QED
  BY <1>6, <1>7, <1>8, <1>9 DEF ReleasedTo

\* Exactly the keys that were not in the last report make an event.
LEMMA AllPressed ==
  ASSUME NEW new \in ReportSet, NEW last \in ReportSet, NEW start \in Behaviours, NEW after,
         start.lastKey = NoKey \/ Holds(last.keys, start.lastKey), start.made = <<>>,
         after = PressAll(last, start, new.keys)
  PROVE  /\ after \in Behaviours /\ after.modifiers = start.modifiers
         /\ \A k \in Codes : Holds(after.made, k) <=> Holds(new.keys, k) /\ ~Holds(last.keys, k)
         /\ after.lastKey = start.lastKey \/ Holds(new.keys, after.lastKey)
<1> DEFINE s == new.keys
           n == Len(s)
<1>1. s \in Seq(Codes) /\ n \in Nat
  BY DEF ReportSet
<1>2. PICK acc \in [0 .. n -> Behaviours] :
        /\ acc[0] = start /\ acc[n] = after
        /\ \A i \in 0 .. (n - 1) : acc[i + 1] = Press(last, acc[i], s[i + 1])
  <2>1. \A x \in Behaviours, v \in Codes : Press(last, x, v) \in Behaviours
    BY PressTyped
  <2> HIDE DEF s
  <2>2. PICK acc \in [0 .. Len(s) -> Behaviours] : PressRun(acc, last, start, s)
    BY <1>1, <2>1, PressUnfolds
  <2> QED
    BY <2>2, Zenon DEF s, PressRun
<1>3. \A i \in 1 .. n : s[i] \in Codes /\ s[i] # NoKey
  BY <1>1, KeyboardAssumption DEF Codes, NoKey, RollOver
<1> HIDE DEF s, n
<1> DEFINE Pressed(i, k) == ~Holds(last.keys, k) /\ \E j \in 1 .. i : s[j] = k
           P(i) == i <= n =>
             /\ acc[i].modifiers = start.modifiers
             /\ \A k \in Codes : Holds(acc[i].made, k) <=> Pressed(i, k)
             /\ acc[i].lastKey = start.lastKey \/ Pressed(i, acc[i].lastKey)
           S == {i \in Nat : P(i)}
<1>4. P(0)
  BY <1>2 DEF Holds, Contains
<1>5. ASSUME NEW i \in Nat, P(i) PROVE P(i + 1)
  <2> SUFFICES ASSUME i + 1 <= n PROVE P(i + 1)
    OBVIOUS
  <2> DEFINE key == s[i + 1]
             fresh == ~Holds(last.keys, key) /\ key # acc[i].lastKey
  <2>1. /\ i \in 0 .. (n - 1) /\ acc[i] \in Behaviours /\ acc[i + 1] = Press(last, acc[i], key)
        /\ key \in Codes /\ key # NoKey
    <3>1. i \in 0 .. (n - 1) /\ i \in 0 .. n /\ i + 1 \in 1 .. n
      BY <1>1
    <3>2. acc[i + 1] = Press(last, acc[i], key)
      BY <1>2, <3>1, Zenon
    <3>3. key \in Codes /\ key # NoKey
      BY <1>3, <3>1, Zenon
    <3> QED
      BY <3>1, <3>2, <3>3
  <2> HIDE DEF key
  <2>2. /\ acc[i + 1].modifiers = acc[i].modifiers
        /\ ~fresh => acc[i + 1] = acc[i]
        /\ fresh => acc[i + 1].lastKey = key /\ acc[i + 1].made = Append(acc[i].made, key)
    <3>1. PICK b : b = acc[i]
      OBVIOUS
    <3>2. b \in Behaviours /\ key \in Codes
      BY <2>1, <3>1
    <3>3. Press(last, b, key).modifiers = b.modifiers
      BY <3>2, PressTyped
    <3>4. Holds(last.keys, key) \/ key = b.lastKey => Press(last, b, key) = b
      BY <3>2, PressTyped
    <3>5. ~Holds(last.keys, key) /\ key # b.lastKey =>
            Press(last, b, key).lastKey = key /\ Press(last, b, key).made = Append(b.made, key)
      BY <3>2, PressTyped
    <3> QED
      BY <2>1, <3>1, <3>3, <3>4, <3>5
  <2>3. \A k : Pressed(i + 1, k) <=> Pressed(i, k) \/ (k = key /\ ~Holds(last.keys, key))
    BY DEF key
  <2>4. \A k : Pressed(i, k) => ~Holds(last.keys, k)
    OBVIOUS
  <2> HIDE DEF Pressed
  <2>5. acc[i].made \in Seq(Codes)
    BY <2>1 DEF Behaviours
  <2>6. CASE fresh
    <3>1. PICK m : m = acc[i].made
      OBVIOUS
    <3>2. m \in Seq(Codes) /\ key \in Codes /\ acc[i + 1].made = Append(m, key)
      BY <2>1, <2>2, <2>5, <2>6, <3>1
    <3>3. \A k : Holds(Append(m, key), k) <=> Holds(m, k) \/ k = key
      BY <3>2, HasAppended
    <3>4. \A k : Holds(acc[i + 1].made, k) <=> Holds(acc[i].made, k) \/ k = key
      BY <3>1, <3>2, <3>3
    <3> QED
      BY <1>1, <1>5, <2>1, <2>2, <2>3, <2>6, <3>4
  <2>7. CASE ~fresh
    <3>1. ~Holds(last.keys, key) => Pressed(i, key)
      BY <1>1, <1>5, <2>1, <2>7
    <3> QED
      BY <1>1, <1>5, <2>1, <2>2, <2>3, <2>7, <3>1
  <2> QED
    BY <2>6, <2>7
<1>6. Nat \subseteq S
  <2> HIDE DEF P
  <2>1. 0 \in S /\ \A i \in Nat : i \in S => i + 1 \in S
    BY <1>4, <1>5
  <2> HIDE DEF S
  <2> QED
    BY <2>1, Induction
<1>7. P(n)
  <2> HIDE DEF P
  <2> QED
    BY <1>1, <1>6 DEF n
<1>8. n <= n /\ acc[n] = after /\ n \in 0 .. n
  BY <1>1, <1>2 DEF n
<1>9. \A k : Holds(new.keys, k) <=> \E j \in 1 .. n : s[j] = k
  BY DEF Holds, Contains, s, n
<1>10. after \in Behaviours
  BY <1>2, <1>8
<1> QED
  BY <1>7, <1>8, <1>9, <1>10

\* Of the history typed, and of the object: what KeysOnce says, with types.
OnceInv ==
  /\ m_LastReport \in ReportSet
  /\ behaviour \in [modifiers : SUBSET Mods, lastKey : Codes \cup {NoKey},
                    locks : SUBSET Locks]
  /\ KeysOnce

Unhandled == UNCHANGED <<m_LastReport, behaviour, typed>>

LEMMA OnceInit == ASSUME KeyboardInit PROVE OnceInv
<1>1. /\ m_LastReport = NoReport
      /\ behaviour = [modifiers |-> {}, lastKey |-> NoKey, locks |-> {"Num"}]
      /\ typed = [k \in Keys |-> 0]
  BY Zenon DEF KeyboardInit
<1>2. m_LastReport \in ReportSet
  BY <1>1, ReportsTyped
<1>3. KeysOnce
  BY <1>1 DEF KeysOnce, NoReport, Contains
<1> QED
  BY <1>1, <1>2, <1>3 DEF OnceInv, Locks

LEMMA OnceKept == ASSUME OnceInv, Unhandled PROVE OnceInv'
  BY DEF OnceInv, Unhandled, KeysOnce

LEMMA ReportKeepsOnce ==
  ASSUME OnceInv, NEW new \in ReportSet,
         ReportHandler(new)
  PROVE  OnceInv'
<1> DEFINE modifiers == (behaviour.modifiers \ (m_LastReport.mods \ new.mods))
                          \union (new.mods \ m_LastReport.mods)
           start == [modifiers |-> modifiers, lastKey |-> behaviour.lastKey,
                     locks |-> behaviour.locks, made |-> <<>>]
           up == ReleaseAll(new, start, m_LastReport.keys)
           after == PressAll(m_LastReport, up, new.keys)
<1>1. /\ behaviour' = [modifiers |-> after.modifiers, lastKey |-> after.lastKey,
                       locks |-> after.locks]
      /\ m_LastReport' = new
      /\ typed' = [k \in Keys |->
                     CASE ~Holds(new.keys, k) -> 0
                       [] Holds(after.made, k) -> IF typed[k] = 0 THEN 1 ELSE 2
                       [] OTHER -> typed[k]]
  BY Zenon DEF ReportHandler, Memory, ReleaseAll, PressAll, Release,
               Press, Holds
<1>2. PICK last : last = m_LastReport
  OBVIOUS
<1>3. last \in ReportSet
  BY <1>2 DEF OnceInv
<1>4. modifiers = new.mods
  BY <1>2 DEF OnceInv, KeysOnce, ReportSet
<1>5. /\ start \in Behaviours /\ start.modifiers = new.mods /\ start.made = <<>>
      /\ start.lastKey = NoKey \/ Holds(last.keys, start.lastKey)
  <2>1. new.mods \in SUBSET Mods /\ behaviour.lastKey \in Codes \cup {NoKey}
        /\ behaviour.locks \in SUBSET Locks
    BY DEF OnceInv, ReportSet
  <2>2. behaviour.lastKey = NoKey \/ Holds(last.keys, behaviour.lastKey)
    BY <1>2 DEF OnceInv, KeysOnce, Holds
  <2> QED
    BY <1>4, <2>1, <2>2 DEF Behaviours
<1>6. PICK u : u = up
  OBVIOUS
<1>7. PICK a : a = after
  OBVIOUS
<1>8. PICK b : b = start
  OBVIOUS
<1>9. u = ReleaseAll(new, b, last.keys) /\ a = PressAll(last, u, new.keys)
  BY <1>2, <1>6, <1>7, <1>8, Zenon
<1> HIDE DEF modifiers, start, up, after
<1>10. /\ b \in Behaviours /\ b.modifiers = new.mods /\ b.made = <<>>
       /\ b.lastKey = NoKey \/ Holds(last.keys, b.lastKey)
  BY <1>5, <1>8, Zenon
<1>11. /\ u \in Behaviours /\ u.modifiers = new.mods /\ u.made = <<>>
       /\ \/ u.lastKey = NoKey
          \/ Holds(last.keys, u.lastKey) /\ Holds(new.keys, u.lastKey)
  <2>0. ReleasedTo(u, b, new, last)
    BY <1>3, <1>9, <1>10, AllReleased, Zenon
  <2>1. u \in Behaviours /\ u.modifiers = b.modifiers /\ u.made = b.made
    BY <2>0 DEF ReleasedTo
  <2>2. /\ u.lastKey = NoKey \/ u.lastKey = b.lastKey
        /\ Holds(last.keys, u.lastKey) => u.lastKey = NoKey \/ Holds(new.keys, u.lastKey)
    BY <2>0 DEF ReleasedTo
  <2> QED
    BY <1>10, <2>1, <2>2, Zenon
<1>12. /\ a \in Behaviours /\ a.modifiers = new.mods
       /\ \A k \in Codes : Holds(a.made, k) <=> Holds(new.keys, k) /\ ~Holds(last.keys, k)
       /\ a.lastKey = u.lastKey \/ Holds(new.keys, a.lastKey)
  BY <1>3, <1>9, <1>11, AllPressed
<1>13. a.lastKey = NoKey \/ Holds(new.keys, a.lastKey)
  BY <1>11, <1>12
<1>14. \A k \in Keys : typed[k] = IF Holds(last.keys, k) THEN 1 ELSE 0
  BY <1>2 DEF OnceInv, KeysOnce, Holds
<1>15. \A k \in Keys : typed'[k] = IF Holds(new.keys, k) THEN 1 ELSE 0
  <2> SUFFICES ASSUME NEW k \in Keys PROVE typed'[k] = IF Holds(new.keys, k) THEN 1 ELSE 0
    OBVIOUS
  <2>1. typed'[k] = CASE ~Holds(new.keys, k) -> 0
                      [] Holds(a.made, k) -> IF typed[k] = 0 THEN 1 ELSE 2
                      [] OTHER -> typed[k]
    BY <1>1, <1>7, Zenon
  <2>2. Holds(a.made, k) <=> Holds(new.keys, k) /\ ~Holds(last.keys, k)
    BY <1>12 DEF Codes
  <2> QED
    BY <1>14, <2>1, <2>2
<1>16. /\ behaviour' = [modifiers |-> a.modifiers, lastKey |-> a.lastKey, locks |-> a.locks]
       /\ m_LastReport' = new
  BY <1>1, <1>7, Zenon
<1>17. KeysOnce'
  BY <1>12, <1>13, <1>15, <1>16 DEF KeysOnce, Holds
<1> QED
  BY <1>12, <1>16, <1>17 DEF OnceInv, Behaviours

LEMMA OnceStep ==
  ASSUME KeyTypes, OnceInv, [KeyboardNext]_keyboardVars
  PROVE  OnceInv'
<1>1. CASE Unhandled
  BY <1>1, OnceKept
<1>2. CASE ReportEvent
  <2>1. PICK e : e = Head(events) /\ events # <<>>
    BY <1>2 DEF ReportEvent, Take
  <2>2. e.data \in ReportSet
    <3>1. e \in EventSet
      BY <2>1 DEF KeyTypes
    <3>2. e.data \in Reports \cup {NoReport}
      BY <3>1 DEF EventSet
    <3> QED
      BY <3>2, ReportsTyped
  <2>3. ReportHandler(e.data) \/ Unhandled
    BY <1>2, <2>1, Zenon DEF ReportEvent, Unhandled
  <2> QED
    BY <1>1, <2>2, <2>3, ReportKeepsOnce
<1>3. \/ ReportEvent \/ Unhandled
  BY Zenon DEF KeyboardNext, MainLoop, keyboardVars, driverVars,
     Unhandled, UpdateLEDs, GetLEDStatus, SetLEDs,
     RingDoorbell, Completed, GiveUp, Expire,
     ControlEvent, SendReport, LoseReport,
     SetLamps, RefuseLamps
<1> QED
  BY <1>1, <1>2, <1>3

\* With any keys and modifiers, and in any order of reports, lamp settings and
\* errors: a key makes one event from the first report that has it to the first
\* that has it not, whatever else goes up and down, and nothing sticks.
THEOREM KeysAlwaysOnce == KeyboardSpec => []KeysOnce
<1>1. KeyboardInit => KeyInv /\ OnceInv
  BY KeyInit, OnceInit
<1>2. KeyInv /\ OnceInv /\ [KeyboardNext]_keyboardVars => (KeyInv /\ OnceInv)'
  BY KeyStep, OnceStep DEF KeyInv
<1>3. KeyInv /\ OnceInv => KeysOnce
  BY DEF OnceInv
<1> QED
  BY <1>1, <1>2, <1>3, PTL DEF KeyboardSpec

-----------------------------------------------------------------------------
(* The shell: the parameters.                                               *)

Letters == {"a", "b", "h", "."}
TextChars == Letters \cup {"/"}
AllChars == TextChars \cup {"\\"}
Cells == AllChars \cup {"NUL"}

\* A set of numbers has a first one.
LEMMA FirstExists ==
  ASSUME NEW S \in SUBSET Nat, S # {} PROVE \E x \in S : \A y \in S : x <= y
<1> DEFINE R == {ss \in Nat \X Nat : ss[1] < ss[2]}
<1>1. IsWellFoundedOn(R, Nat)
  BY LessWF
<1> HIDE DEF R
<1>2. PICK x \in S : \A y \in S : <<y, x>> \notin R
  BY <1>1, WFMin
<1>3. \A y \in S : ~(y < x)
  BY <1>2 DEF R
<1> QED
  BY <1>3

\* The text of a buffer ends before the first NUL.
LEMMA EndExists ==
  ASSUME NEW cells, NEW ends, ends = {i \in 1 .. Len(cells) : cells[i] = NUL}
  PROVE  /\ ends = {} => TextIn(cells) = cells
         /\ ends # {} => \E n \in ends : /\ TextIn(cells) = SubSeq(cells, 1, n - 1)
                                         /\ \A j \in ends : n <= j
<1>1. ends = {} => TextIn(cells) = cells
  BY Zenon DEF TextIn
<1>2. ASSUME ends # {}
      PROVE  \E n \in ends : TextIn(cells) = SubSeq(cells, 1, n - 1) /\ \A j \in ends : n <= j
  <2> DEFINE first == CHOOSE i \in ends : \A j \in ends : i <= j
  <2>1. TextIn(cells) = SubSeq(cells, 1, first - 1)
    BY <1>2, Zenon DEF TextIn
  <2>2. first \in ends /\ \A j \in ends : first <= j
    <3>1. ends \in SUBSET Nat
      OBVIOUS
    <3>2. \E i \in ends : \A j \in ends : i <= j
      BY <1>2, <3>1, FirstExists
    <3> QED
      BY <3>2
  <2> HIDE DEF first
  <2> QED
    BY <2>1, <2>2
<1> QED
  BY <1>1, <1>2

LEMMA TextTyped == ASSUME NEW cells \in Seq(Cells) PROVE TextIn(cells) \in Seq(AllChars)
<1> DEFINE ends == {i \in 1 .. Len(cells) : cells[i] = NUL}
<1>1. \A i \in 1 .. Len(cells) : cells[i] \in AllChars \/ i \in ends
  BY DEF Cells, NUL
<1>2. CASE ends = {}
  <2>1. TextIn(cells) = cells
    BY <1>2, EndExists
  <2>2. cells \in Seq(AllChars)
    BY <1>1, <1>2
  <2> QED
    BY <2>1, <2>2
<1>3. CASE ends # {}
  <2>1. PICK n \in ends : TextIn(cells) = SubSeq(cells, 1, n - 1) /\ \A j \in ends : n <= j
    BY <1>3, EndExists
  <2>2. n \in 1 .. Len(cells) /\ \A i \in 1 .. (n - 1) : cells[i] \in AllChars
    BY <1>1, <2>1
  <2>3. SubSeq(cells, 1, n - 1) \in Seq(AllChars)
    BY <2>2
  <2> QED
    BY <2>1, <2>3
<1> QED
  BY <1>2, <1>3

\* A buffer that begins with the cells of a text holds a text that begins with
\* it, and the text itself if a NUL or nothing follows.
LEMMA TextBegins ==
  ASSUME NEW cells \in Seq(Cells), NEW a \in Seq(AllChars), Len(a) <= Len(cells),
         \A i \in 1 .. Len(a) : cells[i] = a[i]
  PROVE  /\ IsPrefix(a, TextIn(cells))
         /\ Len(a) = Len(cells) \/ cells[Len(a) + 1] = NUL => TextIn(cells) = a
<1> DEFINE ends == {i \in 1 .. Len(cells) : cells[i] = NUL}
<1>1. PICK L, M : L = Len(a) /\ M = Len(cells)
  OBVIOUS
<1>2. L \in Nat /\ M \in Nat /\ L <= M /\ \A i \in 1 .. L : i \notin ends
  <2>1. \A i \in 1 .. Len(a) : a[i] \in AllChars
    OBVIOUS
  <2>2. NUL \notin AllChars
    BY DEF NUL, AllChars, TextChars, Letters
  <2> QED
    BY <1>1, <2>1, <2>2
<1>3. PICK m \in Nat : /\ L <= m /\ m <= M /\ TextIn(cells) = SubSeq(cells, 1, m)
                       /\ L = M \/ cells[L + 1] = NUL => m = L
  <2>1. CASE ends = {}
    <3>1. TextIn(cells) = SubSeq(cells, 1, M)
      <4>1. TextIn(cells) = cells
        BY <2>1, EndExists
      <4>2. SubSeq(cells, 1, M) = cells
        BY <1>1
      <4> QED
        BY <4>1, <4>2
    <3>2. cells[L + 1] = NUL => L = M
      BY <1>1, <1>2, <2>1
    <3> QED
      BY <1>2, <3>1, <3>2
  <2>2. CASE ends # {}
    <3>1. PICK n \in ends : TextIn(cells) = SubSeq(cells, 1, n - 1) /\ \A j \in ends : n <= j
      BY <2>2, EndExists
    <3>2. n \in 1 .. M /\ n > L
      BY <1>1, <1>2, <3>1
    <3>3. L # M /\ cells[L + 1] = NUL => L + 1 \in ends
      BY <1>1, <1>2
    <3>4. L # M
      BY <1>2, <3>2
    <3>5. PICK m \in Nat : m = n - 1
      BY <1>2, <3>2
    <3>6. L <= m /\ m <= M
      BY <1>2, <3>2, <3>5
    <3>7. cells[L + 1] = NUL => m = L
      BY <1>2, <3>1, <3>2, <3>3, <3>4, <3>5
    <3> QED
      BY <3>1, <3>4, <3>5, <3>6, <3>7, Zenon
  <2> QED
    BY <2>1, <2>2
<1>4. PICK t : t = TextIn(cells)
  OBVIOUS
<1>5. Len(t) = m /\ \A i \in 1 .. m : t[i] = cells[i]
  BY <1>1, <1>3, <1>4
<1>6. SubSeq(t, 1, L) = a
  <2>1. t \in Seq(Cells)
    BY <1>1, <1>3, <1>4
  <2>2. SubSeq(t, 1, L) \in Seq(Cells) /\ Len(SubSeq(t, 1, L)) = L
    BY <1>2, <1>3, <1>5, <2>1
  <2>3. \A i \in 1 .. L : SubSeq(t, 1, L)[i] = a[i]
    BY <1>1, <1>2, <1>3, <1>5, <2>1
  <2> QED
    BY <1>1, <1>2, <2>2, <2>3
<1>7. SubSeq(a, 1, L) = a
  BY <1>1
<1>8. IsPrefix(a, t)
  BY <1>1, <1>3, <1>5, <1>6, <1>7 DEF IsPrefix
<1>9. m = L => t = a
  BY <1>1, <1>3, <1>4, <1>5, <1>6
<1> QED
  BY <1>1, <1>3, <1>4, <1>8, <1>9

\* Any line, and the cells that a line leaves in the buffer.
LEMMA LineTyped ==
  ASSUME NEW line \in Lines
  PROVE  /\ NameLength[line.name] \in Nat
         /\ line.older \in Seq(Cells)
         /\ \/ line.args = <<>>
            \/ Len(line.args) = 1 /\ line.args[1] \in Seq(AllChars)
            \/ Len(line.args) = 2 /\ line.args[1] \in Seq(AllChars)
<1>1. \A a \in ArgOne \cup ArgTwo : a \in Seq(AllChars)
  BY ShellAssumption DEF AllChars, TextChars, Letters
<1>2. \A left \in Older : left \in Seq(Cells)
  BY ShellAssumption DEF Cells, AllChars, TextChars, Letters, NUL
<1>3. line.name \in DOMAIN NameLength /\ line.args \in ArgLists /\ line.older \in Older
  BY DEF Lines
<1>4. NameLength[line.name] \in Nat
  BY <1>3 DEF NameLength
<1> QED
  BY <1>1, <1>2, <1>3, <1>4 DEF ArgLists

LEMMA EmptiedTyped ==
  ASSUME NEW cells \in Seq(Cells) PROVE Emptied(cells) \in Seq(Cells) /\ Len(Emptied(cells)) = Len(cells)
<1>1. CASE cells = <<>>
  BY <1>1 DEF Emptied
<1>2. CASE cells # <<>>
  <2>1. PICK c : c = NUL /\ c \in Cells
    BY DEF Cells, NUL
  <2>2. Emptied(cells) = [cells EXCEPT ![1] = c] /\ 1 \in 1 .. Len(cells)
    BY <1>2, <2>1 DEF Emptied
  <2> QED
    BY <2>1, <2>2
<1> QED
  BY <1>1, <1>2

LEMMA CopiesTyped ==
  ASSUME NEW line \in Lines, line.args # <<>>
  PROVE  /\ Copies(line) \in Seq(Cells)
         /\ Len(line.args[1]) <= Len(Copies(line))
         /\ \A i \in 1 .. Len(line.args[1]) : Copies(line)[i] = line.args[1][i]
         /\ Len(line.args) = 2 => Copies(line) = line.args[1]
         /\ Len(line.args) # 2 => /\ Len(line.args[1]) < Len(Copies(line))
                                  /\ Copies(line)[Len(line.args[1]) + 1] = NUL
<1>1. PICK a, n, left : a = line.args[1] /\ n = NameLength[line.name] /\ left = line.older
  OBVIOUS
<1>2. a \in Seq(Cells) /\ n \in Nat /\ left \in Seq(Cells) /\ NUL \in Cells /\ Len(a) \in Nat
  BY <1>1, LineTyped DEF Cells, NUL
<1>3. PICK behind : behind = [i \in 1 .. n |-> IF i <= Len(left) THEN left[i] ELSE NUL]
  OBVIOUS
<1>4. behind \in Seq(Cells) /\ Len(behind) = n
  <2>1. ASSUME NEW i \in 1 .. n PROVE behind[i] \in Cells
    <3>1. behind[i] = IF i <= Len(left) THEN left[i] ELSE NUL
      BY <1>3, Zenon
    <3>2. i <= Len(left) => i \in 1 .. Len(left) /\ left[i] \in Cells
      BY <1>2
    <3> QED
      BY <1>2, <3>1, <3>2, Zenon
  <2>2. DOMAIN behind = 1 .. n
    BY <1>3, Zenon
  <2> QED
    BY <1>2, <1>3, <2>1, <2>2
<1>5. PICK all : all = a \o <<NUL>> \o behind
  OBVIOUS
<1>6. /\ all \in Seq(Cells) /\ Len(all) = Len(a) + 1 + n
      /\ \A i \in 1 .. Len(a) : all[i] = a[i]
      /\ all[Len(a) + 1] = NUL
  <2>1. PICK c : c = a \o <<NUL>>
    OBVIOUS
  <2>2. /\ c \in Seq(Cells) /\ Len(c) = Len(a) + 1 /\ c[Len(a) + 1] = NUL
        /\ \A i \in 1 .. Len(a) : c[i] = a[i]
    BY <1>2, <2>1
  <2>3. all = c \o behind
    BY <1>5, <2>1
  <2>4. all \in Seq(Cells) /\ Len(all) = Len(c) + n /\ \A i \in 1 .. Len(c) : all[i] = c[i]
    <3>1. c \in Seq(Cells) /\ behind \in Seq(Cells)
      BY <1>4, <2>2
    <3>2. c \o behind \in Seq(Cells) /\ Len(c \o behind) = Len(c) + Len(behind)
      BY <3>1
    <3>3. \A i \in 1 .. Len(c) : (c \o behind)[i] = c[i]
      BY <3>1
    <3> QED
      BY <1>4, <2>3, <3>2, <3>3
  <2> QED
    BY <1>2, <2>2, <2>4
<1>7. Copies(line) = IF Len(line.args) = 2 THEN a ELSE all
  BY <1>1, <1>3, <1>5, Zenon DEF Copies
<1> QED
  BY <1>1, <1>2, <1>6, <1>7

LEMMA SplitIs ==
  ASSUME p1 \in Seq(Cells), NEW line \in Lines, line.args # <<>>,
         NEW copied, copied = Copies(line)
  PROVE  /\ SplitCommandLine(line) \in Seq(Cells)
         /\ Len(copied) <= Len(SplitCommandLine(line))
         /\ \A i \in 1 .. Len(copied) : SplitCommandLine(line)[i] = copied[i]
         /\ p1 = <<>> => Len(SplitCommandLine(line)) = Len(copied)
<1>1. PICK e, n, end : /\ e = Emptied(p1) /\ n = (IF Len(p1) > Len(copied) THEN Len(p1) ELSE Len(copied))
                       /\ end = NameLength[line.name] + Len(line.args[1]) + 2
  OBVIOUS
<1>2. /\ e \in Seq(Cells) /\ Len(e) = Len(p1) /\ copied \in Seq(Cells) /\ NUL \in Cells
      /\ Len(copied) \in Nat /\ Len(p1) \in Nat
  BY <1>1, EmptiedTyped, CopiesTyped DEF Cells, NUL
<1>3. PICK split : split = [i \in 1 .. n |-> IF i <= Len(copied) THEN copied[i] ELSE IF i = end THEN NUL ELSE e[i]]
  OBVIOUS
<1>4. SplitCommandLine(line) = split
  BY <1>1, <1>3, Zenon DEF SplitCommandLine
<1>5. n \in Nat /\ Len(copied) <= n /\ \A i \in 1 .. n : i <= Len(copied) \/ i <= Len(e)
  BY <1>1, <1>2
<1>6. \A i \in 1 .. n : (IF i <= Len(copied) THEN copied[i] ELSE IF i = end THEN NUL ELSE e[i]) \in Cells
  BY <1>2, <1>5
<1>7. split \in Seq(Cells) /\ Len(split) = n
  BY <1>3, <1>5, <1>6
<1>8. \A i \in 1 .. Len(copied) : split[i] = copied[i]
  BY <1>2, <1>3, <1>5
<1>9. p1 = <<>> => n = Len(copied)
  BY <1>1, <1>2
<1> QED
  BY <1>4, <1>5, <1>7, <1>8, <1>9

LEMMA SplitTyped ==
  ASSUME p1 \in Seq(Cells), NEW line \in Lines PROVE SplitCommandLine(line) \in Seq(Cells)
<1>1. line.args = <<>> => SplitCommandLine(line) = Emptied(p1)
  BY Zenon DEF SplitCommandLine
<1> QED
  BY <1>1, EmptiedTyped, SplitIs

\* What a command gets begins with the text typed, and is that text if the
\* buffer was cleared.
LEMMA GetsTyped ==
  ASSUME p1 \in Seq(Cells), NEW line \in Lines
  PROVE  /\ IsPrefix(Typed(line), One(line))
         /\ p1 = <<>> => One(line) = Typed(line)
<1>1. CASE line.args = <<>>
  <2>1. PICK e : e = <<>>
    OBVIOUS
  <2>2. Typed(line) = e /\ One(line) = TextIn(Emptied(p1)) /\ (p1 = <<>> => Emptied(p1) = e)
    BY <1>1, <2>1 DEF Typed, One, SplitCommandLine, Emptied
  <2>3. e \in Seq(AllChars) /\ e \in Seq(Cells) /\ Len(e) = 0
    BY <2>1
  <2> DEFINE x == Emptied(p1)
  <2>4. x \in Seq(Cells) /\ Len(x) \in Nat
    BY EmptiedTyped
  <2> HIDE DEF x
  <2>5. IsPrefix(e, TextIn(x))
    <3>1. Len(e) <= Len(x) /\ \A i \in 1 .. Len(e) : x[i] = e[i]
      BY <2>3, <2>4
    <3> QED
      BY <2>3, <2>4, <3>1, TextBegins
  <2>6. TextIn(e) = e
    <3>1. Len(e) <= Len(e) /\ \A i \in 1 .. Len(e) : e[i] = e[i]
      BY <2>3
    <3> QED
      BY <2>3, <3>1, TextBegins
  <2> QED
    BY <2>2, <2>5, <2>6 DEF x
<1>2. CASE line.args # <<>>
  <2>1. PICK a, copied, split : a = line.args[1] /\ copied = Copies(line) /\ split = SplitCommandLine(line)
    OBVIOUS
  <2>2. Typed(line) = a /\ One(line) = TextIn(split)
    BY <1>2, <2>1 DEF Typed, One
  <2>3. a \in Seq(AllChars)
    BY <1>2, <2>1, LineTyped
  <2>4. /\ copied \in Seq(Cells) /\ Len(a) <= Len(copied)
        /\ \A i \in 1 .. Len(a) : copied[i] = a[i]
        /\ Len(copied) = Len(a) \/ (Len(a) < Len(copied) /\ copied[Len(a) + 1] = NUL)
    BY <1>2, <2>1, CopiesTyped
  <2>5. /\ split \in Seq(Cells) /\ Len(copied) <= Len(split)
        /\ \A i \in 1 .. Len(copied) : split[i] = copied[i]
        /\ p1 = <<>> => Len(split) = Len(copied)
    BY <1>2, <2>1, SplitIs
  <2>6. /\ Len(a) <= Len(split) /\ \A i \in 1 .. Len(a) : split[i] = a[i]
        /\ p1 = <<>> => Len(a) = Len(split) \/ split[Len(a) + 1] = NUL
    <3>1. PICK k, l, m : k = Len(a) /\ l = Len(copied) /\ m = Len(split)
      OBVIOUS
    <3>2. k \in Nat /\ l \in Nat /\ m \in Nat /\ k <= l /\ l <= m
      BY <2>3, <2>4, <2>5, <3>1
    <3>3. \A i \in 1 .. k : i \in 1 .. l
      BY <3>2
    <3>4. \A i \in 1 .. k : split[i] = a[i]
      BY <2>4, <2>5, <3>1, <3>3
    <3>5. p1 = <<>> => k = m \/ split[k + 1] = NUL
      <4>1. k < l => k + 1 \in 1 .. l
        BY <3>2
      <4> QED
        BY <2>4, <2>5, <3>1, <4>1
    <3> QED
      BY <3>1, <3>2, <3>4, <3>5
  <2>7. /\ IsPrefix(a, TextIn(split))
        /\ Len(a) = Len(split) \/ split[Len(a) + 1] = NUL => TextIn(split) = a
    BY <2>3, <2>5, <2>6, TextBegins
  <2> QED
    BY <2>2, <2>6, <2>7
<1> QED
  BY <1>1, <1>2

\* Only an early return leaves something in the buffer.
ParamInv == p1 \in Seq(Cells) /\ (~early => p1 = <<>>)

LEMMA StepParam ==
  ASSUME ParamInv, NEW line \in Lines, CommandLineIn(line)
  PROVE  ParamInv' /\ (got' # "typed" => got' = "longer" /\ early)
<1>1. \/ p1' = <<>>
      \/ p1' = SplitCommandLine(line) /\ early'
  BY Zenon DEF CommandLineIn, ChangeDir, CreateFile, CreateDir, Delete, Copy, Move, RefuseCopy,
     WriteTo, Echo, Show, ClearParameters, KeepParameters
<1>2. Record(line)
  BY Zenon DEF CommandLineIn, ChangeDir, CreateFile, CreateDir, Delete, Copy, Move, RefuseCopy,
     WriteTo, Echo, Show, ClearParameters, KeepParameters
<1>3. SplitCommandLine(line) \in Seq(Cells) /\ <<>> \in Seq(Cells)
  BY SplitTyped DEF ParamInv
<1>4. ParamInv'
  BY <1>1, <1>3 DEF ParamInv
<1>5. IsPrefix(Typed(line), One(line)) /\ (~early => One(line) = Typed(line))
  BY GetsTyped DEF ParamInv
<1>6. got' # "typed" => got' = "longer" /\ One(line) # Typed(line)
  <2>1. got' = IF One(line) = Typed(line) THEN "typed"
               ELSE IF IsPrefix(Typed(line), One(line)) THEN "longer" ELSE "other"
    BY <1>2, Zenon DEF Record
  <2>2. CASE One(line) = Typed(line)
    BY <2>1, <2>2, Zenon
  <2>3. CASE One(line) # Typed(line)
    BY <1>5, <2>1, <2>3, Zenon
  <2> QED
    BY <2>2, <2>3, Zenon
<1> QED
  BY <1>4, <1>5, <1>6

LEMMA InitParam == ShellInit => ParamInv
<1>1. ShellInit => p1 = <<>>
  BY Zenon DEF ShellInit
<1> QED
  BY <1>1 DEF ParamInv

LEMMA NextParam == ASSUME ParamInv, ShellNext PROVE ParamInv'
<1>1. CASE Halted
  BY <1>1 DEF Halted, shellVars, ParamInv
<1> QED
  BY <1>1, StepParam DEF ShellNext

\* Whatever the texts are and whatever older lines have left in the buffers: a
\* command gets more than the parameter typed only if the command before it
\* has returned early, and then a text that begins with it.
THEOREM ParametersTyped ==
  ShellSpec => ParameterAsTyped
<1>1. ShellInit => ParamInv
  BY InitParam
<1>2. ParamInv /\ [ShellNext]_shellVars => ParamInv'
  BY NextParam DEF shellVars, ParamInv
<1>3. ParamInv /\ [ShellNext]_shellVars => [got' # "typed" => got' = "longer" /\ early]_shellVars
  <2>1. ASSUME ParamInv, ShellNext PROVE [got' # "typed" => got' = "longer" /\ early]_shellVars
    BY <2>1, StepParam DEF ShellNext, Halted
  <2> QED
    BY <2>1
<1> QED
  BY <1>1, <1>2, <1>3, PTL DEF ShellSpec, ParameterAsTyped

-----------------------------------------------------------------------------
(* The tree on the card.                                                    *)

\* The card as a tree: every object lies in a directory, nothing is both, and
\* neither the root nor the current directory of FatFs goes away.
Tree ==
  /\ <<>> \in dirs /\ cwd \in dirs
  /\ \A q \in (dirs \cup DOMAIN files) \ {<<>>} : Parent(q) \in dirs
  /\ dirs \cap DOMAIN files = {}

LEMMA InitTree == ASSUME ShellInit PROVE Tree
<1>1. HomeDir \in Seq(Seq({"a", "b", "h"}))
  BY ShellAssumption
<1>2. DOMAIN files = {} /\ cwd = HomeDir /\ dirs = {SubSeq(HomeDir, 1, n) : n \in 0 .. Len(HomeDir)}
  <2>1. files = <<>> /\ cwd = HomeDir /\ dirs = {SubSeq(HomeDir, 1, n) : n \in 0 .. Len(HomeDir)}
    BY Zenon DEF ShellInit
  <2>2. DOMAIN <<>> = {}
    OBVIOUS
  <2> QED
    BY <2>1, <2>2, Zenon
<1>3. SubSeq(HomeDir, 1, 0) = <<>> /\ SubSeq(HomeDir, 1, Len(HomeDir)) = HomeDir
  BY <1>1
<1>4. ASSUME NEW n \in 0 .. Len(HomeDir), SubSeq(HomeDir, 1, n) # <<>>
      PROVE  Parent(SubSeq(HomeDir, 1, n)) = SubSeq(HomeDir, 1, n - 1) /\ n # 0
  BY <1>1, <1>4 DEF Parent
<1>5. ASSUME NEW q \in dirs, q # <<>> PROVE Parent(q) \in dirs
  <2>1. PICK n \in 0 .. Len(HomeDir) : q = SubSeq(HomeDir, 1, n)
    BY <1>2
  <2>2. Parent(q) = SubSeq(HomeDir, 1, n - 1) /\ n # 0
    BY <1>4, <1>5, <2>1
  <2>3. n - 1 \in 0 .. Len(HomeDir)
    BY <1>1, <2>2
  <2> QED
    BY <1>2, <2>2, <2>3
<1>6. <<>> \in dirs /\ cwd \in dirs
  <2>1. 0 \in 0 .. Len(HomeDir) /\ Len(HomeDir) \in 0 .. Len(HomeDir)
    BY <1>1
  <2> QED
    BY <1>2, <1>3, <2>1
<1> QED
  BY <1>2, <1>5, <1>6 DEF Tree

LEMMA OneOrNone ==
  ASSUME NEW x, NEW y, NEW z, NEW B, NEW C, x \in {y} \cup (IF B /\ C THEN {z} ELSE {})
  PROVE  x = y \/ (C /\ x = z)
<1>1. CASE B /\ C
  <2>1. x \in {y} \cup {z}
    BY <1>1, Zenon
  <2>2. x = y \/ x = z
    BY <2>1
  <2> QED
    BY <1>1, <2>2, Zenon
<1>2. CASE ~(B /\ C)
  <2>1. x \in {y} \cup {}
    BY <1>2, Zenon
  <2> QED
    BY <2>1
<1> QED
  BY <1>1, <1>2, Zenon

LEMMA StepTree == ASSUME Tree, ShellNext PROVE Tree'
<1>1. CASE Halted
  BY <1>1 DEF Halted, shellVars, Tree
<1>2. ASSUME NEW line \in Lines, CommandLineIn(line) PROVE Tree'
  \* A file that is made or written over.
  <2>1. ASSUME NEW path, NEW content, Creatable(path)
        PROVE  /\ DOMAIN PutFile(path, content) = DOMAIN files \cup {path}
               /\ path \notin dirs /\ Parent(path) \in dirs
    BY <2>1 DEF PutFile, Creatable
  <2> DEFINE Makes(path, content) ==
               /\ Creatable(path) /\ files' = PutFile(path, content)
               /\ cwd' = cwd /\ dirs' = dirs
  <2>11. ASSUME NEW path, NEW content, Makes(path, content) PROVE Tree'
    <3>1. /\ DOMAIN files' = DOMAIN files \cup {path} /\ cwd' = cwd /\ dirs' = dirs
          /\ path \notin dirs /\ Parent(path) \in dirs
      BY <2>1, <2>11, Zenon
    <3>2. PICK D, E : D = DOMAIN files /\ E = DOMAIN files' /\ E = D \cup {path}
      BY <3>1
    <3> QED
      BY <3>1, <3>2 DEF Tree
  <2> HIDE DEF Makes
  \* What a failing f_open leaves.
  <2>12. ASSUME NEW path, files' \in Spoiled(path), UNCHANGED <<dirs, cwd>> PROVE Tree'
    <3>1. files' = files \/ (path \in DOMAIN files /\ files' = PutFile(path, <<>>))
      BY <2>12, OneOrNone, Zenon DEF Spoiled
    <3>2. path \in DOMAIN files /\ files' = PutFile(path, <<>>) => DOMAIN files' = DOMAIN files
      BY DEF PutFile
    <3>3. DOMAIN files' = DOMAIN files
      BY <3>1, <3>2
    <3> QED
      BY <2>12, <3>3 DEF Tree
  <2>2. CASE ChangeDir(line)
    BY <2>2 DEF ChangeDir, Tree
  <2>3. CASE CreateFile(line)
    <3>1. \/ UNCHANGED <<dirs, cwd>> /\ \E path : files' \in Spoiled(path)
          \/ \E path, content : Makes(path, content)
      BY <2>3, Zenon DEF CreateFile, Makes
    <3> QED
      BY <2>11, <2>12, <3>1, Zenon
  <2>4. CASE CreateDir(line)
    BY <2>4 DEF CreateDir, Creatable, Tree
  <2>5. CASE Delete(line)
    <3>1. PICK path : path = Object(Here(line))
      OBVIOUS
    <3>2. CASE UNCHANGED <<dirs, files>>
      BY <2>5, <3>2 DEF Delete, Tree
    <3>3. CASE Removable(path) /\ files' = Drop(files, path) /\ dirs' = dirs \ {path}
      <4>1. DOMAIN files' = DOMAIN files \ {path} /\ cwd' = cwd
        BY <2>5, <3>3 DEF Drop, Delete
      <4>2. path # <<>> /\ path # cwd /\ \A q \in dirs \cup DOMAIN files : q # <<>> => Parent(q) # path
        BY <3>3 DEF Removable, Tree
      <4> QED
        BY <3>3, <4>1, <4>2 DEF Tree
    <3> QED
      BY <2>5, <3>1, <3>2, <3>3 DEF Delete
  <2>6. CASE Copy(line)
    <3>1. \E path, content : Makes(path, content)
      BY <2>6, Zenon DEF Copy, Copyable, Makes
    <3> QED
      BY <2>11, <3>1, Zenon
  <2>7. CASE Move(line)
    <3>1. PICK content : \/ files' = Drop(PutFile(Target(line), content), Source(line))
                         \/ files' = PutFile(Target(line), content)
      BY <2>7 DEF Move
    <3>2. Creatable(Target(line)) /\ cwd' = cwd /\ dirs' = dirs
      BY <2>7 DEF Move, Copyable
    <3>3. DOMAIN files' \subseteq DOMAIN files \cup {Target(line)}
      <4>1. PICK path, source : path = Target(line) /\ source = Source(line)
        OBVIOUS
      <4>2. files' = Drop(PutFile(path, content), source) \/ files' = PutFile(path, content)
        BY <3>1, <4>1
      <4>3. DOMAIN PutFile(path, content) = DOMAIN files \cup {path}
        BY DEF PutFile
      <4>4. DOMAIN Drop(PutFile(path, content), source) \subseteq DOMAIN PutFile(path, content)
        BY DEF Drop
      <4> QED
        BY <4>1, <4>2, <4>3, <4>4
    <3> QED
      BY <2>1, <3>2, <3>3 DEF Tree
  <2>8. CASE RefuseCopy(line)
    <3>1. UNCHANGED <<dirs, cwd>> /\ (files' \in {files} \/ \E path : files' \in Spoiled(path))
      BY <2>8, Zenon DEF RefuseCopy
    <3>2. CASE files' \in {files}
      BY <3>1, <3>2 DEF Tree
    <3> QED
      BY <2>12, <3>1, <3>2, Zenon
  <2>9. CASE WriteTo(line)
    <3>1. \/ UNCHANGED <<dirs, cwd>> /\ \E path : files' \in Spoiled(path)
          \/ \E path, content : Makes(path, content)
      BY <2>9, Zenon DEF WriteTo, Makes
    <3> QED
      BY <2>11, <2>12, <3>1, Zenon
  <2>10. CASE Show(line) \/ Echo(line)
    BY <2>10 DEF Show, Echo, Tree
  <2> QED
    BY <1>2, <2>2, <2>3, <2>4, <2>5, <2>6, <2>7, <2>8, <2>9, <2>10 DEF CommandLineIn
<1> QED
  BY <1>1, <1>2 DEF ShellNext

\* No sequence of commands leaves the shell in a directory that was removed,
\* or an object without its directory.
THEOREM TreeKept ==
  ShellSpec => []Tree
<1>1. ShellInit => Tree
  BY InitTree
<1>2. Tree /\ [ShellNext]_shellVars => Tree'
  BY StepTree DEF shellVars, Tree
<1> QED
  BY <1>1, <1>2, PTL DEF ShellSpec

-----------------------------------------------------------------------------
(* The current directory: what the folds of FixWorkingDirectory run.        *)

SeparateAll(b, s) == FoldLeft(Separate, b, s)
EnterAll(b, s) == FoldLeft(EnterSegment, b, s)
Write(text, name) == text \o <<"/">> \o name
WriteAll(b, s) == FoldLeft(LAMBDA text, name : Write(text, name), b, s)

\* The parts of a text, character by character.
SeparateRun(acc, base, s) ==
  /\ acc[0] = base /\ acc[Len(s)] = SeparateAll(base, s)
  /\ \A i \in 0 .. (Len(s) - 1) : acc[i + 1] = Separate(acc[i], s[i + 1])

LEMMA SeparateUnfolds ==
  ASSUME NEW T, NEW V, NEW base \in T, NEW s \in Seq(V),
         \A x \in T, v \in V : Separate(x, v) \in T
  PROVE  \E acc \in [0 .. Len(s) -> T] : SeparateRun(acc, base, s)
<1> DEFINE n == Len(s)
           op(x, v) == Separate(x, v)
           F == [p \in T \X V |-> op(p[1], p[2])]
           Eq(h) == h = [t \in SUBSET (1 .. n) |->
                           IF t = {} THEN base ELSE op(h[t \ {Latest(t)}], s[Latest(t)])]
           It == CHOOSE h : Eq(h)
<1>1. SeparateAll(base, s) = It[1 .. n]
  <2>1. DOMAIN s = 1 .. n
    OBVIOUS
  <2> QED
    BY <2>1, Zenon DEF SeparateAll, FoldLeft, MapThenFoldSet, Max, Latest
<1>2. n \in Nat /\ s \in [1 .. n -> V] /\ F \in [T \X V -> T]
  OBVIOUS
<1> HIDE DEF n
<1>3. \A x \in T, v \in V : F[<<x, v>>] = op(x, v)
  <2> HIDE DEF op
  <2> QED
    OBVIOUS
<1> HIDE DEF F, op
<1>4. PICK g \in [SUBSET (1 .. n) -> T] : Solves(g, F, base, s, n)
  BY <1>2, FoldExists
<1>5. Eq(g)
  <2>1. ASSUME NEW t \in SUBSET (1 .. n), t # {}
        PROVE  F[<<g[t \ {Latest(t)}], s[Latest(t)]>>] = op(g[t \ {Latest(t)}], s[Latest(t)])
    <3>1. g[t \ {Latest(t)}] \in T /\ s[Latest(t)] \in V
      BY <1>2, <1>4, <2>1 DEF Solves
    <3> QED
      BY <1>3, <3>1
  <2> QED
    BY <1>4, <2>1 DEF Solves
<1>6. Eq(It)
  BY <1>5, Zenon
<1> HIDE DEF It
<1>7. It[1 .. 0] = base
  BY <1>2, <1>6
<1>8. \A i \in 0 .. (n - 1) : It[1 .. (i + 1)] = op(It[1 .. i], s[i + 1])
  <2> TAKE i \in 0 .. (n - 1)
  <2>1. i \in Nat /\ 1 .. (i + 1) \in SUBSET (1 .. n)
    BY <1>2
  <2>2. 1 .. (i + 1) # {} /\ Latest(1 .. (i + 1)) = i + 1 /\ (1 .. (i + 1)) \ {i + 1} = 1 .. i
    BY <2>1, LatestOfInterval
  <2> QED
    BY <1>6, <2>1, <2>2
<1>9. StepsOf(It, T, F, base, s, n)
  BY <1>2, <1>3, <1>7, <1>8 DEF StepsOf
<1>10. PICK acc \in [0 .. n -> T] : RunOf(acc, It, F, base, s, n)
  BY <1>2, <1>9, FoldRuns
<1>11. acc[0] = base /\ acc[n] = It[1 .. n] /\ \A i \in 0 .. (n - 1) : acc[i + 1] = op(acc[i], s[i + 1])
  <2>1. \A i \in 0 .. (n - 1) : acc[i] \in T /\ s[i + 1] \in V
    BY <1>2
  <2>2. \A i \in 0 .. (n - 1) : F[<<acc[i], s[i + 1]>>] = op(acc[i], s[i + 1])
    BY <1>3, <2>1
  <2> QED
    BY <1>10, <2>2 DEF RunOf
<1> QED
  BY <1>1, <1>11, Zenon DEF n, op, SeparateRun

\* A walk through the tree, segment by segment.
EnterRun(acc, base, s) ==
  /\ acc[0] = base /\ acc[Len(s)] = EnterAll(base, s)
  /\ \A i \in 0 .. (Len(s) - 1) : acc[i + 1] = EnterSegment(acc[i], s[i + 1])

LEMMA EnterUnfolds ==
  ASSUME NEW T, NEW V, NEW base \in T, NEW s \in Seq(V),
         \A x \in T, v \in V : EnterSegment(x, v) \in T
  PROVE  \E acc \in [0 .. Len(s) -> T] : EnterRun(acc, base, s)
<1> DEFINE n == Len(s)
           op(x, v) == EnterSegment(x, v)
           F == [p \in T \X V |-> op(p[1], p[2])]
           Eq(h) == h = [t \in SUBSET (1 .. n) |->
                           IF t = {} THEN base ELSE op(h[t \ {Latest(t)}], s[Latest(t)])]
           It == CHOOSE h : Eq(h)
<1>1. EnterAll(base, s) = It[1 .. n]
  <2>1. DOMAIN s = 1 .. n
    OBVIOUS
  <2> QED
    BY <2>1, Zenon DEF EnterAll, FoldLeft, MapThenFoldSet, Max, Latest
<1>2. n \in Nat /\ s \in [1 .. n -> V] /\ F \in [T \X V -> T]
  OBVIOUS
<1> HIDE DEF n
<1>3. \A x \in T, v \in V : F[<<x, v>>] = op(x, v)
  <2> HIDE DEF op
  <2> QED
    OBVIOUS
<1> HIDE DEF F, op
<1>4. PICK g \in [SUBSET (1 .. n) -> T] : Solves(g, F, base, s, n)
  BY <1>2, FoldExists
<1>5. Eq(g)
  <2>1. ASSUME NEW t \in SUBSET (1 .. n), t # {}
        PROVE  F[<<g[t \ {Latest(t)}], s[Latest(t)]>>] = op(g[t \ {Latest(t)}], s[Latest(t)])
    <3>1. g[t \ {Latest(t)}] \in T /\ s[Latest(t)] \in V
      BY <1>2, <1>4, <2>1 DEF Solves
    <3> QED
      BY <1>3, <3>1
  <2> QED
    BY <1>4, <2>1 DEF Solves
<1>6. Eq(It)
  BY <1>5, Zenon
<1> HIDE DEF It
<1>7. It[1 .. 0] = base
  BY <1>2, <1>6
<1>8. \A i \in 0 .. (n - 1) : It[1 .. (i + 1)] = op(It[1 .. i], s[i + 1])
  <2> TAKE i \in 0 .. (n - 1)
  <2>1. i \in Nat /\ 1 .. (i + 1) \in SUBSET (1 .. n)
    BY <1>2
  <2>2. 1 .. (i + 1) # {} /\ Latest(1 .. (i + 1)) = i + 1 /\ (1 .. (i + 1)) \ {i + 1} = 1 .. i
    BY <2>1, LatestOfInterval
  <2> QED
    BY <1>6, <2>1, <2>2
<1>9. StepsOf(It, T, F, base, s, n)
  BY <1>2, <1>3, <1>7, <1>8 DEF StepsOf
<1>10. PICK acc \in [0 .. n -> T] : RunOf(acc, It, F, base, s, n)
  BY <1>2, <1>9, FoldRuns
<1>11. acc[0] = base /\ acc[n] = It[1 .. n] /\ \A i \in 0 .. (n - 1) : acc[i + 1] = op(acc[i], s[i + 1])
  <2>1. \A i \in 0 .. (n - 1) : acc[i] \in T /\ s[i + 1] \in V
    BY <1>2
  <2>2. \A i \in 0 .. (n - 1) : F[<<acc[i], s[i + 1]>>] = op(acc[i], s[i + 1])
    BY <1>3, <2>1
  <2> QED
    BY <1>10, <2>2 DEF RunOf
<1> QED
  BY <1>1, <1>11, Zenon DEF n, op, EnterRun

\* The text of a path, name by name.
WriteRun(acc, base, s) ==
  /\ acc[0] = base /\ acc[Len(s)] = WriteAll(base, s)
  /\ \A i \in 0 .. (Len(s) - 1) : acc[i + 1] = Write(acc[i], s[i + 1])

LEMMA WriteUnfolds ==
  ASSUME NEW T, NEW V, NEW base \in T, NEW s \in Seq(V),
         \A x \in T, v \in V : Write(x, v) \in T
  PROVE  \E acc \in [0 .. Len(s) -> T] : WriteRun(acc, base, s)
<1> DEFINE n == Len(s)
           op(x, v) == Write(x, v)
           F == [p \in T \X V |-> op(p[1], p[2])]
           Eq(h) == h = [t \in SUBSET (1 .. n) |->
                           IF t = {} THEN base ELSE op(h[t \ {Latest(t)}], s[Latest(t)])]
           It == CHOOSE h : Eq(h)
<1>1. WriteAll(base, s) = It[1 .. n]
  <2>1. DOMAIN s = 1 .. n
    OBVIOUS
  <2> QED
    BY <2>1, Zenon DEF WriteAll, FoldLeft, MapThenFoldSet, Max, Latest
<1>2. n \in Nat /\ s \in [1 .. n -> V] /\ F \in [T \X V -> T]
  OBVIOUS
<1> HIDE DEF n
<1>3. \A x \in T, v \in V : F[<<x, v>>] = op(x, v)
  <2> HIDE DEF op
  <2> QED
    OBVIOUS
<1> HIDE DEF F, op
<1>4. PICK g \in [SUBSET (1 .. n) -> T] : Solves(g, F, base, s, n)
  BY <1>2, FoldExists
<1>5. Eq(g)
  <2>1. ASSUME NEW t \in SUBSET (1 .. n), t # {}
        PROVE  F[<<g[t \ {Latest(t)}], s[Latest(t)]>>] = op(g[t \ {Latest(t)}], s[Latest(t)])
    <3>1. g[t \ {Latest(t)}] \in T /\ s[Latest(t)] \in V
      BY <1>2, <1>4, <2>1 DEF Solves
    <3> QED
      BY <1>3, <3>1
  <2> QED
    BY <1>4, <2>1 DEF Solves
<1>6. Eq(It)
  BY <1>5, Zenon
<1> HIDE DEF It
<1>7. It[1 .. 0] = base
  BY <1>2, <1>6
<1>8. \A i \in 0 .. (n - 1) : It[1 .. (i + 1)] = op(It[1 .. i], s[i + 1])
  <2> TAKE i \in 0 .. (n - 1)
  <2>1. i \in Nat /\ 1 .. (i + 1) \in SUBSET (1 .. n)
    BY <1>2
  <2>2. 1 .. (i + 1) # {} /\ Latest(1 .. (i + 1)) = i + 1 /\ (1 .. (i + 1)) \ {i + 1} = 1 .. i
    BY <2>1, LatestOfInterval
  <2> QED
    BY <1>6, <2>1, <2>2
<1>9. StepsOf(It, T, F, base, s, n)
  BY <1>2, <1>3, <1>7, <1>8 DEF StepsOf
<1>10. PICK acc \in [0 .. n -> T] : RunOf(acc, It, F, base, s, n)
  BY <1>2, <1>9, FoldRuns
<1>11. acc[0] = base /\ acc[n] = It[1 .. n] /\ \A i \in 0 .. (n - 1) : acc[i + 1] = op(acc[i], s[i + 1])
  <2>1. \A i \in 0 .. (n - 1) : acc[i] \in T /\ s[i + 1] \in V
    BY <1>2
  <2>2. \A i \in 0 .. (n - 1) : F[<<acc[i], s[i + 1]>>] = op(acc[i], s[i + 1])
    BY <1>3, <2>1
  <2> QED
    BY <1>10, <2>2 DEF RunOf
<1> QED
  BY <1>1, <1>11, Zenon DEF n, op, WriteRun

LEMMA SegmentsAre ==
  ASSUME NEW text, NEW parts, parts = SeparateAll(<< <<>> >>, text)
  PROVE  Segments(text) = IF Last(parts) = <<>> THEN Front(parts) ELSE parts
  BY Zenon DEF SeparateAll, Segments

LEMMA FollowIs ==
  ASSUME NEW start, NEW text PROVE Follow(start, text) = EnterAll(start, Segments(text))
  BY Zenon DEF EnterAll, Follow

LEMMA HomeWritten == ShellInit => directory = WriteAll(<<>>, HomeDir)
  BY Zenon DEF ShellInit, WriteAll, Write

-----------------------------------------------------------------------------
(* A text laid out as names behind slashes.                                 *)

Names == Seq(Letters)

\* The first i characters of a text are n names, the k-th behind the slash at st[k].
Laid(text, i, names, st, n) ==
  /\ n \in Nat \ {0} /\ names \in [1 .. n -> Names] /\ st \in [1 .. n -> 1 .. i]
  /\ st[1] = 1 /\ st[n] + Len(names[n]) = i
  /\ \A k \in 1 .. n :
       /\ text[st[k]] = "/"
       /\ \A j \in 1 .. Len(names[k]) : text[st[k] + j] = names[k][j]
       /\ k < n => names[k] # <<>> /\ st[k + 1] = st[k] + Len(names[k]) + 1

\* One character more, which belongs to the last name.
LEMMA LaidLetter ==
  ASSUME NEW text, NEW i \in Nat, NEW names, NEW st, NEW n, Laid(text, i, names, st, n),
         text[i + 1] \in Letters
  PROVE  \E more : Laid(text, i + 1, more, st, n) /\ more[n] # <<>>
<1>0. PICK c, v, w : c = text[i + 1] /\ v = names[n] /\ w = Append(v, c)
  OBVIOUS
<1> DEFINE more == [k \in 1 .. n |-> IF k = n THEN w ELSE names[k]]
<1>1. /\ n \in Nat \ {0} /\ names \in [1 .. n -> Names] /\ st \in [1 .. n -> 1 .. i] /\ n \in 1 .. n
      /\ v \in Names /\ c \in Letters /\ Len(v) \in Nat /\ st[n] + Len(v) = i
      /\ st[1] = 1 /\ st[n] \in 1 .. i
  BY <1>0 DEF Laid, Names
<1>2. /\ w \in Names /\ Len(w) = Len(v) + 1 /\ w[Len(v) + 1] = c /\ w # <<>>
      /\ \A j \in 1 .. Len(v) : w[j] = v[j]
  BY <1>0, <1>1 DEF Names
<1>3. more \in [1 .. n -> Names] /\ st \in [1 .. n -> 1 .. (i + 1)]
  BY <1>1, <1>2
<1>4. more[n] = w /\ st[n] + Len(w) = i + 1 /\ st[n] + (Len(v) + 1) = i + 1
  <2>1. st[n] + (Len(v) + 1) = i + 1
    <3>1. PICK a, b : a = st[n] /\ b = Len(v)
      OBVIOUS
    <3>2. a \in Nat /\ b \in Nat /\ a + b = i
      BY <1>1, <3>1
    <3>3. a + (b + 1) = i + 1
      BY <3>2
    <3> QED
      BY <3>1, <3>3
  <2>2. more[n] = w
    BY <1>1
  <2> QED
    BY <1>2, <2>1, <2>2
<1>5. ASSUME NEW k \in 1 .. n
      PROVE  /\ text[st[k]] = "/"
             /\ \A j \in 1 .. Len(more[k]) : text[st[k] + j] = more[k][j]
             /\ k < n => more[k] # <<>> /\ st[k + 1] = st[k] + Len(more[k]) + 1
  <2>1. CASE k = n
    <3>1. \A j \in 1 .. Len(w) : j \in 1 .. Len(v) \/ j = Len(v) + 1
      BY <1>1, <1>2
    <3>2. \A j \in 1 .. Len(v) : text[st[n] + j] = v[j]
      BY <1>0, <1>1 DEF Laid
    <3>3. text[st[n] + (Len(v) + 1)] = w[Len(v) + 1]
      BY <1>0, <1>2, <1>4
    <3>4. text[st[n]] = "/"
      BY <1>1 DEF Laid
    <3> QED
      BY <1>2, <1>4, <2>1, <3>1, <3>2, <3>3, <3>4
  <2>2. CASE k # n
    <3>1. more[k] = names[k]
      BY <2>2
    <3> QED
      BY <2>2, <3>1 DEF Laid
  <2> QED
    BY <2>1, <2>2
<1> HIDE DEF more
<1>6. Laid(text, i + 1, more, st, n)
  BY <1>1, <1>3, <1>4, <1>5 DEF Laid
<1> QED
  BY <1>2, <1>4, <1>6

\* Or which begins a name.
LEMMA LaidSlash ==
  ASSUME NEW text, NEW i \in Nat, NEW names, NEW st, NEW n, Laid(text, i, names, st, n),
         text[i + 1] = "/", text[i] # "/"
  PROVE  \E more, sts, m : Laid(text, i + 1, more, sts, m)
<1> DEFINE more == [k \in 1 .. (n + 1) |-> IF k = n + 1 THEN <<>> ELSE names[k]]
           sts == [k \in 1 .. (n + 1) |-> IF k = n + 1 THEN i + 1 ELSE st[k]]
<1>1. /\ n \in Nat \ {0} /\ names \in [1 .. n -> Names] /\ st \in [1 .. n -> 1 .. i] /\ n \in 1 .. n
      /\ names[n] \in Names /\ Len(names[n]) \in Nat /\ st[n] + Len(names[n]) = i
      /\ text[st[n]] = "/" /\ st[1] = 1
  BY DEF Laid, Names
<1>2. names[n] # <<>>
  BY <1>1
<1>3. <<>> \in Names /\ Len(<<>>) = 0
  BY DEF Names
<1>4. more \in [1 .. (n + 1) -> Names] /\ sts \in [1 .. (n + 1) -> 1 .. (i + 1)] /\ n + 1 \in Nat \ {0}
  BY <1>1, <1>3
<1>5. more[n + 1] = <<>> /\ sts[n + 1] = i + 1 /\ sts[1] = 1 /\ sts[n + 1] + Len(more[n + 1]) = i + 1
  BY <1>1, <1>3
<1>6. ASSUME NEW k \in 1 .. (n + 1)
      PROVE  /\ text[sts[k]] = "/"
             /\ \A j \in 1 .. Len(more[k]) : text[sts[k] + j] = more[k][j]
             /\ k < n + 1 => more[k] # <<>> /\ sts[k + 1] = sts[k] + Len(more[k]) + 1
  <2>1. CASE k = n + 1
    BY <1>1, <1>3, <1>5, <2>1
  <2>2. CASE k # n + 1
    <3>1. k \in 1 .. n /\ more[k] = names[k] /\ sts[k] = st[k]
      BY <1>1, <2>2
    <3>2. text[st[k]] = "/" /\ \A j \in 1 .. Len(names[k]) : text[st[k] + j] = names[k][j]
      BY <3>1 DEF Laid
    <3>3. CASE k = n
      BY <1>1, <1>2, <1>5, <3>1, <3>2, <3>3
    <3>4. CASE k # n
      <4>1. k < n /\ k + 1 \in 1 .. (n + 1) /\ k + 1 # n + 1
        BY <1>1, <3>1, <3>4
      <4>2. names[k] # <<>> /\ st[k + 1] = st[k] + Len(names[k]) + 1 /\ sts[k + 1] = st[k + 1]
        BY <3>1, <4>1 DEF Laid
      <4> QED
        BY <3>1, <3>2, <4>2
    <3> QED
      BY <3>3, <3>4
  <2> QED
    BY <2>1, <2>2
<1> HIDE DEF more, sts
<1>7. Laid(text, i + 1, more, sts, n + 1)
  BY <1>4, <1>5, <1>6 DEF Laid
<1> QED
  BY <1>7

\* A text with a name behind each slash, the first one at its start.
Spaced(text) ==
  /\ text \in Seq(TextChars) /\ text # <<>> /\ text[1] = "/"
  /\ \A i \in 1 .. Len(text) : text[i] = "/" => i + 1 \in 1 .. Len(text) /\ text[i + 1] # "/"

LEMMA SpacedIsLaid ==
  ASSUME NEW text, Spaced(text)
  PROVE  \E names, st, n : Laid(text, Len(text), names, st, n) /\ names[n] # <<>>
<1> DEFINE L == Len(text)
           P(i) == i + 1 <= L => \E names, st, n : Laid(text, i + 1, names, st, n)
           S == {i \in Nat : P(i)}
<1>1. L \in Nat /\ L # 0 /\ \A i \in 1 .. L : text[i] \in TextChars
  BY DEF Spaced
<1>2. P(0)
  <2>1. PICK names, st : names = [k \in 1 .. 1 |-> <<>>] /\ st = [k \in 1 .. 1 |-> 1]
    OBVIOUS
  <2>2. /\ names \in [1 .. 1 -> Names] /\ st \in [1 .. 1 -> 1 .. 1]
        /\ names[1] = <<>> /\ st[1] = 1 /\ Len(names[1]) = 0
    BY <2>1 DEF Names
  <2>3. Laid(text, 1, names, st, 1)
    BY <2>2 DEF Laid, Spaced
  <2> QED
    BY <2>3
<1>3. ASSUME NEW i \in Nat, P(i) PROVE P(i + 1)
  <2> SUFFICES ASSUME i + 1 + 1 <= L PROVE \E names, st, n : Laid(text, i + 1 + 1, names, st, n)
    OBVIOUS
  <2>1. PICK names, st, n : Laid(text, i + 1, names, st, n)
    BY <1>1, <1>3
  <2>2. i + 1 \in Nat /\ i + 1 + 1 \in 1 .. L /\ i + 1 \in 1 .. L
    BY <1>1
  <2>3. text[i + 1 + 1] \in Letters \/ (text[i + 1 + 1] = "/" /\ text[i + 1] # "/")
    BY <1>1, <2>2 DEF Spaced, TextChars
  <2> QED
    BY <2>1, <2>2, <2>3, LaidLetter, LaidSlash
<1>4. Nat \subseteq S
  <2> HIDE DEF P
  <2>1. 0 \in S /\ \A i \in Nat : i \in S => i + 1 \in S
    BY <1>2, <1>3
  <2> HIDE DEF S
  <2> QED
    BY <2>1, Induction
<1>5. P(L - 1)
  <2> HIDE DEF P
  <2>1. L - 1 \in Nat
    BY <1>1
  <2> QED
    BY <1>4, <2>1
<1>6. (L - 1) + 1 = L /\ (L - 1) + 1 <= L
  BY <1>1
<1>7. PICK names, st, n : Laid(text, L, names, st, n)
  BY <1>5, <1>6
<1>8. names[n] # <<>>
  <2>1. n \in 1 .. n /\ text[st[n]] = "/" /\ st[n] + Len(names[n]) = L /\ st[n] \in 1 .. L
    BY <1>7 DEF Laid
  <2>2. st[n] # L
    BY <1>1, <2>1 DEF Spaced
  <2> QED
    BY <2>1, <2>2
<1> QED
  BY <1>7, <1>8

\* What the numbers of a layout say, name by name.
NameAt(text, i, names, st, n, k) ==
  /\ names[k] \in Names /\ Len(names[k]) \in Nat /\ st[k] \in 1 .. i /\ text[st[k]] = "/"
  /\ \A j \in 1 .. Len(names[k]) : text[st[k] + j] = names[k][j] /\ names[k][j] \in Letters
  /\ k = n => st[k] + Len(names[k]) = i
  /\ k # n => names[k] # <<>> /\ st[k + 1] = st[k] + Len(names[k]) + 1 /\ k + 1 \in 1 .. n

LEMMA LaidName ==
  ASSUME NEW text, NEW i \in Nat, NEW names, NEW st, NEW n, Laid(text, i, names, st, n),
         NEW k \in 1 .. n
  PROVE  NameAt(text, i, names, st, n, k)
<1>1. names[k] \in Names /\ st[k] \in 1 .. i /\ n \in Nat
  BY DEF Laid
<1>2. PICK v : v = names[k]
  OBVIOUS
<1>3. Len(v) \in Nat /\ \A j \in 1 .. Len(v) : v[j] \in Letters
  BY <1>1, <1>2 DEF Names
<1>4. text[st[k]] = "/" /\ \A j \in 1 .. Len(names[k]) : text[st[k] + j] = names[k][j]
  BY DEF Laid
<1>5. k = n => st[k] + Len(names[k]) = i
  BY DEF Laid
<1>6. k # n => names[k] # <<>> /\ st[k + 1] = st[k] + Len(names[k]) + 1 /\ k + 1 \in 1 .. n
  BY <1>1 DEF Laid
<1> QED
  BY <1>1, <1>2, <1>3, <1>4, <1>5, <1>6 DEF NameAt

\* Each name ends before the next slash.
Rises(names, st, n) == \A k, l \in 1 .. n : k < l => st[k] + Len(names[k]) < st[l]

LEMMA LaidRises ==
  ASSUME NEW text, NEW i \in Nat, NEW names, NEW st, NEW n, Laid(text, i, names, st, n)
  PROVE  Rises(names, st, n)
<1> DEFINE P(l) == \A k \in 1 .. n : l \in 1 .. n /\ k < l => st[k] + Len(names[k]) < st[l]
           S == {l \in Nat : P(l)}
<1>0. n \in Nat
  BY DEF Laid
<1>1. P(0)
  OBVIOUS
<1>2. ASSUME NEW l \in Nat, P(l) PROVE P(l + 1)
  <2> SUFFICES ASSUME NEW k \in 1 .. n, l + 1 \in 1 .. n, k < l + 1
               PROVE  st[k] + Len(names[k]) < st[l + 1]
    OBVIOUS
  <2>1. l \in 1 .. n /\ l # n
    BY <1>0
  <2>2. Len(names[l]) \in Nat /\ st[l] \in 1 .. i /\ st[l + 1] = st[l] + Len(names[l]) + 1
    <3>1. NameAt(text, i, names, st, n, l)
      BY <2>1, LaidName
    <3> QED
      BY <2>1, <3>1 DEF NameAt
  <2>3. Len(names[k]) \in Nat /\ st[k] \in 1 .. i
    <3>1. NameAt(text, i, names, st, n, k)
      BY LaidName
    <3> QED
      BY <3>1 DEF NameAt
  <2>4. k = l \/ k < l
    BY <2>1
  <2>5. k < l => st[k] + Len(names[k]) < st[l]
    BY <1>2, <2>1
  <2> HIDE DEF P, S
  <2>6. CASE k = l
    BY <2>2, <2>6
  <2>7. CASE k < l
    <3>1. PICK a, b, c : a = st[k] + Len(names[k]) /\ b = st[l] /\ c = Len(names[l])
      OBVIOUS
    <3>2. a \in Nat
      BY <2>3, <3>1
    <3>3. b \in Nat
      BY <2>2, <3>1
    <3>4. c \in Nat /\ st[l + 1] = b + c + 1
      BY <2>2, <3>1, Zenon
    <3>5. a < b
      BY <2>5, <2>7, <3>1, Zenon
    <3>6. a < b + c + 1
      BY <3>2, <3>3, <3>4, <3>5
    <3> QED
      BY <3>1, <3>4, <3>6, Zenon
  <2> QED
    BY <2>4, <2>6, <2>7
<1>3. Nat \subseteq S
  <2> HIDE DEF P
  <2>1. 0 \in S /\ \A l \in Nat : l \in S => l + 1 \in S
    BY <1>1, <1>2
  <2> HIDE DEF S
  <2> QED
    BY <2>1, Induction
<1>4. \A l \in 1 .. n : P(l)
  <2> HIDE DEF P
  <2>1. \A l \in 1 .. n : l \in Nat
    BY <1>0
  <2> QED
    BY <1>3, <2>1
<1> QED
  BY <1>4 DEF Rises

\* Every character is a slash of the layout or belongs to a name.
Covers(i, names, st, n) ==
  \A p \in 1 .. i : \E k \in 1 .. n : \E j \in 0 .. Len(names[k]) : p = st[k] + j

LEMMA LaidCovers ==
  ASSUME NEW text, NEW i \in Nat, NEW names, NEW st, NEW n, Laid(text, i, names, st, n)
  PROVE  Covers(i, names, st, n)
<1> DEFINE Lies(p) == \E k \in 1 .. n : \E j \in 0 .. Len(names[k]) : p = st[k] + j
           P(p) == p + 1 <= i => Lies(p + 1)
           S == {p \in Nat : P(p)}
<1>0. n \in Nat \ {0} /\ 1 \in 1 .. n /\ st[1] = 1
  BY DEF Laid
<1>1. P(0)
  <2>1. Len(names[1]) \in Nat
    <3>1. NameAt(text, i, names, st, n, 1)
      BY <1>0, LaidName
    <3> QED
      BY <3>1 DEF NameAt
  <2>2. 0 \in 0 .. Len(names[1]) /\ 0 + 1 = st[1] + 0
    BY <1>0, <2>1
  <2>3. Lies(0 + 1)
    BY <1>0, <2>2
  <2> QED
    BY <2>3
<1>2. ASSUME NEW p \in Nat, P(p) PROVE P(p + 1)
  <2> SUFFICES ASSUME p + 1 + 1 <= i PROVE Lies(p + 1 + 1)
    OBVIOUS
  <2>1. PICK k \in 1 .. n : \E j \in 0 .. Len(names[k]) : p + 1 = st[k] + j
    BY <1>2
  <2>2. PICK j \in 0 .. Len(names[k]) : p + 1 = st[k] + j
    BY <2>1
  <2>6. NameAt(text, i, names, st, n, k)
    BY LaidName
  <2>3. Len(names[k]) \in Nat /\ st[k] \in 1 .. i
    BY <2>6 DEF NameAt
  <2>4. CASE j < Len(names[k])
    <3>1. j + 1 \in 0 .. Len(names[k]) /\ p + 1 + 1 = st[k] + (j + 1)
      BY <2>2, <2>3, <2>4
    <3> QED
      BY <3>1
  <2>5. CASE j = Len(names[k])
    <3>1. k # n
      <4>1. k = n => st[k] + Len(names[k]) = i
        BY <2>6 DEF NameAt
      <4> QED
        BY <2>2, <2>3, <2>5, <4>1
    <3>2. st[k + 1] = st[k] + Len(names[k]) + 1 /\ k + 1 \in 1 .. n
      BY <2>6, <3>1 DEF NameAt
    <3>3. Len(names[k + 1]) \in Nat /\ st[k + 1] \in 1 .. i
      <4>1. NameAt(text, i, names, st, n, k + 1)
        BY <3>2, LaidName
      <4> QED
        BY <4>1 DEF NameAt
    <3>4. 0 \in 0 .. Len(names[k + 1]) /\ p + 1 + 1 = st[k + 1] + 0
      BY <2>2, <2>3, <2>5, <3>2, <3>3
    <3> QED
      BY <3>2, <3>4
  <2> QED
    BY <2>2, <2>3, <2>4, <2>5
<1>3. Nat \subseteq S
  <2> HIDE DEF P
  <2>1. 0 \in S /\ \A p \in Nat : p \in S => p + 1 \in S
    BY <1>1, <1>2
  <2> HIDE DEF S
  <2> QED
    BY <2>1, Induction
<1> SUFFICES ASSUME NEW p \in 1 .. i PROVE Lies(p)
  BY DEF Covers
<1>4. p - 1 \in Nat /\ (p - 1) + 1 = p /\ p <= i
  OBVIOUS
<1>5. P(p - 1)
  <2> HIDE DEF P
  <2> QED
    BY <1>3, <1>4
<1> HIDE DEF Lies
<1> QED
  BY <1>4, <1>5

\* As many values as arguments, if no two are the same.
LEMMA CountValues ==
  ASSUME NEW n \in Nat, NEW f, \A k, l \in 1 .. n : k < l => f[k] # f[l]
  PROVE  IsFiniteSet({f[k] : k \in 1 .. n}) /\ Cardinality({f[k] : k \in 1 .. n}) = n
<1> DEFINE V(m) == {f[k] : k \in 1 .. m}
           P(m) == m <= n => IsFiniteSet(V(m)) /\ Cardinality(V(m)) = m
           S == {m \in Nat : P(m)}
<1>1. P(0)
  <2>1. V(0) = {}
    OBVIOUS
  <2> QED
    BY <2>1, FS_EmptySet
<1>2. ASSUME NEW m \in Nat, P(m) PROVE P(m + 1)
  <2> SUFFICES ASSUME m + 1 <= n PROVE IsFiniteSet(V(m + 1)) /\ Cardinality(V(m + 1)) = m + 1
    OBVIOUS
  <2>1. V(m + 1) = V(m) \cup {f[m + 1]}
    <3>1. \A k : k \in 1 .. (m + 1) <=> k \in 1 .. m \/ k = m + 1
      OBVIOUS
    <3> QED
      BY <3>1
  <2>2. f[m + 1] \notin V(m)
    <3>1. \A k \in 1 .. m : f[k] # f[m + 1]
      OBVIOUS
    <3> QED
      BY <3>1
  <2>3. IsFiniteSet(V(m)) /\ Cardinality(V(m)) = m
    BY <1>2
  <2> HIDE DEF V
  <2> QED
    BY <2>1, <2>2, <2>3, FS_AddElement
<1>3. Nat \subseteq S
  <2> HIDE DEF P
  <2>1. 0 \in S /\ \A m \in Nat : m \in S => m + 1 \in S
    BY <1>1, <1>2
  <2> HIDE DEF S
  <2> QED
    BY <2>1, Induction
<1>4. P(n)
  <2> HIDE DEF P
  <2> QED
    BY <1>3
<1>5. n <= n
  OBVIOUS
<1> QED
  BY <1>4, <1>5

-----------------------------------------------------------------------------
(* The parts that are split off.                                            *)

\* Parts of which the last one is the first j characters of the k-th name.
Shape(x, names, k, j) ==
  /\ x \in Seq(Names) /\ Len(x) = k /\ \A q \in 1 .. (k - 1) : x[q] = names[q]
  /\ Len(x[k]) = j /\ \A r \in 1 .. j : x[k][r] = names[k][r]

PartSet == Seq(Names) \ {<<>>}

LEMMA SlashSeparates == "/" \in Separators /\ \A c \in Letters : c \notin Separators
  BY DEF Separators, Letters

LEMMA SeparateTyped == \A x \in PartSet, c \in TextChars : Separate(x, c) \in PartSet
<1> SUFFICES ASSUME NEW x \in PartSet, NEW c \in TextChars PROVE Separate(x, c) \in PartSet
  OBVIOUS
<1>1. x \in Seq(Names) /\ x # <<>> /\ Len(x) \in 1 .. Len(x) /\ x[Len(x)] \in Names /\ Len(x) \in Nat
  BY DEF PartSet
<1>2. CASE c # "/"
  <2>1. PICK w, v : w = x[Len(x)] /\ v = Append(w, c)
    OBVIOUS
  <2>2. v \in Names
    BY <1>1, <1>2, <2>1 DEF Names, TextChars
  <2>3. Separate(x, c) = [x EXCEPT ![Len(x)] = v]
    <3>1. c \notin Separators /\ Append(x[Len(x)], c) = v
      BY <1>2, <2>1, SlashSeparates DEF TextChars
    <3> QED
      BY <2>1, <3>1 DEF Separate
  <2>4. [x EXCEPT ![Len(x)] = v] \in Seq(Names) /\ [x EXCEPT ![Len(x)] = v] # <<>>
    BY <1>1, <2>2
  <2> QED
    BY <2>3, <2>4 DEF PartSet
<1>3. CASE c = "/"
  <2>1. Separate(x, c) = x \/ Separate(x, c) = Append(x, <<>>)
    BY <1>3, SlashSeparates DEF Separate
  <2>2. <<>> \in Names
    BY DEF Names
  <2>3. Append(x, <<>>) \in Seq(Names) /\ Append(x, <<>>) # <<>>
    BY <1>1, <2>2
  <2> QED
    BY <2>1, <2>3 DEF PartSet
<1> QED
  BY <1>2, <1>3

LEMMA ShapeLetter ==
  ASSUME NEW x, NEW names, NEW k \in Nat \ {0}, NEW j \in Nat, Shape(x, names, k, j),
         NEW c \in Letters, names[k][j + 1] = c
  PROVE  Shape(Separate(x, c), names, k, j + 1)
<1>1. PICK w, v : w = x[k] /\ v = Append(w, c)
  OBVIOUS
<1>2. x \in Seq(Names) /\ Len(x) = k /\ k \in 1 .. Len(x) /\ w \in Names /\ Len(w) = j
  BY <1>1 DEF Shape
<1>3. v \in Names /\ Len(v) = j + 1 /\ v[j + 1] = c /\ \A r \in 1 .. j : v[r] = w[r]
  BY <1>1, <1>2 DEF Names
<1>4. c \notin Separators
  BY SlashSeparates
<1>5. PICK y : y = Separate(x, c)
  OBVIOUS
<1>6. y = [x EXCEPT ![k] = v]
  BY <1>1, <1>2, <1>4, <1>5 DEF Separate
<1>7. y \in Seq(Names) /\ Len(y) = k /\ y[k] = v /\ \A q \in 1 .. (k - 1) : y[q] = x[q]
  BY <1>2, <1>3, <1>6
<1>8. \A r \in 1 .. (j + 1) : v[r] = names[k][r]
  <2>1. \A r \in 1 .. (j + 1) : r \in 1 .. j \/ r = j + 1
    OBVIOUS
  <2> QED
    BY <1>1, <1>3, <2>1 DEF Shape
<1> QED
  BY <1>3, <1>5, <1>7, <1>8 DEF Shape

LEMMA ShapeSlash ==
  ASSUME NEW x, NEW names, NEW k \in Nat \ {0}, names[k] \in Names, names[k] # <<>>,
         Shape(x, names, k, Len(names[k]))
  PROVE  Shape(Separate(x, "/"), names, k + 1, 0)
<1>1. PICK w, v : w = x[k] /\ v = names[k]
  OBVIOUS
<1>2. x \in Seq(Names) /\ Len(x) = k /\ w \in Names /\ v \in Names /\ v # <<>> /\ Len(w) = Len(v)
      /\ \A r \in 1 .. Len(v) : w[r] = v[r]
  BY <1>1 DEF Shape
<1>3. w = v
  <2>1. v \in Names /\ w \in Names /\ Len(w) = Len(v) /\ \A r \in 1 .. Len(v) : w[r] = v[r]
    BY <1>2
  <2> QED
    BY <2>1 DEF Names
<1>4. PICK y : y = Separate(x, "/")
  OBVIOUS
<1>5. y = Append(x, <<>>)
  BY <1>1, <1>2, <1>3, <1>4, SlashSeparates DEF Separate, Last
<1>6. <<>> \in Names /\ Len(<<>>) = 0
  BY DEF Names
<1>7. y \in Seq(Names) /\ Len(y) = k + 1 /\ y[k + 1] = <<>> /\ \A q \in 1 .. k : y[q] = x[q]
  BY <1>2, <1>5, <1>6
<1>8. \A q \in 1 .. k : q \in 1 .. (k - 1) \/ q = k
  OBVIOUS
<1>9. \A q \in 1 .. k : y[q] = names[q]
  BY <1>1, <1>3, <1>7, <1>8 DEF Shape
<1> QED
  BY <1>4, <1>6, <1>7, <1>9 DEF Shape

\* The names of a text are those of its layout.
LEMMA LaidSegments ==
  ASSUME NEW text \in Seq(TextChars), NEW names, NEW st, NEW n,
         Laid(text, Len(text), names, st, n), names[n] # <<>>
  PROVE  Segments(text) = names
<1> DEFINE L == Len(text)
<1>1. /\ L \in Nat /\ \A i \in 1 .. L : text[i] \in TextChars
      /\ n \in Nat \ {0} /\ n \in 1 .. n /\ 1 \in 1 .. n /\ names \in [1 .. n -> Names] /\ st[1] = 1
  BY DEF Laid
<1>2. PICK acc \in [0 .. L -> PartSet] : SeparateRun(acc, << <<>> >>, text)
  <2>1. << <<>> >> \in PartSet
    BY DEF PartSet, Names
  <2> QED
    BY <2>1, SeparateTyped, SeparateUnfolds
<1>3. /\ acc[0] = << <<>> >> /\ acc[L] = SeparateAll(<< <<>> >>, text)
      /\ \A i \in 0 .. (L - 1) : acc[i + 1] = Separate(acc[i], text[i + 1])
  BY <1>2, Zenon DEF SeparateRun
<1> HIDE DEF L
<1> DEFINE P(i) == i <= L => \A k \in 1 .. n : \A j \in 0 .. Len(names[k]) :
                                i = st[k] + j /\ i # 0 => Shape(acc[i], names, k, j)
           S == {i \in Nat : P(i)}
<1>4. P(0)
  OBVIOUS
<1>5. ASSUME NEW i \in Nat, P(i) PROVE P(i + 1)
  <2> SUFFICES ASSUME i + 1 <= L, NEW k \in 1 .. n, NEW j \in 0 .. Len(names[k]), i + 1 = st[k] + j
               PROVE  Shape(acc[i + 1], names, k, j)
    OBVIOUS
  <2>1. i \in 0 .. (L - 1) /\ i <= L
    BY <1>1
  <2>2. acc[i + 1] = Separate(acc[i], text[i + 1])
    BY <1>3, <2>1
  <2>3. NameAt(text, L, names, st, n, k)
    BY <1>1, LaidName DEF L
  <2>4. Len(names[k]) \in Nat /\ st[k] \in 1 .. L /\ k \in Nat \ {0}
    BY <2>3, <1>1 DEF NameAt
  <2>5. CASE j # 0
    <3>1. /\ j - 1 \in 0 .. Len(names[k]) /\ i = st[k] + (j - 1) /\ i # 0 /\ j \in 1 .. Len(names[k])
          /\ j - 1 \in Nat /\ (j - 1) + 1 = j
      <4>1. PICK a, b : a = st[k] /\ b = Len(names[k])
        OBVIOUS
      <4>2. a \in Nat \ {0} /\ b \in Nat /\ j \in 0 .. b /\ i + 1 = a + j
        BY <1>1, <2>4, <4>1
      <4>3. /\ j - 1 \in 0 .. b /\ i = a + (j - 1) /\ i # 0 /\ j \in 1 .. b
            /\ j - 1 \in Nat /\ (j - 1) + 1 = j
        BY <2>5, <4>2
      <4> QED
        BY <4>1, <4>3
    <3>2. Shape(acc[i], names, k, j - 1)
      BY <1>5, <2>1, <3>1
    <3>3. text[i + 1] = names[k][j] /\ names[k][j] \in Letters
      BY <2>3, <3>1 DEF NameAt
    <3>4. PICK c : c = text[i + 1]
      OBVIOUS
    <3>5. Shape(Separate(acc[i], c), names, k, (j - 1) + 1)
      <4>1. c \in Letters /\ names[k][(j - 1) + 1] = c
        BY <3>1, <3>3, <3>4
      <4> QED
        BY <2>4, <3>1, <3>2, <4>1, ShapeLetter
    <3> QED
      BY <2>2, <3>1, <3>4, <3>5
  <2>6. CASE j = 0
    <3>1. i + 1 = st[k] /\ text[i + 1] = "/"
      BY <2>3, <2>4, <2>6 DEF NameAt
    <3>2. CASE k = 1
      <4>1. i = 0 /\ acc[i] = << <<>> >>
        BY <1>1, <1>3, <3>1, <3>2
      <4>2. Separate(<< <<>> >>, "/") = << <<>> >>
        BY SlashSeparates DEF Separate, Last
      <4>3. acc[i + 1] = << <<>> >>
        BY <2>2, <3>1, <4>1, <4>2
      <4>4. Shape(<< <<>> >>, names, 1, 0)
        BY DEF Shape, Names
      <4> QED
        BY <2>6, <3>2, <4>3, <4>4
    <3>3. CASE k # 1
      <4>1. k - 1 \in 1 .. n /\ k - 1 # n /\ (k - 1) + 1 = k /\ k - 1 \in Nat \ {0}
        BY <1>1, <3>3
      <4>2. NameAt(text, L, names, st, n, k - 1)
        BY <1>1, <4>1, LaidName DEF L
      <4>3. /\ names[k - 1] \in Names /\ names[k - 1] # <<>> /\ Len(names[k - 1]) \in Nat
            /\ st[k - 1] \in 1 .. L /\ st[k] = st[k - 1] + Len(names[k - 1]) + 1
        BY <4>1, <4>2 DEF NameAt
      <4>4. i = st[k - 1] + Len(names[k - 1]) /\ Len(names[k - 1]) \in 0 .. Len(names[k - 1]) /\ i # 0
        <5>1. PICK a, b : a = st[k - 1] /\ b = Len(names[k - 1])
          OBVIOUS
        <5>2. a \in Nat \ {0} /\ b \in Nat
          <6>1. a \in 1 .. L
            BY <4>3, <5>1, Zenon
          <6>2. a \in Nat \ {0}
            BY <6>1
          <6>3. b \in Nat
            BY <4>3, <5>1, Zenon
          <6> QED
            BY <6>2, <6>3
        <5>4. i + 1 = a + b + 1
          BY <3>1, <4>3, <5>1, Zenon
        <5>3. i = a + b /\ b \in 0 .. b /\ i # 0
          BY <5>2, <5>4
        <5> QED
          BY <5>1, <5>3
      <4>5. Shape(acc[i], names, k - 1, Len(names[k - 1]))
        BY <1>5, <2>1, <4>1, <4>4
      <4>6. Shape(Separate(acc[i], "/"), names, (k - 1) + 1, 0)
        BY <4>1, <4>3, <4>5, ShapeSlash
      <4> QED
        BY <2>2, <2>6, <3>1, <4>1, <4>6
    <3> QED
      BY <3>2, <3>3
  <2> QED
    BY <2>5, <2>6
<1>6. Nat \subseteq S
  <2> HIDE DEF P
  <2>1. 0 \in S /\ \A i \in Nat : i \in S => i + 1 \in S
    BY <1>4, <1>5
  <2> HIDE DEF S
  <2> QED
    BY <2>1, Induction
<1>7. P(L)
  <2> HIDE DEF P
  <2> QED
    BY <1>1, <1>6
<1>8. NameAt(text, L, names, st, n, n)
  BY <1>1, LaidName DEF L
<1>9. /\ names[n] \in Names /\ Len(names[n]) \in Nat /\ Len(names[n]) \in 0 .. Len(names[n])
      /\ L = st[n] + Len(names[n]) /\ L # 0 /\ L <= L
  BY <1>1, <1>8 DEF NameAt
<1>10. PICK x : x = acc[L]
  OBVIOUS
<1>11. Shape(x, names, n, Len(names[n]))
  BY <1>1, <1>7, <1>9, <1>10
<1>12. x[n] = names[n]
  <2>1. PICK v, w : v = names[n] /\ w = x[n]
    OBVIOUS
  <2>2. v \in Names /\ w \in Names /\ Len(w) = Len(v) /\ \A r \in 1 .. Len(v) : w[r] = v[r]
    BY <1>1, <1>9, <1>11, <2>1 DEF Shape
  <2>3. v = w
    BY <2>2 DEF Names
  <2> QED
    BY <2>1, <2>3
<1>13. x \in Seq(Names) /\ Len(x) = n /\ \A q \in 1 .. n : x[q] = names[q]
  <2>1. \A q \in 1 .. n : q \in 1 .. (n - 1) \/ q = n
    BY <1>1
  <2> QED
    BY <1>11, <1>12, <2>1 DEF Shape
<1>14. x = names
  BY <1>1, <1>13
<1>15. Last(x) # <<>>
  BY <1>12, <1>13 DEF Last
<1>16. Segments(text) = x
  BY <1>3, <1>10, <1>15, SegmentsAre, Zenon
<1> QED
  BY <1>14, <1>16

-----------------------------------------------------------------------------
(* The slashes, counted.                                                    *)

\* The slashes of a text and how many there are, up to each of them.
LEMMA LaidSlashes ==
  ASSUME NEW text \in Seq(TextChars), NEW names, NEW st, NEW n, Laid(text, Len(text), names, st, n)
  PROVE  /\ Slashes(text) = {st[k] : k \in 1 .. n}
         /\ Cardinality(Slashes(text)) = n
         /\ \A m \in 1 .. n : Cardinality({j \in Slashes(text) : j <= st[m]}) = m
<1> DEFINE L == Len(text)
           V == {st[k] : k \in 1 .. n}
<1>1. L \in Nat /\ n \in Nat \ {0} /\ st \in [1 .. n -> 1 .. L]
  BY DEF Laid
<1>2. \A k, l \in 1 .. n : k < l => st[k] < st[l]
  <2> SUFFICES ASSUME NEW k \in 1 .. n, NEW l \in 1 .. n, k < l PROVE st[k] < st[l]
    OBVIOUS
  <2>1. st[k] + Len(names[k]) < st[l]
    <3>1. Rises(names, st, n)
      BY <1>1, LaidRises
    <3> QED
      BY <3>1 DEF Rises
  <2>2. NameAt(text, L, names, st, n, k)
    BY <1>1, LaidName
  <2> QED
    BY <1>1, <2>1, <2>2 DEF NameAt
<1>3. \A i \in 1 .. L : text[i] = "/" <=> i \in V
  <2> TAKE i \in 1 .. L
  <2>1. ASSUME text[i] = "/" PROVE i \in V
    <3>0. Covers(L, names, st, n)
      BY <1>1, LaidCovers
    <3>1. PICK k \in 1 .. n : \E j \in 0 .. Len(names[k]) : i = st[k] + j
      BY <3>0 DEF Covers
    <3>2. PICK j \in 0 .. Len(names[k]) : i = st[k] + j
      BY <3>1
    <3>3. NameAt(text, L, names, st, n, k)
      BY <1>1, LaidName
    <3>4. j = 0
      <4>1. j \in 1 .. Len(names[k]) => text[i] \in Letters
        BY <3>2, <3>3 DEF NameAt
      <4>2. Len(names[k]) \in Nat /\ "/" \notin Letters
        BY <3>3 DEF NameAt, Letters
      <4> QED
        BY <2>1, <4>1, <4>2
    <3> QED
      BY <1>1, <3>2, <3>4
  <2>2. ASSUME i \in V PROVE text[i] = "/"
    BY <2>2 DEF Laid
  <2> QED
    BY <2>1, <2>2
<1>4. V \subseteq 1 .. L
  BY <1>1
<1>5. Slashes(text) = V
  <2> HIDE DEF V
  <2> QED
    BY <1>3, <1>4 DEF Slashes
<1>6. Cardinality(V) = n
  <2>1. \A k, l \in 1 .. n : k < l => st[k] # st[l]
    BY <1>1, <1>2
  <2> QED
    BY <1>1, <2>1, CountValues
<1>7. ASSUME NEW m \in 1 .. n PROVE Cardinality({j \in V : j <= st[m]}) = m
  <2>1. \A k \in 1 .. n : st[k] <= st[m] <=> k <= m
    <3> TAKE k \in 1 .. n
    <3>1. k < m => st[k] < st[m]
      BY <1>2
    <3>2. m < k => st[m] < st[k]
      BY <1>2
    <3>3. st[k] \in Nat /\ st[m] \in Nat
      BY <1>1
    <3> QED
      BY <1>1, <3>1, <3>2, <3>3
  <2>2. {j \in V : j <= st[m]} = {st[k] : k \in 1 .. m}
    BY <1>1, <2>1
  <2>3. \A k, l \in 1 .. m : k < l => st[k] # st[l]
    BY <1>1, <1>2
  <2>4. m \in Nat
    BY <1>1
  <2>5. Cardinality({st[k] : k \in 1 .. m}) = m
    BY <2>3, <2>4, CountValues
  <2> QED
    BY <2>2, <2>5
<1> HIDE DEF V
<1> QED
  <2>1. Cardinality(Slashes(text)) = n
    BY <1>5, <1>6, Zenon
  <2>2. \A m \in 1 .. n : Cardinality({j \in Slashes(text) : j <= st[m]}) = m
    <3> TAKE m \in 1 .. n
    <3>1. {j \in Slashes(text) : j <= st[m]} = {j \in V : j <= st[m]}
      BY <1>5
    <3> QED
      BY <1>7, <3>1, Zenon
  <2> QED
    BY <1>5, <2>1, <2>2 DEF V

\* The text before a slash, and its layout.
LEMMA BeforeSlash ==
  ASSUME NEW text \in Seq(TextChars), NEW names, NEW st, NEW n, Laid(text, Len(text), names, st, n),
         NEW m \in 1 .. n
  PROVE  Before(text, m) = SubSeq(text, 1, st[m] - 1)
<1>1. /\ \A i \in Slashes(text) : \E k \in 1 .. n : i = st[k]
      /\ \A k \in 1 .. n : /\ st[k] \in Slashes(text)
                           /\ Cardinality({j \in Slashes(text) : j <= st[k]}) = k
  BY LaidSlashes
<1> DEFINE Nth(i) == Cardinality({j \in Slashes(text) : j <= i}) = m
<1>2. st[m] \in Slashes(text) /\ Nth(st[m])
  BY <1>1
<1>3. \A i \in Slashes(text) : Nth(i) => i = st[m]
  <2> SUFFICES ASSUME NEW i \in Slashes(text), Nth(i) PROVE i = st[m]
    OBVIOUS
  <2>1. PICK k \in 1 .. n : i = st[k]
    BY <1>1
  <2>2. Nth(st[k])
    BY <2>1
  <2>3. k = m
    BY <1>1, <2>2
  <2> QED
    BY <2>1, <2>3
<1>4. (CHOOSE i \in Slashes(text) : Nth(i)) = st[m]
  <2> HIDE DEF Nth
  <2> QED
    BY <1>2, <1>3
<1> QED
  BY <1>4, Zenon DEF Before

\* A text that is nothing but names, each behind a slash.
Tidy(t, names, n) ==
  /\ n \in Nat /\ names \in [1 .. n -> Names]
  /\ \/ t = <<>> /\ n = 0
     \/ /\ t \in Seq(TextChars) /\ n # 0 /\ names[n] # <<>>
        /\ \E st : Laid(t, Len(t), names, st, n)

LEMMA LaidBefore ==
  ASSUME NEW text \in Seq(TextChars), NEW names, NEW st, NEW n, Laid(text, Len(text), names, st, n),
         NEW m \in 1 .. n, m # n, NEW t, t = SubSeq(text, 1, st[m + 1] - 1),
         NEW some, some = [k \in 1 .. m |-> names[k]]
  PROVE  Tidy(t, some, m)
<1> DEFINE L == Len(text)
           p == st[m + 1] - 1
           sts == [k \in 1 .. m |-> st[k]]
<1>1. /\ L \in Nat /\ n \in Nat \ {0} /\ st \in [1 .. n -> 1 .. L] /\ m + 1 \in 1 .. n /\ m < n
      /\ names \in [1 .. n -> Names] /\ st[1] = 1 /\ m \in Nat \ {0} /\ 1 <= m
  <2>1. /\ L \in Nat /\ n \in Nat \ {0} /\ st \in [1 .. n -> 1 .. L]
        /\ names \in [1 .. n -> Names] /\ st[1] = 1
    <3>1. L \in Nat
      OBVIOUS
    <3> QED
      BY <3>1, Zenon DEF Laid
  <2>2. m + 1 \in 1 .. n /\ m < n /\ m \in Nat \ {0} /\ 1 <= m
    BY <2>1
  <2> QED
    BY <2>1, <2>2
<1>2. names[m] # <<>> /\ p = st[m] + Len(names[m]) /\ Len(names[m]) \in Nat /\ st[m] \in 1 .. L
  <2>1. NameAt(text, L, names, st, n, m)
    BY <1>1, LaidName
  <2>2. PICK a, b : a = st[m] /\ b = Len(names[m])
    OBVIOUS
  <2>3. a \in Nat /\ b \in Nat /\ st[m + 1] = a + b + 1
    BY <1>1, <2>1, <2>2 DEF NameAt
  <2>4. p = a + b
    BY <2>3
  <2> QED
    BY <2>1, <2>2, <2>4 DEF NameAt
<1>3. p \in 1 .. L
  <2>1. PICK a, b, c : a = st[m] /\ b = Len(names[m]) /\ c = st[m + 1]
    OBVIOUS
  <2>2. c \in 1 .. L /\ a \in 1 .. L /\ b \in Nat /\ c - 1 = a + b
    BY <1>1, <1>2, <2>1
  <2>3. c - 1 \in 1 .. L
    BY <1>1, <2>2
  <2> QED
    BY <2>1, <2>3
<1>4. t \in Seq(TextChars) /\ Len(t) = p /\ t # <<>> /\ \A i \in 1 .. p : t[i] = text[i]
  <2>1. PICK q : q = p
    OBVIOUS
  <2>2. q \in 1 .. L /\ t = SubSeq(text, 1, q)
    BY <1>3, <2>1
  <2>3. t \in Seq(TextChars) /\ Len(t) = q /\ \A i \in 1 .. q : t[i] = text[i]
    BY <1>1, <2>2
  <2> QED
    BY <2>1, <2>2, <2>3
<1> HIDE DEF p
<1>5. \A k \in 1 .. m : /\ k \in 1 .. n /\ st[k] \in 1 .. p /\ Len(names[k]) \in Nat
                        /\ st[k] + Len(names[k]) <= p
  <2> TAKE k \in 1 .. m
  <2>1. k \in 1 .. n
    BY <1>1
  <2>2. NameAt(text, L, names, st, n, k)
    BY <1>1, <2>1, LaidName
  <2>3. k # m => st[k] + Len(names[k]) < st[m]
    <3>1. Rises(names, st, n)
      BY <1>1, LaidRises
    <3> QED
      BY <1>1, <2>1, <3>1 DEF Rises
  <2>4. Len(names[k]) \in Nat /\ st[k] \in 1 .. L
    BY <2>2 DEF NameAt
  <2>5. PICK a, b, c, d, e : /\ a = st[k] /\ b = Len(names[k]) /\ c = st[m] /\ d = Len(names[m])
                            /\ e = p
    OBVIOUS
  <2>6. /\ a \in 1 .. L /\ b \in Nat /\ c \in 1 .. L /\ d \in Nat /\ e \in 1 .. L /\ L \in Nat
        /\ e = c + d /\ (k # m => a + b < c) /\ (k = m => a = c /\ b = d)
    BY <1>1, <1>2, <1>3, <2>3, <2>4, <2>5
  <2>7. a + b <= e /\ a \in 1 .. e
    BY <2>6
  <2> QED
    BY <2>1, <2>5, <2>6, <2>7
<1>6. some \in [1 .. m -> Names] /\ sts \in [1 .. m -> 1 .. p] /\ sts[1] = 1
      /\ some[m] = names[m] /\ sts[m] + Len(some[m]) = p
  <2>1. 1 \in 1 .. m /\ m \in 1 .. m
    BY <1>1
  <2>2. \A k \in 1 .. m : names[k] \in Names /\ st[k] \in 1 .. p
    BY <1>1, <1>5, Zenon
  <2>3. some \in [1 .. m -> Names] /\ sts \in [1 .. m -> 1 .. p]
    BY <2>2
  <2>4. sts[1] = 1 /\ some[m] = names[m] /\ sts[m] = st[m]
    BY <1>1, <2>1
  <2> QED
    BY <1>2, <2>3, <2>4
<1>7. ASSUME NEW k \in 1 .. m
      PROVE  /\ t[sts[k]] = "/"
             /\ \A j \in 1 .. Len(some[k]) : t[sts[k] + j] = some[k][j]
             /\ k < m => some[k] # <<>> /\ sts[k + 1] = sts[k] + Len(some[k]) + 1
  <2>1. some[k] = names[k] /\ sts[k] = st[k] /\ k \in 1 .. n /\ (k < m => k + 1 \in 1 .. m /\ sts[k + 1] = st[k + 1])
    BY <1>1
  <2>2. NameAt(text, L, names, st, n, k)
    BY <1>1, <2>1, LaidName
  <2>3. t[st[k]] = "/"
    BY <1>4, <1>5, <2>2 DEF NameAt
  <2>4. \A j \in 1 .. Len(names[k]) : t[st[k] + j] = names[k][j]
    <3> SUFFICES ASSUME NEW j \in 1 .. Len(names[k]) PROVE t[st[k] + j] = names[k][j]
      OBVIOUS
    <3>1. PICK a, b : a = st[k] /\ b = Len(names[k])
      OBVIOUS
    <3>2. a \in 1 .. p /\ b \in Nat /\ a + b <= p /\ j \in 1 .. b
      BY <1>5, <3>1
    <3>3. a + j \in 1 .. p
      BY <1>1, <1>3, <3>2
    <3> QED
      BY <1>4, <2>2, <3>1, <3>3 DEF NameAt
  <2>5. k < m => names[k] # <<>> /\ st[k + 1] = st[k] + Len(names[k]) + 1
    BY <1>1, <2>2 DEF NameAt
  <2> QED
    BY <2>1, <2>3, <2>4, <2>5
<1> HIDE DEF sts
<1>8. Laid(t, Len(t), some, sts, m)
  BY <1>1, <1>4, <1>6, <1>7 DEF Laid
<1> QED
  BY <1>1, <1>2, <1>4, <1>6, <1>8 DEF Tidy

-----------------------------------------------------------------------------
(* The dots: FixWorkingDirectory looks for pairs of them.                   *)

Up == <<".", ".">>

\* First m names without two dots in a row, then only `..`.
Proper(name) == name # <<".">> /\ DotPairs(name) = {}
SplitAt(names, n, m) ==
  /\ m \in 0 .. n
  /\ \A k \in 1 .. m : Proper(names[k])
  /\ \A k \in (m + 1) .. n : names[k] = Up

LEMMA UpHasPair == 1 \in DotPairs(Up) /\ \A i \in DotPairs(Up) : i = 1
<1>1. Len(Up) = 2 /\ Up[1] = "." /\ Up[2] = "."
  BY DEF Up
<1> HIDE DEF Up
<1> QED
  BY <1>1 DEF DotPairs

LEMMA SplitExists ==
  ASSUME NEW n \in Nat, NEW names,
         \A i \in 1 .. n : Proper(names[i]) \/ \A j \in i .. n : names[j] = Up
  PROVE  \E m \in 0 .. n : SplitAt(names, n, m)
<1> DEFINE Split(i, m) == /\ \A k \in 1 .. m : Proper(names[k])
                          /\ \A k \in (m + 1) .. i : names[k] = Up
           P(i) == i <= n => \E m \in 0 .. i : Split(i, m)
           S == {i \in Nat : P(i)}
<1>1. P(0)
  <2>1. Split(0, 0) /\ 0 \in 0 .. 0
    OBVIOUS
  <2> QED
    BY <2>1
<1>2. ASSUME NEW i \in Nat, P(i) PROVE P(i + 1)
  <2> SUFFICES ASSUME i + 1 <= n PROVE \E m \in 0 .. (i + 1) : Split(i + 1, m)
    OBVIOUS
  <2>1. PICK m \in 0 .. i : Split(i, m)
    BY <1>2
  <2>2. i + 1 \in 1 .. n
    OBVIOUS
  <2>3. CASE names[i + 1] = Up
    <3>1. \A k \in (m + 1) .. (i + 1) : k \in (m + 1) .. i \/ k = i + 1
      OBVIOUS
    <3>2. Split(i + 1, m) /\ m \in 0 .. (i + 1)
      BY <2>1, <2>3, <3>1
    <3> QED
      BY <3>2
  <2>4. CASE names[i + 1] # Up
    <3>1. \A k \in 1 .. (i + 1) : i + 1 \in k .. n /\ k \in 1 .. n
      BY <2>2
    <3>2. \A k \in 1 .. (i + 1) : Proper(names[k])
      BY <2>4, <3>1
    <3>3. Split(i + 1, i + 1) /\ i + 1 \in 0 .. (i + 1)
      BY <3>2
    <3> QED
      BY <3>3
  <2> QED
    BY <2>3, <2>4
<1>3. Nat \subseteq S
  <2> HIDE DEF P
  <2>1. 0 \in S /\ \A i \in Nat : i \in S => i + 1 \in S
    BY <1>1, <1>2
  <2> HIDE DEF S
  <2> QED
    BY <2>1, Induction
<1>4. P(n)
  <2> HIDE DEF P
  <2> QED
    BY <1>3
<1>5. n <= n
  OBVIOUS
<1> QED
  BY <1>4, <1>5 DEF SplitAt

\* Each `..` is one pair of dots, and there are no others.
LEMMA LaidPairs ==
  ASSUME NEW text \in Seq(TextChars), NEW names, NEW st, NEW n,
         Laid(text, Len(text), names, st, n), NEW m, SplitAt(names, n, m)
  PROVE  Cardinality(DotPairs(text)) = n - m
<1> DEFINE L == Len(text)
           f == [k \in 1 .. (n - m) |-> st[m + k] + 1]
           V == {f[k] : k \in 1 .. (n - m)}
<1>1. L \in Nat /\ n \in Nat \ {0} /\ st \in [1 .. n -> 1 .. L]
  BY DEF Laid
<1>2. m \in Nat /\ m <= n /\ n - m \in Nat
  BY <1>1 DEF SplitAt
<1>3. \A k \in 1 .. (n - m) : m + k \in 1 .. n /\ m + k \in (m + 1) .. n
  BY <1>1, <1>2
<1>4. \A k, l \in 1 .. (n - m) : k < l => f[k] # f[l]
  <2> SUFFICES ASSUME NEW k \in 1 .. (n - m), NEW l \in 1 .. (n - m), k < l PROVE f[k] # f[l]
    OBVIOUS
  <2>1. m + k \in 1 .. n /\ m + l \in 1 .. n /\ m + k < m + l
    BY <1>1, <1>2, <1>3
  <2>2. Rises(names, st, n) /\ NameAt(text, L, names, st, n, m + k)
    BY <1>1, <2>1, LaidRises, LaidName
  <2>3. PICK a, b, c, x, y : /\ a = st[m + k] /\ b = Len(names[m + k]) /\ c = st[m + l]
                            /\ x = m + k /\ y = m + l
    OBVIOUS
  <2>4. a + b < c
    BY <2>1, <2>2, <2>3 DEF Rises
  <2>5. a \in 1 .. L /\ b \in Nat /\ c \in 1 .. L
    <3>1. b \in Nat /\ a \in 1 .. L
      BY <2>2, <2>3, Zenon DEF NameAt
    <3> QED
      BY <1>1, <2>1, <2>3, <3>1
  <2>6. a + 1 # c + 1
    BY <1>1, <2>4, <2>5
  <2> QED
    BY <2>3, <2>6
<1>5. ASSUME NEW i \in DotPairs(text) PROVE i \in V
  <2>1. i \in 1 .. (L - 1) /\ text[i] = "." /\ text[i + 1] = "."
    BY DEF DotPairs
  <2>2. Covers(L, names, st, n)
    BY <1>1, LaidCovers
  <2>3. PICK k \in 1 .. n : \E j \in 0 .. Len(names[k]) : i = st[k] + j
    <3>1. i \in 1 .. L
      BY <1>1, <2>1
    <3> QED
      BY <2>2, <3>1 DEF Covers
  <2>4. PICK j \in 0 .. Len(names[k]) : i = st[k] + j
    BY <2>3
  <2>5. NameAt(text, L, names, st, n, k)
    BY <1>1, LaidName
  <2>6. PICK a, v : a = st[k] /\ v = names[k]
    OBVIOUS
  <2>7. /\ v \in Names /\ Len(v) \in Nat /\ a \in Nat /\ text[a] = "/"
        /\ \A r \in 1 .. Len(v) : text[a + r] = v[r]
    BY <1>1, <2>5, <2>6 DEF NameAt
  <2>8. j # 0
    BY <2>1, <2>4, <2>6, <2>7
  <2>9. j # Len(v)
    <3>1. CASE k = n
      <4>1. a + Len(v) = L
        BY <2>5, <2>6, <3>1 DEF NameAt
      <4> QED
        BY <1>1, <2>1, <2>4, <2>6, <2>7, <4>1
    <3>2. CASE k # n
      <4>1. text[st[k + 1]] = "/"
        <5>1. k + 1 \in 1 .. n
          BY <2>5, <3>2 DEF NameAt
        <5> QED
          BY <5>1 DEF Laid
      <4>2. st[k + 1] = a + Len(v) + 1
        BY <2>5, <2>6, <3>2 DEF NameAt
      <4> QED
        BY <2>1, <2>4, <2>6, <2>7, <4>1, <4>2
    <3> QED
      BY <3>1, <3>2
  <2>10. j \in 1 .. (Len(v) - 1) /\ v[j] = "." /\ v[j + 1] = "."
    <3>1. PICK z : z = Len(v)
      OBVIOUS
    <3>4. z \in Nat /\ a \in Nat /\ j \in 0 .. z /\ j # 0 /\ j # z /\ i = a + j
      BY <2>4, <2>6, <2>7, <2>8, <2>9, <3>1
    <3>5. j \in 1 .. z /\ j + 1 \in 1 .. z /\ a + (j + 1) = i + 1 /\ a + j = i /\ j \in 1 .. (z - 1)
      BY <3>4
    <3>2. text[a + j] = v[j] /\ text[a + (j + 1)] = v[j + 1]
      BY <2>7, <3>1, <3>5
    <3> QED
      BY <2>1, <3>1, <3>2, <3>5
  <2>11. j \in DotPairs(v)
    BY <2>10 DEF DotPairs
  <2>12. k \notin 1 .. m
    BY <2>6, <2>11 DEF SplitAt, Proper
  <2>13. k \in (m + 1) .. n /\ k - m \in 1 .. (n - m) /\ m + (k - m) = k
    BY <1>1, <1>2, <2>12
  <2>14. v = Up
    BY <2>6, <2>13 DEF SplitAt
  <2>15. j = 1
    BY <2>11, <2>14, UpHasPair
  <2>16. f[k - m] = a + 1
    BY <2>6, <2>13
  <2> QED
    BY <2>4, <2>6, <2>13, <2>15, <2>16
<1>6. ASSUME NEW i \in V PROVE i \in DotPairs(text)
  <2>1. PICK k \in 1 .. (n - m) : i = st[m + k] + 1
    OBVIOUS
  <2>2. m + k \in 1 .. n /\ names[m + k] = Up
    BY <1>3 DEF SplitAt
  <2>3. NameAt(text, L, names, st, n, m + k)
    BY <1>1, <2>2, LaidName
  <2>4. PICK a, q : a = st[m + k] /\ q = m + k
    OBVIOUS
  <2>5. Len(Up) = 2 /\ Up[1] = "." /\ Up[2] = "."
    BY DEF Up
  <2>6. a \in 1 .. L /\ text[a + 1] = "." /\ text[a + 2] = "."
    BY <2>2, <2>3, <2>4, <2>5 DEF NameAt
  <2>7. a + 2 <= L
    <3>1. CASE q = n
      <4>1. a + Len(Up) = L
        BY <2>2, <2>3, <2>4, <3>1 DEF NameAt
      <4> QED
        BY <1>1, <2>5, <4>1
    <3>2. CASE q # n
      <4>1. q + 1 \in 1 .. n /\ st[q + 1] = a + Len(Up) + 1
        BY <2>2, <2>3, <2>4, <3>2 DEF NameAt
      <4>2. st[q + 1] \in 1 .. L
        BY <1>1, <4>1
      <4> QED
        BY <1>1, <2>5, <2>6, <4>1, <4>2
    <3> QED
      BY <3>1, <3>2
  <2>8. i = a + 1 /\ i \in 1 .. (L - 1) /\ i + 1 = a + 2
    <3>1. i = a + 1
      BY <2>1, <2>4
    <3>2. a \in Nat \ {0} /\ a + 2 <= L /\ L \in Nat
      BY <1>1, <2>6, <2>7
    <3> HIDE DEF L
    <3>3. a + 1 \in 1 .. (L - 1) /\ (a + 1) + 1 = a + 2
      BY <3>2
    <3> QED
      BY <3>1, <3>3
  <2> QED
    BY <2>6, <2>8 DEF DotPairs
<1>7. DotPairs(text) = V
  <2> HIDE DEF V
  <2> QED
    BY <1>5, <1>6
<1>8. Cardinality(V) = n - m
  <2>1. n - m \in Nat
    BY <1>2
  <2> HIDE DEF f
  <2> QED
    BY <1>4, <2>1, CountValues
<1> HIDE DEF V
<1> QED
  BY <1>7, <1>8, Zenon

-----------------------------------------------------------------------------
(* The walk of f_chdir.                                                     *)

Firsts(names, i) == [k \in 1 .. i |-> names[k]]

LEMMA TidySegments ==
  ASSUME NEW t, NEW names, NEW n, Tidy(t, names, n)
  PROVE  Segments(t) = names
<1>1. CASE n = 0
  <2>1. t = <<>> /\ names = <<>>
    BY <1>1 DEF Tidy
  <2>2. PICK e : e = <<>>
    OBVIOUS
  <2>3. e \in Seq(TextChars) /\ Len(e) = 0 /\ << <<>> >> \in PartSet
    BY <2>2 DEF PartSet, Names
  <2>4. PICK acc \in [0 .. Len(e) -> PartSet] : SeparateRun(acc, << <<>> >>, e)
    BY <2>3, SeparateTyped, SeparateUnfolds
  <2>5. acc[0] = << <<>> >> /\ acc[Len(e)] = SeparateAll(<< <<>> >>, e)
    BY <2>4, Zenon DEF SeparateRun
  <2>6. << <<>> >> = SeparateAll(<< <<>> >>, e)
    BY <2>3, <2>5
  <2>7. Segments(e) = Front(<< <<>> >>)
    <3>1. Last(<< <<>> >>) = <<>>
      BY DEF Last
    <3> QED
      BY <2>6, <3>1, SegmentsAre, Zenon
  <2>8. Front(<< <<>> >>) = <<>>
    BY DEF Front
  <2> QED
    BY <2>1, <2>2, <2>7, <2>8
<1>2. CASE n # 0
  <2>1. t \in Seq(TextChars) /\ names[n] # <<>>
    BY <1>2 DEF Tidy
  <2>2. PICK st : Laid(t, Len(t), names, st, n)
    BY <1>2 DEF Tidy
  <2> QED
    BY <2>1, <2>2, LaidSegments
<1> QED
  BY <1>1, <1>2

\* What is left of m names and the `..` behind them.
Keep(n, m) == IF m > n - m THEN m - (n - m) ELSE 0

LEMMA Fixed ==
  ASSUME NEW text \in Seq(TextChars), NEW names, NEW st, NEW n,
         Laid(text, Len(text), names, st, n), names[n] # <<>>, NEW m, SplitAt(names, n, m)
  PROVE  Tidy(FixWorkingDirectory(text), Firsts(names, Keep(n, m)), Keep(n, m))
<1> DEFINE d == n - m
<1>1. /\ n \in Nat \ {0} /\ m \in 0 .. n /\ d \in Nat /\ d <= n /\ names \in [1 .. n -> Names]
      /\ st[1] = 1
  BY DEF Laid, SplitAt
<1>2. /\ Cardinality(Slashes(text)) = n
      /\ Cardinality(DotPairs(text)) = d
  BY LaidSlashes, LaidPairs
<1>3. FixWorkingDirectory(text) =
        IF d = 0 \/ n < d THEN text
        ELSE IF n = d THEN <<>>
        ELSE Before(text, IF n - d >= d THEN n - 2 * d + 1 ELSE 1)
  BY <1>2, Zenon DEF FixWorkingDirectory
<1>4. CASE d = 0
  <2>1. Keep(n, m) = n /\ Firsts(names, n) = names
    BY <1>1, <1>4 DEF Keep, Firsts
  <2> QED
    BY <1>1, <1>3, <1>4, <2>1 DEF Tidy
<1>5. CASE d # 0 /\ Keep(n, m) = 0
  <2>1. Firsts(names, 0) \in [1 .. 0 -> Names]
    BY DEF Firsts
  <2>2. FixWorkingDirectory(text) = <<>>
    <3>1. CASE n = d
      BY <1>1, <1>3, <1>5, <3>1
    <3>2. CASE n # d
      <4>1. (IF n - d >= d THEN n - 2 * d + 1 ELSE 1) = 1
        BY <1>1, <1>5 DEF Keep
      <4>2. FixWorkingDirectory(text) = Before(text, 1)
        BY <1>1, <1>3, <1>5, <3>2, <4>1
      <4>3. 1 \in 1 .. n
        BY <1>1
      <4>4. Before(text, 1) = SubSeq(text, 1, st[1] - 1)
        BY <4>3, BeforeSlash
      <4>5. SubSeq(text, 1, 0) = <<>>
        OBVIOUS
      <4> QED
        BY <1>1, <4>2, <4>4, <4>5
    <3> QED
      BY <3>1, <3>2
  <2> QED
    BY <1>5, <2>1, <2>2 DEF Tidy
<1>6. CASE d # 0 /\ Keep(n, m) # 0
  <2>1. PICK i : i = Keep(n, m)
    OBVIOUS
  <2>2. /\ i \in 1 .. n /\ i # n /\ i + 1 \in 1 .. n /\ i \in Nat /\ n # d /\ ~(n < d)
        /\ (IF n - d >= d THEN n - 2 * d + 1 ELSE 1) = i + 1
    BY <1>1, <1>6, <2>1 DEF Keep
  <2>3. FixWorkingDirectory(text) = SubSeq(text, 1, st[i + 1] - 1)
    BY <1>3, <1>6, <2>2, BeforeSlash
  <2>4. PICK t, some : t = SubSeq(text, 1, st[i + 1] - 1) /\ some = [k \in 1 .. i |-> names[k]]
    OBVIOUS
  <2>5. Tidy(t, some, i)
    BY <2>2, <2>4, LaidBefore
  <2> QED
    BY <2>1, <2>3, <2>4, <2>5 DEF Firsts
<1> QED
  BY <1>4, <1>5, <1>6

\* What a walk may enter, and the names a text stands for.
Steps == Names \cup {Snip(w) : w \in Names} \cup {<<"?">>}
Walks == Seq(Steps)
Snips(names, i) == [k \in 1 .. i |-> Snip(names[k])]

LEMMA EnterIs ==
  ASSUME NEW x, NEW v
  PROVE  /\ x \notin dirs => EnterSegment(x, v) = NoPath
         /\ x \in dirs /\ v = Up => EnterSegment(x, v) = IF x = <<>> THEN x ELSE Parent(x)
         /\ x \in dirs /\ v # <<".">> /\ v # Up =>
              EnterSegment(x, v) = IF Snip(v) = <<>> THEN NoPath
                                   ELSE Append(x, Snip(v))
<1>1. Up # <<".">>
  <2>1. Len(Up) # Len(<<".">>)
    BY DEF Up
  <2> QED
    BY <2>1
<1> QED
  BY <1>1, Zenon DEF EnterSegment, Up

LEMMA ProperIsNoDots == \A v : Proper(v) => v # <<".">> /\ v # Up
  BY UpHasPair DEF Proper

LEMMA EnterTyped == \A x \in Walks, v \in Names : EnterSegment(x, v) \in Walks
<1> SUFFICES ASSUME NEW x \in Walks, NEW v \in Names PROVE EnterSegment(x, v) \in Walks
  OBVIOUS
<1>1. NoPath \in Walks
  BY DEF NoPath, Walks, Steps
<1>2. Parent(x) \in Walks
  BY DEF Parent, Walks
<1>3. Append(x, Snip(v)) \in Walks
  BY DEF Walks, Steps
<1> QED
  BY <1>1, <1>2, <1>3 DEF EnterSegment

LEMMA SnipsGrow ==
  ASSUME NEW n \in Nat, NEW names \in [1 .. n -> Names], NEW i \in 0 .. (n - 1)
  PROVE  /\ Append(Snips(names, i), Snip(names[i + 1])) = Snips(names, i + 1)
         /\ Snips(names, i + 1) # <<>> /\ Parent(Snips(names, i + 1)) = Snips(names, i)
         /\ Snips(names, 0) = <<>>
<1>1. PICK f : f = [k \in 1 .. n |-> Snip(names[k])]
  OBVIOUS
<1>2. f \in [1 .. n -> Steps]
  <2>1. \A k \in 1 .. n : Snip(names[k]) \in Steps
    BY DEF Steps
  <2> QED
    BY <1>1, <2>1
<1>3. \A j \in 0 .. n : Snips(names, j) = [k \in 1 .. j |-> f[k]]
  BY <1>1 DEF Snips
<1>4. /\ Snips(names, i) = [k \in 1 .. i |-> f[k]] /\ Snips(names, i + 1) = [k \in 1 .. (i + 1) |-> f[k]]
      /\ Snips(names, 0) = [k \in 1 .. 0 |-> f[k]] /\ f[i + 1] = Snip(names[i + 1]) /\ i \in Nat
  <2>1. i \in Nat /\ i \in 0 .. n /\ i + 1 \in 0 .. n /\ 0 \in 0 .. n /\ i + 1 \in 1 .. n
    OBVIOUS
  <2>2. f[i + 1] = Snip(names[i + 1])
    BY <1>1, <2>1
  <2> QED
    BY <1>3, <2>1, <2>2, Zenon
<1>5. /\ [k \in 1 .. i |-> f[k]] \in Seq(Steps) /\ [k \in 1 .. (i + 1) |-> f[k]] \in Seq(Steps)
      /\ f[i + 1] \in Steps
  BY <1>2
<1>6. Append([k \in 1 .. i |-> f[k]], f[i + 1]) = [k \in 1 .. (i + 1) |-> f[k]]
  BY <1>4, <1>5
<1>7. [k \in 1 .. (i + 1) |-> f[k]] # <<>> /\ [k \in 1 .. 0 |-> f[k]] = <<>>
  BY <1>4
<1>8. SubSeq([k \in 1 .. (i + 1) |-> f[k]], 1, Len([k \in 1 .. (i + 1) |-> f[k]]) - 1) = [k \in 1 .. i |-> f[k]]
  BY <1>4, <1>5
<1> QED
  BY <1>4, <1>6, <1>7, <1>8 DEF Parent

\* The directories have theirs.
Closed == \A q \in dirs : q # <<>> => Parent(q) \in dirs

\* The walk of a list of names that has such an end, step by step.
LEMMA WalkExists ==
  ASSUME NEW n \in Nat, NEW names \in [1 .. n -> Names]
  PROVE  \E acc \in [0 .. n -> Walks] :
           /\ acc[0] = <<>> /\ acc[n] = EnterAll(<<>>, names)
           /\ \A i \in 0 .. (n - 1) : acc[i + 1] = EnterSegment(acc[i], names[i + 1])
<1>1. names \in Seq(Names) /\ Len(names) = n /\ <<>> \in Walks
  BY DEF Walks
<1>2. PICK acc \in [0 .. Len(names) -> Walks] : EnterRun(acc, <<>>, names)
  BY <1>1, EnterTyped, EnterUnfolds
<1> QED
  BY <1>1, <1>2, Zenon DEF EnterRun

\* The names lead back to the directory they were made from.
LEMMA WalkNames ==
  ASSUME NEW n \in Nat, NEW names \in [1 .. n -> Names], Closed, Snips(names, n) \in dirs,
         \A k \in 1 .. n : names[k] # <<".">> /\ names[k] # Up /\ Snip(names[k]) # <<>>
  PROVE  EnterAll(<<>>, names) = Snips(names, n)
<1>1. PICK acc \in [0 .. n -> Walks] :
           /\ acc[0] = <<>> /\ acc[n] = EnterAll(<<>>, names)
           /\ \A i \in 0 .. (n - 1) : acc[i + 1] = EnterSegment(acc[i], names[i + 1])
  BY WalkExists
<1> DEFINE In(d) == d <= n => Snips(names, n - d) \in dirs
           SI == {d \in Nat : In(d)}
           P(i) == i <= n => acc[i] = Snips(names, i)
           SP == {i \in Nat : P(i)}
<1>2. In(0)
  <2>1. n - 0 = n
    OBVIOUS
  <2> QED
    BY <2>1
<1>3. ASSUME NEW d \in Nat, In(d) PROVE In(d + 1)
  <2> SUFFICES ASSUME d + 1 <= n PROVE Snips(names, n - (d + 1)) \in dirs
    OBVIOUS
  <2>1. PICK i : i = n - (d + 1)
    OBVIOUS
  <2>2. i \in 0 .. (n - 1) /\ n - d = i + 1 /\ d <= n
    BY <2>1
  <2>3. Snips(names, i + 1) \in dirs
    BY <1>3, <2>2
  <2>4. Snips(names, i + 1) # <<>> /\ Parent(Snips(names, i + 1)) = Snips(names, i)
    BY <2>2, SnipsGrow
  <2> QED
    BY <2>1, <2>3, <2>4 DEF Closed
<1>4. Nat \subseteq SI
  <2> HIDE DEF In
  <2>1. 0 \in SI /\ \A d \in Nat : d \in SI => d + 1 \in SI
    BY <1>2, <1>3
  <2> HIDE DEF SI
  <2> QED
    BY <2>1, Induction
<1>5. \A i \in 0 .. n : Snips(names, i) \in dirs
  <2> SUFFICES ASSUME NEW i \in 0 .. n PROVE Snips(names, i) \in dirs
    OBVIOUS
  <2>1. n - i \in Nat /\ n - (n - i) = i /\ n - i <= n
    OBVIOUS
  <2>2. In(n - i)
    <3> HIDE DEF In
    <3> QED
      BY <1>4, <2>1
  <2> QED
    BY <2>1, <2>2
<1>6. P(0)
  <2>1. Snips(names, 0) = <<>>
    BY DEF Snips
  <2> QED
    BY <1>1, <2>1
<1>7. ASSUME NEW i \in Nat, P(i) PROVE P(i + 1)
  <2> SUFFICES ASSUME i + 1 <= n PROVE acc[i + 1] = Snips(names, i + 1)
    OBVIOUS
  <2>1. i \in 0 .. (n - 1) /\ i \in 0 .. n /\ i + 1 \in 1 .. n /\ i <= n
    OBVIOUS
  <2>2. PICK x, v : x = acc[i] /\ v = names[i + 1]
    OBVIOUS
  <2>3. x = Snips(names, i) /\ x \in dirs /\ v # <<".">> /\ v # Up /\ Snip(v) # <<>>
    BY <1>5, <1>7, <2>1, <2>2
  <2>4. EnterSegment(x, v) = Append(x, Snip(v))
    BY <2>3, EnterIs, Zenon
  <2>5. Append(Snips(names, i), Snip(names[i + 1])) = Snips(names, i + 1)
    BY <2>1, SnipsGrow
  <2> QED
    BY <1>1, <2>1, <2>2, <2>3, <2>4, <2>5
<1>8. Nat \subseteq SP
  <2> HIDE DEF P
  <2>1. 0 \in SP /\ \A i \in Nat : i \in SP => i + 1 \in SP
    BY <1>6, <1>7
  <2> HIDE DEF SP
  <2> QED
    BY <2>1, Induction
<1>9. P(n)
  <2> HIDE DEF P
  <2> QED
    BY <1>8
<1> QED
  BY <1>1, <1>9

\* First names, then `..`: what is reached, if it is a directory.
LEMMA WalkUp ==
  ASSUME NEW n \in Nat, NEW names \in [1 .. n -> Names], NEW m, SplitAt(names, n, m),
         NoPath \notin dirs, EnterAll(<<>>, names) \in dirs
  PROVE  /\ \A k \in 1 .. m : Snip(names[k]) # <<>>
         /\ EnterAll(<<>>, names) = Snips(names, Keep(n, m))
<1>1. PICK acc \in [0 .. n -> Walks] :
           /\ acc[0] = <<>> /\ acc[n] = EnterAll(<<>>, names)
           /\ \A i \in 0 .. (n - 1) : acc[i + 1] = EnterSegment(acc[i], names[i + 1])
  BY WalkExists
<1>0. m \in Nat /\ m <= n
  BY DEF SplitAt
<1> DEFINE In(d) == d <= n => acc[n - d] \in dirs
           SI == {d \in Nat : In(d)}
           Left(i) == IF i <= m THEN i ELSE IF i - m <= m THEN 2 * m - i ELSE 0
           P(i) == i <= n => /\ acc[i] = Snips(names, Left(i))
                             /\ \A k \in 1 .. i : k <= m => Snip(names[k]) # <<>>
           SP == {i \in Nat : P(i)}
<1>2. In(0)
  <2>1. n - 0 = n
    OBVIOUS
  <2> QED
    BY <1>1, <2>1
<1>3. ASSUME NEW d \in Nat, In(d) PROVE In(d + 1)
  <2> SUFFICES ASSUME d + 1 <= n, acc[n - (d + 1)] \notin dirs PROVE FALSE
    OBVIOUS
  <2>1. PICK i : i = n - (d + 1)
    OBVIOUS
  <2>2. i \in 0 .. (n - 1) /\ n - d = i + 1 /\ d <= n
    BY <2>1
  <2>3. acc[i + 1] \in dirs /\ acc[i + 1] = EnterSegment(acc[i], names[i + 1]) /\ acc[i] \notin dirs
    BY <1>1, <1>3, <2>1, <2>2
  <2>4. acc[i + 1] = NoPath
    BY <2>3, EnterIs, Zenon
  <2> QED
    BY <2>3, <2>4
<1>4. Nat \subseteq SI
  <2> HIDE DEF In
  <2>1. 0 \in SI /\ \A d \in Nat : d \in SI => d + 1 \in SI
    BY <1>2, <1>3
  <2> HIDE DEF SI
  <2> QED
    BY <2>1, Induction
<1>5. \A i \in 0 .. n : acc[i] \in dirs
  <2> SUFFICES ASSUME NEW i \in 0 .. n PROVE acc[i] \in dirs
    OBVIOUS
  <2>1. n - i \in Nat /\ n - (n - i) = i /\ n - i <= n
    OBVIOUS
  <2>2. In(n - i)
    <3> HIDE DEF In
    <3> QED
      BY <1>4, <2>1
  <2> QED
    BY <2>1, <2>2
<1>6. P(0)
  <2>1. Snips(names, 0) = <<>> /\ Left(0) = 0
    BY <1>0 DEF Snips
  <2> QED
    BY <1>1, <2>1
<1>7. ASSUME NEW i \in Nat, P(i) PROVE P(i + 1)
  <2> SUFFICES ASSUME i + 1 <= n
               PROVE  /\ acc[i + 1] = Snips(names, Left(i + 1))
                      /\ \A k \in 1 .. (i + 1) : k <= m => Snip(names[k]) # <<>>
    OBVIOUS
  <2>1. i \in 0 .. (n - 1) /\ i \in 0 .. n /\ i + 1 \in 0 .. n /\ i + 1 \in 1 .. n /\ i <= n
    OBVIOUS
  <2>2. PICK x, v, y : x = acc[i] /\ v = names[i + 1] /\ y = acc[i + 1]
    OBVIOUS
  <2>3. x = Snips(names, Left(i)) /\ x \in dirs /\ y \in dirs /\ y = EnterSegment(x, v)
    BY <1>1, <1>5, <1>7, <2>1, <2>2
  <2>4. \A k \in 1 .. (i + 1) : k \in 1 .. i \/ k = i + 1
    OBVIOUS
  <2>5. CASE i + 1 <= m
    <3>1. i + 1 \in 1 .. m /\ Left(i) = i /\ Left(i + 1) = i + 1
      BY <1>0, <2>5
    <3>2. Proper(v)
      BY <2>2, <3>1 DEF SplitAt
    <3>3. v # <<".">> /\ v # Up
      BY <3>2, ProperIsNoDots
    <3>4. y = IF Snip(v) = <<>> THEN NoPath ELSE Append(x, Snip(v))
      BY <2>3, <3>3, EnterIs, Zenon
    <3>5. Snip(v) # <<>> /\ y = Append(x, Snip(v))
      BY <2>3, <3>4
    <3>6. Append(Snips(names, i), Snip(names[i + 1])) = Snips(names, i + 1)
      BY <2>1, SnipsGrow
    <3> HIDE DEF Left
    <3> QED
      BY <1>7, <2>1, <2>2, <2>3, <2>4, <3>1, <3>5, <3>6
  <2>6. CASE ~(i + 1 <= m)
    <3>1. i + 1 \in (m + 1) .. n
      BY <1>0, <2>6
    <3>2. v = Up
      BY <2>2, <3>1 DEF SplitAt
    <3>3. y = IF x = <<>> THEN x ELSE Parent(x)
      BY <2>3, <3>2, EnterIs, Zenon
    <3>4. CASE Left(i) = 0
      <4>1. Left(i + 1) = 0 /\ Snips(names, 0) = <<>>
        BY <1>0, <2>6, <3>4 DEF Snips
      <4> HIDE DEF Left
      <4>2. x = <<>> /\ y = Snips(names, Left(i + 1))
        BY <2>3, <3>3, <3>4, <4>1
      <4>3. \A k \in 1 .. (i + 1) : k <= m => k \in 1 .. i
        BY <1>0, <2>6
      <4> QED
        BY <1>7, <2>1, <2>2, <4>2, <4>3
    <3>5. CASE Left(i) # 0
      <4>1. PICK j : j = Left(i + 1)
        OBVIOUS
      <4>2. j \in 0 .. (n - 1) /\ Left(i) = j + 1
        BY <1>0, <2>1, <2>6, <3>5, <4>1
      <4> HIDE DEF Left
      <4>3. Snips(names, j + 1) # <<>> /\ Parent(Snips(names, j + 1)) = Snips(names, j)
        BY <4>2, SnipsGrow
      <4>4. y = Snips(names, j)
        BY <2>3, <3>3, <4>2, <4>3
      <4>5. \A k \in 1 .. (i + 1) : k <= m => k \in 1 .. i
        BY <1>0, <2>6
      <4> QED
        BY <1>7, <2>1, <2>2, <4>1, <4>4, <4>5
    <3> QED
      BY <3>4, <3>5
  <2> QED
    BY <2>5, <2>6
<1>8. Nat \subseteq SP
  <2> HIDE DEF P
  <2>1. 0 \in SP /\ \A i \in Nat : i \in SP => i + 1 \in SP
    BY <1>6, <1>7
  <2> HIDE DEF SP
  <2> QED
    BY <2>1, Induction
<1>9. P(n)
  <2> HIDE DEF P
  <2> QED
    BY <1>8
<1>10. Left(n) = Keep(n, m) /\ n <= n
  BY <1>0 DEF Keep
<1> QED
  BY <1>0, <1>1, <1>9, <1>10

-----------------------------------------------------------------------------
(* The cut text and the walked path agree.                                  *)

\* A text of names without dot entries, and the path it stands for.
Shows(t, path) ==
  \E n \in Nat : \E names \in [1 .. n -> Names] :
    /\ Tidy(t, names, n) /\ path = Snips(names, n)
    /\ \A k \in 1 .. n : names[k] # <<".">> /\ names[k] # Up /\ Snip(names[k]) # <<>>

LEMMA ShownIsFollowed ==
  ASSUME NEW t, NEW path \in dirs, Shows(t, path), Closed PROVE Follow(<<>>, t) = path
<1>0. PICK n \in Nat : \E names \in [1 .. n -> Names] :
        /\ Tidy(t, names, n) /\ path = Snips(names, n)
        /\ \A k \in 1 .. n : names[k] # <<".">> /\ names[k] # Up /\ Snip(names[k]) # <<>>
  BY DEF Shows
<1>1. PICK names \in [1 .. n -> Names] :
        /\ Tidy(t, names, n) /\ path = Snips(names, n)
        /\ \A k \in 1 .. n : names[k] # <<".">> /\ names[k] # Up /\ Snip(names[k]) # <<>>
  BY <1>0
<1>2. Follow(<<>>, t) = EnterAll(<<>>, names)
  BY <1>1, TidySegments, FollowIs
<1>3. EnterAll(<<>>, names) = Snips(names, n)
  BY <1>1, WalkNames
<1> QED
  BY <1>1, <1>2, <1>3

\* What changedir makes of a regular path that leads somewhere.
LEMMA ChangeShows ==
  ASSUME NEW text \in Seq(AllChars), text # <<>>, text[1] = "/", Regular(text),
         NoPath \notin dirs, Find(text) \in dirs
  PROVE  Shows(FixWorkingDirectory(text), Find(text))
<1>0. text \in Seq(TextChars)
  <2>1. \A i \in 1 .. Len(text) : text[i] # "\\"
    BY Zenon DEF Regular
  <2> QED
    BY <2>1 DEF AllChars
<1>1. Spaced(text)
  <2>1. \A i \in Slashes(text) : i + 1 \in (1 .. Len(text)) \ Slashes(text)
    BY Zenon DEF Regular
  <2> QED
    BY <1>0, <2>1 DEF Spaced, Slashes
<1>2. PICK names, st, n : Laid(text, Len(text), names, st, n) /\ names[n] # <<>>
  BY <1>1, SpacedIsLaid
<1>3. n \in Nat /\ names \in [1 .. n -> Names] /\ Len(names) = n /\ DOMAIN names = 1 .. n
  BY <1>2 DEF Laid
<1>4. Segments(text) = names
  BY <1>0, <1>2, LaidSegments
<1>5. \A i \in 1 .. n : Proper(names[i]) \/ \A j \in i .. n : names[j] = Up
  <2>1. \A i \in DOMAIN names :
          \/ names[i] # <<".">> /\ DotPairs(names[i]) = {}
          \/ \A j \in i .. Len(names) : names[j] = <<".", ".">>
    BY <1>4, Zenon DEF Regular
  <2> QED
    BY <1>3, <2>1 DEF Proper, Up
<1>6. PICK m \in 0 .. n : SplitAt(names, n, m)
  BY <1>3, <1>5, SplitExists
<1>7. Find(text) = EnterAll(<<>>, names)
  <2>1. Find(text) = Follow(<<>>, text)
    <3>1. Head(text) \in Separators
      BY SlashSeparates
    <3>2. names # <<>>
      BY <1>2, <1>3 DEF Laid
    <3> QED
      BY <1>4, <3>1, <3>2, Zenon DEF Find
  <2> QED
    BY <1>4, <2>1, FollowIs
<1>8. PICK i : i = Keep(n, m)
  OBVIOUS
<1>9. i \in 0 .. m /\ m \in 0 .. n
  BY <1>3, <1>6, <1>8 DEF Keep
<1>10. /\ \A k \in 1 .. m : Snip(names[k]) # <<>>
       /\ EnterAll(<<>>, names) = Snips(names, i)
  <2>1. EnterAll(<<>>, names) \in dirs
    BY <1>7
  <2> QED
    BY <1>3, <1>6, <1>8, <2>1, WalkUp
<1>11. PICK some : some = Firsts(names, i)
  OBVIOUS
<1>12. Tidy(FixWorkingDirectory(text), some, i)
  BY <1>0, <1>2, <1>6, <1>8, <1>11, Fixed
<1>13. /\ i \in Nat /\ some \in [1 .. i -> Names]
       /\ \A k \in 1 .. i : some[k] = names[k] /\ k \in 1 .. m
  BY <1>3, <1>9, <1>11 DEF Firsts
<1>14. Snips(some, i) = Snips(names, i)
  BY <1>13 DEF Snips
<1>15. \A k \in 1 .. i : some[k] # <<".">> /\ some[k] # Up /\ Snip(some[k]) # <<>>
  BY <1>6, <1>10, <1>13, ProperIsNoDots DEF SplitAt
<1>16. Find(text) = Snips(some, i)
  BY <1>7, <1>10, <1>14
<1> QED
  BY <1>12, <1>13, <1>15, <1>16 DEF Shows

\* One name more at the end of a text.
LEMMA TidyGrows ==
  ASSUME NEW t, NEW names, NEW n, Tidy(t, names, n), NEW w \in Names, w # <<>>,
         NEW more, more = [k \in 1 .. (n + 1) |-> IF k = n + 1 THEN w ELSE names[k]]
  PROVE  Tidy(Write(t, w), more, n + 1)
<1>1. t \in Seq(TextChars) /\ n \in Nat /\ names \in [1 .. n -> Names] /\ Len(w) \in Nat
  BY DEF Tidy, Names
<1>2. PICK L, u : L = Len(t) /\ u = Write(t, w)
  OBVIOUS
<1>3. L \in Nat /\ Len(<<"/">>) = 1 /\ <<"/">> \in Seq(TextChars) /\ w \in Seq(TextChars)
  BY <1>1, <1>2 DEF TextChars, Names
<1>4. PICK v : v = t \o <<"/">>
  OBVIOUS
<1>5. v \in Seq(TextChars) /\ Len(v) = L + 1 /\ v[L + 1] = "/" /\ \A i \in 1 .. L : v[i] = t[i]
  BY <1>1, <1>2, <1>3, <1>4
<1>6. /\ u \in Seq(TextChars) /\ Len(u) = L + 1 + Len(w) /\ u # <<>>
      /\ \A i \in 1 .. (L + 1) : u[i] = v[i]
      /\ \A j \in 1 .. Len(w) : u[L + 1 + j] = w[j]
  BY <1>1, <1>2, <1>3, <1>4, <1>5 DEF Write
<1>7. \A i \in 1 .. L : u[i] = t[i]
  BY <1>3, <1>5, <1>6
<1>8. u[L + 1] = "/"
  BY <1>3, <1>5, <1>6
<1>9. more \in [1 .. (n + 1) -> Names] /\ more[n + 1] = w /\ n + 1 \in Nat \ {0}
  BY <1>1
<1>10. PICK M : M = L + 1 + Len(w)
  OBVIOUS
<1>11. M \in Nat /\ L + 1 \in 1 .. M
  BY <1>1, <1>3, <1>10
<1>12. CASE n = 0
  <2>1. L = 0
    BY <1>2, <1>12 DEF Tidy
  <2>2. PICK st : st = [k \in 1 .. 1 |-> 1]
    OBVIOUS
  <2>3. Laid(u, M, more, st, n + 1)
    BY <1>1, <1>6, <1>8, <1>9, <1>10, <1>11, <1>12, <2>1, <2>2 DEF Laid
  <2> QED
    BY <1>2, <1>6, <1>9, <1>10, <2>3 DEF Tidy
<1>13. CASE n # 0
  <2>1. names[n] # <<>> /\ \E st : Laid(t, Len(t), names, st, n)
    BY <1>13 DEF Tidy
  <2>2. PICK st : Laid(t, L, names, st, n)
    BY <1>2, <2>1
  <2>3. PICK sts : sts = [k \in 1 .. (n + 1) |-> IF k = n + 1 THEN L + 1 ELSE st[k]]
    OBVIOUS
  <2>4. st \in [1 .. n -> 1 .. L] /\ st[1] = 1 /\ n \in 1 .. n
    BY <1>1, <1>13, <2>2 DEF Laid
  <2>5. sts \in [1 .. (n + 1) -> 1 .. M] /\ sts[1] = 1 /\ sts[n + 1] = L + 1
    BY <1>1, <1>3, <1>10, <1>11, <1>13, <2>3, <2>4
  <2>6. ASSUME NEW k \in 1 .. (n + 1)
        PROVE  /\ u[sts[k]] = "/"
               /\ \A j \in 1 .. Len(more[k]) : u[sts[k] + j] = more[k][j]
               /\ k < n + 1 => more[k] # <<>> /\ sts[k + 1] = sts[k] + Len(more[k]) + 1
    <3>1. CASE k = n + 1
      BY <1>1, <1>6, <1>8, <1>9, <2>5, <3>1
    <3>2. CASE k # n + 1
      <4>1. k \in 1 .. n /\ more[k] = names[k] /\ sts[k] = st[k]
        BY <1>1, <2>3, <3>2
      <4>2. NameAt(t, L, names, st, n, k) /\ Rises(names, st, n)
        BY <1>3, <2>2, <4>1, LaidName, LaidRises
      <4>3. PICK a, b : a = st[k] /\ b = Len(names[k])
        OBVIOUS
      <4>4. /\ a \in 1 .. L /\ b \in Nat /\ t[a] = "/"
            /\ \A j \in 1 .. b : t[a + j] = names[k][j]
        BY <4>2, <4>3 DEF NameAt
      <4>5. a + b <= L
        <5>1. k = n => a + b = L
          BY <4>2, <4>3 DEF NameAt
        <5>2. k # n => a + b < st[n]
          BY <1>1, <2>4, <4>1, <4>2, <4>3 DEF Rises
        <5>3. st[n] \in 1 .. L
          BY <2>4
        <5> QED
          BY <1>3, <4>4, <5>1, <5>2, <5>3
      <4>6. u[a] = "/" /\ \A j \in 1 .. b : u[a + j] = names[k][j]
        <5>1. \A j \in 1 .. b : a + j \in 1 .. L
          BY <1>3, <4>4, <4>5
        <5> QED
          BY <1>7, <4>4, <5>1
      <4>7. names[k] # <<>> /\ sts[k + 1] = a + b + 1
        <5>1. CASE k = n
          <6>1. a + b = L
            BY <4>2, <4>3, <5>1 DEF NameAt
          <6> QED
            BY <2>1, <2>5, <5>1, <6>1
        <5>2. CASE k # n
          <6>1. names[k] # <<>> /\ st[k + 1] = a + b + 1 /\ k + 1 \in 1 .. n
            BY <4>2, <4>3, <5>2 DEF NameAt
          <6>2. sts[k + 1] = st[k + 1]
            BY <1>1, <2>3, <6>1
          <6> QED
            BY <6>1, <6>2
        <5> QED
          BY <5>1, <5>2
      <4> QED
        BY <4>1, <4>3, <4>6, <4>7
    <3> QED
      BY <3>1, <3>2
  <2>7. sts[n + 1] + Len(more[n + 1]) = M
    BY <1>9, <1>10, <2>5
  <2>8. Laid(u, M, more, sts, n + 1)
    BY <1>9, <2>5, <2>6, <2>7 DEF Laid
  <2> QED
    BY <1>2, <1>6, <1>9, <1>10, <2>8 DEF Tidy
<1> QED
  BY <1>12, <1>13

HomeNames == Seq({"a", "b", "h"}) \ {<<>>}

LEMMA HomeName ==
  ASSUME NEW w \in HomeNames
  PROVE  w \in Names /\ w # <<>> /\ w # <<".">> /\ w # Up /\ Snip(w) = w
<1>1. w \in Seq({"a", "b", "h"}) /\ Len(w) \in Nat \ {0} /\ \A i \in 1 .. Len(w) : w[i] \in {"a", "b", "h"}
  BY DEF HomeNames
<1>2. w \in Names /\ w # <<>>
  BY <1>1 DEF Names, Letters
<1>3. w[1] # "." /\ Up[1] = "."
  BY <1>1 DEF Up
<1>4. w # <<".">> /\ w # Up
  BY <1>3
<1> DEFINE I == {i \in 1 .. Len(w) : w[i] # "."}
<1>5. Snip(w) = SubSeq(w, 1, IF I # {} THEN Max(I) ELSE 0)
  <2>1. ~Dots(w)
    BY <1>4 DEF Dots, Up
  <2> QED
    BY <2>1, Zenon DEF Snip, SelectLastInSeq
<1>6. I = 1 .. Len(w)
  BY <1>1
<1>7. Max(1 .. Len(w)) = Len(w)
  <2>1. Len(w) \in 1 .. Len(w) /\ \A x \in 1 .. Len(w) : Len(w) >= x /\ (x >= Len(w) => x = Len(w))
    BY <1>1
  <2> QED
    BY <2>1 DEF Max
<1>8. SubSeq(w, 1, Len(w)) = w
  BY <1>1
<1>9. I # {}
  BY <1>1, <1>6
<1> QED
  BY <1>2, <1>4, <1>5, <1>6, <1>7, <1>8, <1>9

LEMMA HomeShown ==
  ASSUME NEW text, text = WriteAll(<<>>, HomeDir)
  PROVE  Shows(text, HomeDir)
<1> DEFINE n == Len(HomeDir)
           Texts == Seq(TextChars)
<1>1. HomeDir \in Seq(HomeNames)
  BY ShellAssumption DEF HomeNames
<1>2. n \in Nat /\ HomeDir \in [1 .. n -> HomeNames] /\ DOMAIN HomeDir = 1 .. n
  BY <1>1
<1>3. HomeDir \in [1 .. n -> Names] /\ HomeDir \in Seq(Names)
  <2>1. \A k \in 1 .. n : HomeDir[k] \in Names
    BY <1>2, HomeName
  <2>2. HomeDir \in [1 .. n -> Names]
    BY <1>2, <2>1
  <2> HIDE DEF n
  <2> QED
    BY <1>2, <2>2
<1>4. PICK acc \in [0 .. Len(HomeDir) -> Texts] : WriteRun(acc, <<>>, HomeDir)
  <2>1. \A t \in Texts, w \in Names : Write(t, w) \in Texts
    BY DEF Write, Names, TextChars
  <2>2. <<>> \in Texts
    OBVIOUS
  <2> HIDE DEF Texts
  <2> QED
    BY <1>3, <2>1, <2>2, WriteUnfolds
<1>5. /\ acc[0] = <<>> /\ acc[n] = text
      /\ \A i \in 0 .. (n - 1) : acc[i + 1] = Write(acc[i], HomeDir[i + 1])
  BY <1>4, Zenon DEF WriteRun
<1> HIDE DEF n
<1> DEFINE P(i) == i <= n => Tidy(acc[i], Firsts(HomeDir, i), i)
           S == {i \in Nat : P(i)}
<1>6. P(0)
  <2>1. Firsts(HomeDir, 0) \in [1 .. 0 -> Names]
    BY DEF Firsts
  <2> QED
    BY <1>5, <2>1 DEF Tidy
<1>7. ASSUME NEW i \in Nat, P(i) PROVE P(i + 1)
  <2> SUFFICES ASSUME i + 1 <= n PROVE Tidy(acc[i + 1], Firsts(HomeDir, i + 1), i + 1)
    OBVIOUS
  <2>1. i \in 0 .. (n - 1) /\ i + 1 \in 1 .. n /\ i <= n
    BY <1>2
  <2>2. PICK t, w, names, more : /\ t = acc[i] /\ w = HomeDir[i + 1] /\ names = Firsts(HomeDir, i)
                                 /\ more = Firsts(HomeDir, i + 1)
    OBVIOUS
  <2>3. w \in Names /\ w # <<>>
    <3>1. w \in HomeNames
      BY <1>2, <2>1, <2>2
    <3> QED
      BY <3>1, HomeName
  <2>4. Tidy(t, names, i)
    BY <1>7, <2>1, <2>2
  <2>5. more = [k \in 1 .. (i + 1) |-> IF k = i + 1 THEN w ELSE names[k]]
    <3>1. \A k \in 1 .. (i + 1) : k \in 1 .. i \/ k = i + 1
      OBVIOUS
    <3> QED
      BY <2>2, <3>1 DEF Firsts
  <2>6. Tidy(Write(t, w), more, i + 1)
    BY <2>3, <2>4, <2>5, TidyGrows
  <2> QED
    BY <1>5, <2>1, <2>2, <2>6
<1>8. Nat \subseteq S
  <2> HIDE DEF P
  <2>1. 0 \in S /\ \A i \in Nat : i \in S => i + 1 \in S
    BY <1>6, <1>7
  <2> HIDE DEF S
  <2> QED
    BY <2>1, Induction
<1>9. P(n)
  <2> HIDE DEF P
  <2> QED
    BY <1>2, <1>8
<1>10. Firsts(HomeDir, n) = HomeDir /\ n <= n
  BY <1>2 DEF Firsts
<1>11. Tidy(text, HomeDir, n)
  BY <1>5, <1>9, <1>10
<1>12. \A k \in 1 .. n : /\ HomeDir[k] # <<".">> /\ HomeDir[k] # Up
                         /\ Snip(HomeDir[k]) = HomeDir[k] /\ HomeDir[k] # <<>>
  BY <1>2, HomeName
<1>13. HomeDir = Snips(HomeDir, n)
  BY <1>2, <1>12 DEF Snips
<1>14. \A k \in 1 .. n : HomeDir[k] # <<".">> /\ HomeDir[k] # Up /\ Snip(HomeDir[k]) # <<>>
  BY <1>12
<1> QED
  BY <1>2, <1>3, <1>11, <1>13, <1>14 DEF Shows

\* Every element of a set of numbers has its turn when they are counted.
LEMMA NthExists ==
  ASSUME NEW L \in Nat, NEW A \in SUBSET (1 .. L), NEW n \in 1 .. Cardinality(A)
  PROVE  \E i \in A : Cardinality({j \in A : j <= i}) = n
<1> DEFINE U(i) == {j \in A : j <= i}
           P(i) == i <= L => \A k \in 1 .. Cardinality(U(i)) : \E j \in A : Cardinality(U(j)) = k
           S == {i \in Nat : P(i)}
<1>1. \A j \in A : j \in Nat /\ 1 <= j /\ j <= L
  OBVIOUS
<1>2. \A i \in Nat : IsFiniteSet(U(i)) /\ Cardinality(U(i)) \in Nat
  <2> TAKE i \in Nat
  <2>1. IsFiniteSet(1 .. L)
    BY FS_Interval
  <2>2. U(i) \subseteq A
    OBVIOUS
  <2> HIDE DEF U
  <2> QED
    BY <2>1, <2>2, FS_Subset, FS_CardinalityType
<1>3. U(0) = {} /\ U(L) = A
  <2>1. \A j \in A : ~(j <= 0) /\ j <= L
    BY <1>1
  <2> QED
    BY <2>1, Zenon
<1>4. ASSUME NEW i \in Nat, i + 1 \notin A PROVE U(i + 1) = U(i)
  <2>1. \A j \in A : j <= i + 1 <=> j <= i
    BY <1>1, <1>4
  <2> QED
    BY <2>1, Zenon
<1>5. ASSUME NEW i \in Nat, i + 1 \in A PROVE U(i + 1) = U(i) \cup {i + 1} /\ i + 1 \notin U(i)
  <2>1. /\ \A j \in A : j <= i + 1 <=> j <= i \/ j = i + 1
        /\ ~(i + 1 <= i)
    BY <1>1
  <2>2. \A j : j \in U(i + 1) <=> j \in U(i) \/ j = i + 1
    BY <1>5, <2>1, Zenon
  <2>3. i + 1 \notin U(i)
    BY <2>1, Zenon
  <2> HIDE DEF U
  <2> QED
    BY <2>2, <2>3
<1>6. P(0)
  <2>1. Cardinality(U(0)) = 0
    BY <1>3, FS_EmptySet
  <2> HIDE DEF U
  <2> QED
    BY <2>1
<1>7. ASSUME NEW i \in Nat, P(i) PROVE P(i + 1)
  <2> HIDE DEF U
  <2> SUFFICES ASSUME i + 1 <= L, NEW k \in 1 .. Cardinality(U(i + 1))
               PROVE  \E j \in A : Cardinality(U(j)) = k
    OBVIOUS
  <2>1. i <= L
    OBVIOUS
  <2>2. \A m \in 1 .. Cardinality(U(i)) : \E j \in A : Cardinality(U(j)) = m
    BY <1>7, <2>1
  <2>3. CASE i + 1 \notin A
    BY <1>4, <2>2, <2>3
  <2>4. CASE i + 1 \in A
    <3>1. Cardinality(U(i + 1)) = Cardinality(U(i)) + 1
      BY <1>2, <1>5, <2>4, FS_AddElement
    <3>2. k \in 1 .. Cardinality(U(i)) \/ k = Cardinality(U(i + 1))
      BY <1>2, <3>1
    <3> QED
      BY <2>2, <2>4, <3>2
  <2> QED
    BY <2>3, <2>4
<1>8. Nat \subseteq S
  <2> HIDE DEF P
  <2>1. 0 \in S /\ \A i \in Nat : i \in S => i + 1 \in S
    BY <1>6, <1>7
  <2> HIDE DEF S
  <2> QED
    BY <2>1, Induction
<1>9. P(L) /\ L <= L
  <2> HIDE DEF P
  <2> QED
    BY <1>8
<1> HIDE DEF U
<1>10. \E i \in A : Cardinality(U(i)) = n
  BY <1>3, <1>9
<1> QED
  BY <1>10 DEF U

\* A text that starts at the root.
Rooted(text) == text \in Seq(AllChars) /\ (text = <<>> \/ text[1] = "/")

\* The text that FixWorkingDirectory leaves of one still starts there.
LEMMA FixedRooted ==
  ASSUME NEW text, Rooted(text)
  PROVE  Rooted(FixWorkingDirectory(text))
<1> DEFINE s == Cardinality(Slashes(text))
           d == Cardinality(DotPairs(text))
<1>1. s \in Nat /\ d \in Nat
  <2>1. text \in Seq(AllChars) /\ Len(text) \in Nat
    BY DEF Rooted
  <2>2. Slashes(text) \subseteq 1 .. Len(text) /\ DotPairs(text) \subseteq 1 .. Len(text)
    BY <2>1 DEF Slashes, DotPairs
  <2>3. IsFiniteSet(1 .. Len(text))
    BY <2>1, FS_Interval
  <2> QED
    BY <2>2, <2>3, FS_Subset, FS_CardinalityType
<1>2. ASSUME NEW n \in 1 .. s PROVE Rooted(Before(text, n))
  <2> DEFINE Nth(i) == Cardinality({j \in Slashes(text) : j <= i}) = n
  <2>1. \E i \in Slashes(text) : Nth(i)
    <3>1. Slashes(text) \in SUBSET (1 .. Len(text)) /\ Len(text) \in Nat
      BY DEF Slashes, Rooted
    <3> QED
      BY <1>2, <3>1, NthExists
  <2>2. PICK a : a = CHOOSE i \in Slashes(text) : Nth(i)
    OBVIOUS
  <2>3. a \in Slashes(text)
    <3> HIDE DEF Nth
    <3> QED
      BY <2>1, <2>2
  <2>4. Before(text, n) = SubSeq(text, 1, a - 1)
    BY <2>2, Zenon DEF Before
  <2>5. a \in 1 .. Len(text) /\ text \in Seq(AllChars) /\ text # <<>> /\ text[1] = "/"
    BY <2>3 DEF Slashes, Rooted
  <2>6. PICK t : t = SubSeq(text, 1, a - 1)
    OBVIOUS
  <2>7. t \in Seq(AllChars) /\ Len(t) = a - 1 /\ \A i \in 1 .. (a - 1) : t[i] = text[i]
    BY <2>5, <2>6
  <2>8. t = <<>> \/ t[1] = "/"
    <3>1. a - 1 = 0 => t = <<>>
      BY <2>7
    <3>2. a - 1 # 0 => 1 \in 1 .. (a - 1)
      BY <2>5
    <3> QED
      BY <2>5, <2>7, <3>1, <3>2
  <2> QED
    BY <2>4, <2>6, <2>7, <2>8 DEF Rooted
<1>3. FixWorkingDirectory(text) =
        IF d = 0 \/ s < d THEN text
        ELSE IF s = d THEN <<>>
        ELSE Before(text, IF s - d >= d THEN s - 2 * d + 1 ELSE 1)
  BY Zenon DEF FixWorkingDirectory
<1> HIDE DEF s, d
<1>4. CASE d = 0 \/ s < d
  BY <1>3, <1>4
<1>5. CASE ~(d = 0 \/ s < d) /\ s = d
  BY <1>3, <1>5 DEF Rooted
<1>6. CASE ~(d = 0 \/ s < d) /\ s # d
  <2>1. (IF s - d >= d THEN s - 2 * d + 1 ELSE 1) \in 1 .. s
    BY <1>1, <1>6
  <2> QED
    BY <1>2, <1>3, <1>6, <2>1
<1> QED
  BY <1>4, <1>5, <1>6

\* The text starts at the root, and is one of names that stand for the current
\* directory after a regular path.  The mark for no path is not the path of any.
ShownInv ==
  /\ Rooted(directory) /\ NoPath \notin dirs
  /\ ~strayed => Shows(directory, cwd)

LEMMA InitShown == ASSUME ShellInit PROVE ShownInv
<1>1. /\ cwd = HomeDir /\ p1 = <<>> /\ directory = WriteAll(<<>>, HomeDir)
      /\ dirs = {SubSeq(HomeDir, 1, n) : n \in 0 .. Len(HomeDir)}
  <2>1. /\ cwd = HomeDir /\ p1 = <<>>
        /\ dirs = {SubSeq(HomeDir, 1, n) : n \in 0 .. Len(HomeDir)}
    BY Zenon DEF ShellInit
  <2> QED
    BY <2>1, HomeWritten
<1>2. Shows(directory, cwd)
  <2>1. PICK text : text = directory
    OBVIOUS
  <2> QED
    BY <1>1, <2>1, HomeShown
<1>3. Rooted(directory)
  <2>1. PICK t : t = directory
    OBVIOUS
  <2>2. Shows(t, cwd)
    BY <1>2, <2>1
  <2>3. PICK n, names : Tidy(t, names, n)
    BY <2>2 DEF Shows
  <2>4. t \in Seq(TextChars)
    BY <2>3 DEF Tidy
  <2>5. t \in Seq(AllChars)
    BY <2>4 DEF AllChars
  <2>6. t # <<>> => \E st : Laid(t, Len(t), names, st, n)
    BY <2>3 DEF Tidy
  <2>7. ASSUME NEW st, Laid(t, Len(t), names, st, n) PROVE t[1] = "/"
    BY <2>7 DEF Laid
  <2> QED
    BY <2>1, <2>5, <2>6, <2>7 DEF Rooted
<1>4. NoPath \notin dirs
  <2>1. HomeDir \in Seq(HomeNames)
    BY ShellAssumption DEF HomeNames
  <2>2. ASSUME NEW n \in 0 .. Len(HomeDir), SubSeq(HomeDir, 1, n) = NoPath PROVE FALSE
    <3>1. PICK h, q : h = HomeDir /\ q = SubSeq(h, 1, n)
      OBVIOUS
    <3>2. q = << <<"?">> >>
      BY <2>2, <3>1 DEF NoPath
    <3>3. Len(q) = 1 /\ q[1] = <<"?">>
      BY <3>2
    <3>4. h \in Seq(HomeNames) /\ n \in 0 .. Len(h)
      BY <2>1, <3>1
    <3>5. Len(q) = n /\ \A i \in 1 .. n : q[i] = h[i] /\ h[i] \in HomeNames
      BY <3>1, <3>4
    <3>6. q[1] \in HomeNames
      <4>1. n = 1
        BY <3>3, <3>5
      <4>2. 1 \in 1 .. n
        BY <4>1
      <4>3. q[1] = h[1] /\ h[1] \in HomeNames
        BY <3>5, <4>2, Zenon
      <4> QED
        BY <4>3
    <3>7. \A w \in HomeNames : \A k \in DOMAIN w : w[k] \in {"a", "b", "h"}
      BY DEF HomeNames
    <3> QED
      BY <3>3, <3>6, <3>7
  <2> QED
    BY <1>1, <2>2
<1> QED
  BY <1>2, <1>3, <1>4 DEF ShownInv

LEMMA StepShown ==
  ASSUME ParamInv, ShownInv, ShellNext PROVE ShownInv'
<1>1. CASE Halted
  BY <1>1 DEF Halted, shellVars, ShownInv, Shows
<1>2. ASSUME NEW line \in Lines, CommandLineIn(line) PROVE ShownInv'
  <2>1. SplitCommandLine(line) \in Seq(Cells)
    BY SplitTyped DEF ParamInv
  <2>2. NoPath \notin dirs'
    <3>1. \/ dirs' = dirs
          \/ CreateDir(line)
          \/ Delete(line)
      BY <1>2, Zenon DEF CommandLineIn, ChangeDir, CreateFile,
         Copy, Move, RefuseCopy, WriteTo, Echo, Show
    <3>2. CASE CreateDir(line)
      BY <3>2 DEF CreateDir, Creatable, ShownInv
    <3>3. CASE Delete(line)
      BY <3>3 DEF Delete, ShownInv
    <3> QED
      BY <3>1, <3>2, <3>3 DEF ShownInv
  <2>3. CASE UNCHANGED <<directory, cwd, strayed>>
    BY <2>2, <2>3 DEF ShownInv, Shows
  <2>4. CASE ChangeDir(line) /\ ~UNCHANGED <<directory, cwd, strayed>>
    <3>1. PICK text, one, t : text = Here(line) /\ one = One(line) /\ t = directory
      OBVIOUS
    <3>2. /\ Find(text) \in dirs /\ cwd' = Find(text)
          /\ directory' = FixWorkingDirectory(text)
          /\ strayed' = ~Regular(text)
      BY <2>4, <3>1, Zenon DEF ChangeDir
    <3>3. t \in Seq(AllChars) /\ (t = <<>> \/ t[1] = "/") /\ one \in Seq(AllChars)
      BY <2>1, <3>1, TextTyped DEF ShownInv, Rooted, One
    <3>4. text = t \o <<"/">> \o one /\ <<"/">> \in Seq(AllChars)
      <4>1. text = t \o <<"/">> \o one
        BY <3>1, Zenon DEF Here
      <4> QED
        BY <4>1 DEF AllChars, TextChars
    <3>5. text \in Seq(AllChars) /\ text # <<>> /\ text[1] = "/"
      BY <3>3, <3>4
    <3>6. Rooted(directory')
      BY <3>2, <3>5, FixedRooted DEF Rooted
    <3>7. Regular(text) => Shows(directory', cwd')
      BY <3>2, <3>5, ChangeShows DEF ShownInv
    <3> QED
      BY <2>2, <3>2, <3>6, <3>7 DEF ShownInv, Shows
  <2> QED
    BY <1>2, <2>3, <2>4, Zenon DEF CommandLineIn, CreateFile, CreateDir,
       Delete, Copy, Move, RefuseCopy, WriteTo, Echo, Show
<1> QED
  BY <1>1, <1>2 DEF ShellNext

\* With any directories, names and parameters: the text that
\* FixWorkingDirectory cuts and the tree that f_chdir walks name the same
\* directory whenever the last path taken was regular.
THEOREM DirectoryStaysCwd == ShellSpec => []DirectoryIsCwd
<1>1. ShellInit => Tree /\ ParamInv /\ ShownInv
  BY InitTree, InitParam, InitShown
<1>2. Tree /\ ParamInv /\ ShownInv /\ [ShellNext]_shellVars => (Tree /\ ParamInv /\ ShownInv)'
  <2>1. ASSUME UNCHANGED shellVars, Tree, ParamInv, ShownInv PROVE (Tree /\ ParamInv /\ ShownInv)'
    <3>1. UNCHANGED <<directory, cwd, dirs, files, p1, early, strayed>>
      BY <2>1 DEF shellVars
    <3>2. Tree' /\ ParamInv'
      BY <2>1, <3>1 DEF Tree, ParamInv
    <3>3. ShownInv'
      BY <2>1, <3>1 DEF ShownInv, Shows
    <3> QED
      BY <3>2, <3>3
  <2>2. ASSUME ShellNext, Tree, ParamInv, ShownInv PROVE (Tree /\ ParamInv /\ ShownInv)'
    BY <2>2, StepTree, NextParam, StepShown
  <2> QED
    BY <2>1, <2>2
<1>3. Tree /\ ShownInv => DirectoryIsCwd
  <2> SUFFICES ASSUME Tree, ShownInv, ~strayed PROVE Follow(<<>>, directory) = cwd
    BY DEF DirectoryIsCwd
  <2>1. PICK t, path : t = directory /\ path = cwd
    OBVIOUS
  <2>2. Shows(t, path) /\ path \in dirs /\ Closed
    BY <2>1 DEF ShownInv, Tree, Closed
  <2>3. Follow(<<>>, t) = path
    BY <2>2, ShownIsFollowed
  <2> QED
    BY <2>1, <2>3
<1> QED
  BY <1>1, <1>2, <1>3, PTL DEF ShellSpec
=============================================================================
