----------------------------- MODULE TiersProofs -----------------------------
(***************************************************************************)
(* For any names, any foreign trees and any bounds: what Tiers says of its *)
(* state, that no move loses work, and that selfdestruct removes nothing   *)
(* that was not listed.                                                    *)
(***************************************************************************)
EXTENDS Tiers, TLAPS

\* A command names homes, and is told apart by where it is in its script.
Command ==
  [op : {"none", "promote", "demote", "quarantine", "destruct"},
   at : {"idle", "rename", "notice", "git", "copy", "discard", "phrase", "remove"},
   from : Homes \cup {<<"none", "none">>}, to : Homes \cup {<<"none", "none">>},
   entries : SUBSET Homes]

Steady ==
  /\ trees \in [Taken -> Tree] /\ Taken \subseteq Homes
  /\ edits \in 0 .. MaxEdits
  /\ cmd \in Command
  /\ cmd.entries # {} <=> cmd.at \in {"phrase", "remove"}
  /\ cmd.at \in {"rename", "notice", "git", "copy", "discard"} => cmd.to \in Homes
  /\ cmd.at \in {"rename", "notice", "copy"} => cmd.op \in {"promote", "demote", "quarantine"}

\* A token is computed from the homes of its inventory, all of them in its scope.
Honest(inventory) ==
  /\ inventory.homes = {line.home : line \in inventory.token.lines}
  /\ \A h \in inventory.homes :
       /\ inventory.scope.kind = "sandbox" => h[1] = "sandbox"
       /\ inventory.scope.kind = "workspace" => h[2] = inventory.scope.name

\* What is to be removed is what some inventory listed.
Listed ==
  /\ \A inventory \in shown : Honest(inventory)
  /\ cmd.at \in {"phrase", "remove"} =>
       \E inventory \in shown : cmd.entries \subseteq inventory.homes

-----------------------------------------------------------------------------
(* Steps on the trees.                                                     *)

\* Put changes or adds one tree.
LEMMA PutFacts ==
  ASSUME NEW home, NEW tree, Put(home, tree)
  PROVE  /\ trees' = [h \in Taken \cup {home} |-> IF h = home THEN tree ELSE trees[h]]
         /\ Taken' = Taken \cup {home}
BY DEF Put, Taken

\* Leave takes trees away and changes no other.
LEMMA LeaveFacts ==
  ASSUME NEW homes, Leave(homes)
  PROVE  /\ trees' = [h \in Taken \ homes |-> trees[h]]
         /\ Taken' = Taken \ homes
BY DEF Leave, Restrict, Taken

\* Erase touches one tree: it is gone, or has less work.
LEMMA EraseFacts ==
  ASSUME Steady, NEW home \in Homes, Erase(home)
  PROVE  /\ Taken' \subseteq Taken /\ trees' \in [Taken' -> Tree]
         /\ \A h \in Taken \ {home} : h \in Taken' /\ trees'[h] = trees[h]
<1>1. CASE Leave({home})
  <2>1. trees' = [h \in Taken \ {home} |-> trees[h]] /\ Taken' = Taken \ {home}
    BY <1>1, LeaveFacts
  <2> QED BY <2>1 DEF Steady
<1>2. CASE home \in Taken /\ \E rest \in SUBSET trees[home].work :
                               Put(home, [trees[home] EXCEPT !.work = rest])
  <2>1. PICK rest \in SUBSET trees[home].work : Put(home, [trees[home] EXCEPT !.work = rest])
    BY <1>2
  <2>2. [trees[home] EXCEPT !.work = rest] \in Tree
    BY <1>2, <2>1 DEF Steady, Tree
  <2> DEFINE tree == [trees[home] EXCEPT !.work = rest]
  <2>3. /\ trees' = [h \in Taken \cup {home} |-> IF h = home THEN tree ELSE trees[h]]
        /\ Taken' = Taken \cup {home}
    BY <2>1, PutFacts
  <2> HIDE DEF tree
  <2>4. tree \in Tree
    BY <2>2 DEF tree
  <2> QED BY <1>2, <2>3, <2>4 DEF Steady
<1> QED BY <1>1, <1>2 DEF Erase

-----------------------------------------------------------------------------
(* Type.                                                                   *)

\* Putting a tree at a home keeps the map of trees one.
LEMMA PutSteady ==
  ASSUME Steady, NEW home \in Homes, NEW tree \in Tree, Put(home, tree)
  PROVE  trees' \in [Taken' -> Tree] /\ Taken' \subseteq Homes
<1>1. /\ trees' = [h \in Taken \cup {home} |-> IF h = home THEN tree ELSE trees[h]]
      /\ Taken' = Taken \cup {home}
  BY PutFacts
<1> QED BY <1>1 DEF Steady

LEMMA SteadyInit == Init => Steady
BY BoundAssumption DEF Init, Steady, Idle, Command, Taken

LEMMA AuthorSteady == Steady /\ Author => Steady'
<1> SUFFICES ASSUME Steady, NEW home \in Homes,
                    \/ AuthorCreates(home) \/ AuthorEdits(home)
                    \/ AuthorWritesNotice(home) \/ AuthorDeletes(home)
             PROVE  Steady'
  BY DEF Author
<1> USE BoundAssumption
<1>1. CASE AuthorCreates(home)
  <2>1. \A work \in {{}, {edits + 1}} : [Bare EXCEPT !.work = work] \in Tree
    <3>1. Bare \in Tree
      BY DEF Bare, Tree
    <3>2. {edits + 1} \in SUBSET Edits
      BY <1>1 DEF AuthorCreates, Steady, Edits
    <3> QED BY <3>1, <3>2 DEF Tree
  <2>2. PICK work \in {{}, {edits + 1}} : Put(home, [Bare EXCEPT !.work = work])
    BY <1>1 DEF AuthorCreates
  <2>3. trees' \in [Taken' -> Tree] /\ Taken' \subseteq Homes
    BY <2>1, <2>2, PutSteady
  <2> QED BY <1>1, <2>3 DEF AuthorCreates, Steady
<1>2. CASE AuthorEdits(home)
  <2>1. PICK old \in {{}} \cup {{e} : e \in trees[home].work} :
          Put(home, [trees[home] EXCEPT !.work = (@ \ old) \cup {edits + 1}])
    BY <1>2 DEF AuthorEdits
  <2>2. [trees[home] EXCEPT !.work = (@ \ old) \cup {edits + 1}] \in Tree
    BY <1>2 DEF AuthorEdits, Steady, Tree, Edits
  <2>3. trees' \in [Taken' -> Tree] /\ Taken' \subseteq Homes
    BY <2>1, <2>2, PutSteady
  <2> QED BY <1>2, <2>3 DEF AuthorEdits, Steady
<1>3. CASE AuthorWritesNotice(home)
  <2>1. [trees[home] EXCEPT !.notice = "author"] \in Tree
    BY <1>3 DEF AuthorWritesNotice, Steady, Tree
  <2>2. trees' \in [Taken' -> Tree] /\ Taken' \subseteq Homes
    BY <1>3, <2>1, PutSteady DEF AuthorWritesNotice
  <2> QED BY <1>3, <2>2 DEF AuthorWritesNotice, Steady
<1>4. CASE AuthorDeletes(home)
  <2>1. trees' \in [Taken' -> Tree] /\ Taken' \subseteq Homes
    BY <1>4, LeaveFacts DEF AuthorDeletes, Steady
  <2> QED BY <1>4, <2>1 DEF AuthorDeletes, Steady
<1> QED BY <1>1, <1>2, <1>3, <1>4

LEMMA MovesSteady == Steady /\ Moves => Steady'
<1> SUFFICES ASSUME Steady, Moves PROVE Steady'
  OBVIOUS
<1>1. ASSUME NEW n \in Names, NEW op \in {"promote", "demote"},
             NEW from \in TierNames, NEW to \in TierNames, MoveBetween(op, from, to, n)
      PROVE  Steady'
  BY <1>1 DEF MoveBetween, Steady, Command, Idle, Homes, TierNames, Taken
<1>2. CASE Rename
  <2>1. trees' = [h \in (Taken \ {cmd.from}) \cup {cmd.to} |->
                    IF h = cmd.to THEN trees[cmd.from] ELSE trees[h]]
    BY <1>2 DEF Rename, Relocate
  <2>2. trees' \in [Taken' -> Tree] /\ Taken' \subseteq Homes
    BY <1>2, <2>1 DEF Rename, Steady, Taken
  <2> QED BY <1>2, <2>2 DEF Rename, Steady, Command, Goes
<1>3. CASE Notice
  <2> DEFINE tree == [trees[cmd.to] EXCEPT
                        !.notice = CASE cmd.op = "promote" -> "none"
                                     [] cmd.op = "demote" -> "sandbox"
                                     [] cmd.op = "quarantine" -> "quarantine"]
  <2>1. tree \in Tree
    BY <1>3 DEF Notice, Steady, Tree
  <2>2. trees' \in [Taken' -> Tree] /\ Taken' \subseteq Homes
    BY <1>3, <2>1, PutSteady DEF Notice, Steady
  <2> QED BY <1>3, <2>2 DEF Notice, Steady, Command, Goes, Ends, Idle
<1>4. CASE GitInit
  <2>1. [trees[cmd.to] EXCEPT !.git = TRUE] \in Tree
    BY <1>4 DEF GitInit, Steady, Tree
  <2>2. trees' \in [Taken' -> Tree] /\ Taken' \subseteq Homes
    BY <1>4, <2>1, PutSteady DEF GitInit, Steady
  <2> QED BY <1>4, <2>2 DEF GitInit, Steady, Command, Ends, Idle
<1>5. CASE RenameFails \/ NoticeFails \/ NoGit
  BY <1>5 DEF RenameFails, NoticeFails, NoGit, Steady, Command, Goes, Ends, Idle, Taken
<1> QED BY <1>1, <1>2, <1>3, <1>4, <1>5 DEF Moves, TierNames

\* What a copy leaves is a tree, with what was there before it.
LEMMA CopiedFacts ==
  ASSUME Steady, cmd.from \in Taken, NEW part \in SUBSET trees[cmd.from].work
  PROVE  /\ Copied(part) \in Tree
         /\ cmd.to \in Taken => trees[cmd.to].work \subseteq Copied(part).work
BY DEF Copied, Steady, Tree

LEMMA AdoptionSteady == Steady /\ Adoption => Steady'
<1> SUFFICES ASSUME Steady, Adoption PROVE Steady'
  OBVIOUS
<1>1. ASSUME NEW n \in Foreign, NEW m \in Names, Quarantine(n, m) PROVE Steady'
  BY <1>1 DEF Quarantine, Steady, Command, Idle, Homes, TierNames, Taken
<1>2. CASE Copy
  <2>1. trees' \in [Taken' -> Tree] /\ Taken' \subseteq Homes
    BY <1>2, CopiedFacts, PutSteady DEF Copy, Steady
  <2>2. cmd.op \in {"promote", "demote", "quarantine"}
    BY <1>2 DEF Copy, Steady
  <2> QED BY <1>2, <2>1, <2>2 DEF Copy, Steady, Command, Goes
<1>3. CASE CopyFails
  <2>1. trees' \in [Taken' -> Tree] /\ Taken' \subseteq Homes
    <3>1. CASE UNCHANGED trees
      BY <3>1 DEF Steady, Taken
    <3>2. CASE cmd.from \in Taken /\ \E part \in SUBSET trees[cmd.from].work :
                                       Put(cmd.to, Copied(part))
      BY <1>3, <3>2, CopiedFacts, PutSteady DEF CopyFails, Steady
    <3> QED BY <1>3, <3>1, <3>2 DEF CopyFails
  <2> QED BY <1>3, <2>1 DEF CopyFails, Steady, Command, Goes
<1>4. CASE Discard
  <2>1. trees' \in [Taken' -> Tree] /\ Taken' \subseteq Homes
    BY <1>4, EraseFacts DEF Discard, Steady
  <2> QED BY <1>4, <2>1 DEF Discard, Steady, Command, Ends, Idle
<1> QED BY <1>1, <1>2, <1>3, <1>4 DEF Adoption

LEMMA DestructionSteady == Steady /\ Destruction => Steady'
<1> SUFFICES ASSUME Steady, Destruction PROVE Steady'
  OBVIOUS
<1>1. ASSUME NEW scope \in Scopes, Inventory(scope) \/ Confirm(scope) PROVE Steady'
  BY <1>1 DEF Inventory, Confirm, Steady, Command, Idle, Survey, Taken
<1>2. CASE Phrase
  BY <1>2 DEF Phrase, Steady, Command, Goes, Ends, Idle, Taken
<1>3. ASSUME NEW home \in Homes, Remove(home) PROVE Steady'
  <2>1. trees' \in [Taken' -> Tree] /\ Taken' \subseteq Homes
    BY <1>3, EraseFacts DEF Remove, Steady
  <2>2. CASE cmd.entries = {home}
    BY <1>3, <2>1, <2>2 DEF Remove, Steady, Command, Idle
  <2>3. CASE cmd.entries # {home}
    BY <1>3, <2>1, <2>3 DEF Remove, Steady, Command
  <2> QED BY <2>2, <2>3
<1> QED BY <1>1, <1>2, <1>3 DEF Destruction

\* Steady is inductive.
LEMMA SteadyNext == Steady /\ [Next]_vars => Steady'
<1> SUFFICES ASSUME Steady, [Next]_vars PROVE Steady'
  OBVIOUS
<1>1. CASE Killed
  BY <1>1 DEF Killed, Steady, Command, Ends, Idle, Taken
<1>2. CASE UNCHANGED vars
  BY <1>2 DEF vars, Steady, Taken
<1> QED BY <1>1, <1>2, AuthorSteady, MovesSteady, AdoptionSteady, DestructionSteady DEF Next

\* The map of trees and the commands are of their types, and a command that destroys
\* always has something left to do (Tiers!TypeOK).
THEOREM TypeCorrect == Spec => []TypeOK
<1>1. Steady => TypeOK
    <2> SUFFICES ASSUME Steady PROVE \E taken \in SUBSET Homes : trees \in [taken -> Tree]
    BY DEF Steady, TypeOK, Command
  <2>1. Taken \in SUBSET Homes /\ trees \in [Taken -> Tree]
    BY DEF Steady
  <2> QED BY <2>1
<1> QED BY <1>1, SteadyInit, SteadyNext, PTL DEF Spec

-----------------------------------------------------------------------------
(* No move loses work.                                                     *)

\* Work is kept when every tree's is found in some tree of the next state.
LEMMA WorkKept ==
  ASSUME \A h \in Taken : \E g \in Taken' : trees[h].work \subseteq trees'[g].work
  PROVE  Work \subseteq Work'
BY DEF Work

\* A tree put where there was none, or that has all the work of the one it replaces.
LEMMA PutKeeps ==
  ASSUME NEW home, NEW tree, Put(home, tree),
         home \in Taken => trees[home].work \subseteq tree.work
  PROVE  Work \subseteq Work'
<1>1. /\ trees' = [h \in Taken \cup {home} |-> IF h = home THEN tree ELSE trees[h]]
      /\ Taken' = Taken \cup {home}
  BY PutFacts
<1>2. \A h \in Taken : h \in Taken' /\ trees[h].work \subseteq trees'[h].work
  BY <1>1
<1> QED BY <1>2, WorkKept

LEMMA MovesKeep == Steady /\ Moves => Work \subseteq Work'
<1> SUFFICES ASSUME Steady, Moves PROVE Work \subseteq Work'
  OBVIOUS
<1>1. CASE Rename
  <2>1. trees' = [h \in (Taken \ {cmd.from}) \cup {cmd.to} |->
                    IF h = cmd.to THEN trees[cmd.from] ELSE trees[h]]
    BY <1>1 DEF Rename, Relocate
  <2>2. Taken' = (Taken \ {cmd.from}) \cup {cmd.to}
    BY <2>1 DEF Taken
  <2>3. ASSUME NEW h \in Taken
        PROVE  \E g \in Taken' : trees[h].work \subseteq trees'[g].work
    <3>1. CASE h = cmd.from
      BY <2>1, <2>2, <3>1
    <3>2. CASE h # cmd.from
      <4>1. CASE h = cmd.to
        <5>1. trees[h].work = {}
          BY <1>1, <4>1 DEF Rename, Vacant, Bare
        <5> QED BY <2>2, <5>1
      <4>2. CASE h # cmd.to
        BY <2>1, <2>2, <3>2, <4>2
      <4> QED BY <4>1, <4>2
    <3> QED BY <3>1, <3>2
  <2> QED BY <2>3, WorkKept
<1>2. CASE Notice
  <2> DEFINE tree == [trees[cmd.to] EXCEPT
                        !.notice = CASE cmd.op = "promote" -> "none"
                                     [] cmd.op = "demote" -> "sandbox"
                                     [] cmd.op = "quarantine" -> "quarantine"]
  <2>1. tree.work = trees[cmd.to].work
    BY <1>2 DEF Notice, Steady, Tree
  <2>2. Put(cmd.to, tree)
    BY <1>2 DEF Notice
  <2> HIDE DEF tree
  <2> QED BY <2>1, <2>2, PutKeeps
<1>3. CASE GitInit
  <2>1. [trees[cmd.to] EXCEPT !.git = TRUE].work = trees[cmd.to].work
    BY <1>3 DEF GitInit, Steady, Tree
  <2>2. Put(cmd.to, [trees[cmd.to] EXCEPT !.git = TRUE])
    BY <1>3 DEF GitInit
  <2> QED BY <2>1, <2>2, PutKeeps
<1>4. CASE UNCHANGED trees
  BY <1>4 DEF Work, Taken
<1> QED BY <1>1, <1>2, <1>3, <1>4 DEF Moves, MoveBetween, RenameFails, NoticeFails, NoGit

LEMMA AdoptionKeeps ==
  ASSUME Steady, Adoption
  PROVE  Work \ Work' \subseteq IF cmd.at = "discard" /\ cmd.to \in Taken
                                THEN trees[cmd.to].work ELSE {}
<1>1. CASE UNCHANGED trees
  BY <1>1 DEF Work, Taken
<1>2. ASSUME cmd.from \in Taken, NEW part \in SUBSET trees[cmd.from].work,
             Put(cmd.to, Copied(part))
      PROVE  Work \subseteq Work'
  BY <1>2, CopiedFacts, PutKeeps
<1>3. CASE Copy
  <2>1. Put(cmd.to, Copied(trees[cmd.from].work)) /\ cmd.from \in Taken
    BY <1>3 DEF Copy
  <2> QED BY <1>2, <2>1
<1>4. CASE CopyFails
  BY <1>1, <1>2, <1>4 DEF CopyFails
<1>5. CASE Discard
  <2>1. cmd.at = "discard" /\ cmd.to \in Homes /\ Erase(cmd.to)
    BY <1>5 DEF Discard, Steady
  <2>2. \A h \in Taken \ {cmd.to} : h \in Taken' /\ trees'[h] = trees[h]
    BY <2>1, EraseFacts
  <2> QED BY <2>1, <2>2 DEF Work
<1> QED BY <1>1, <1>3, <1>4, <1>5 DEF Adoption, Quarantine

\* Whatever fails and wherever the script is killed, a promotion, a demotion or an
\* adoption loses no edit but at its own target (Tiers!MovesKeepWork).
THEOREM KeepsWork == Spec => MovesKeepWork
<1>1. ASSUME Steady, [Next]_vars
      PROVE  [Moves \/ Adoption =>
                Work \ Work' \subseteq IF cmd.at = "discard" /\ cmd.to \in Taken
                                       THEN trees[cmd.to].work ELSE {}]_vars
  BY <1>1, MovesKeep, AdoptionKeeps
<1> QED BY <1>1, SteadyInit, SteadyNext, PTL DEF Spec, MovesKeepWork

-----------------------------------------------------------------------------
(* What is destroyed was listed.                                           *)

LEMMA ListedInit == Init => Listed
BY DEF Init, Listed, Idle

\* The homes of a survey can be read off its token.
LEMMA TokenHomes ==
  ASSUME NEW scope, NEW entries
  PROVE  entries = {line.home : line \in Token(scope, entries).lines}
<1> DEFINE LineOf(h) == [home |-> h, files |-> Files(trees[h]), git |-> trees[h].git]
<1>1. Token(scope, entries).lines = {LineOf(h) : h \in entries}
  BY DEF Token
<1>2. \A h \in entries : LineOf(h).home = h
  OBVIOUS
<1> HIDE DEF LineOf
<1> QED BY <1>1, <1>2

LEMMA InventoryListed ==
  ASSUME Steady, Listed, NEW scope \in Scopes, Inventory(scope)
  PROVE  Listed'
<1> DEFINE inventory == [scope |-> scope, token |-> Token(scope, Survey(scope)),
                         homes |-> Survey(scope)]
<1>1. shown' = {inventory} /\ cmd' = cmd /\ cmd = Idle
  BY DEF Inventory
<1>2. inventory.homes = {line.home : line \in inventory.token.lines}
  <2>1. Survey(scope) = {line.home : line \in Token(scope, Survey(scope)).lines}
    BY TokenHomes
  <2> QED BY <2>1
<1>3. Honest(inventory)
  BY <1>2 DEF Honest, Survey
<1>4. cmd'.at \notin {"phrase", "remove"}
  BY <1>1 DEF Idle
<1> HIDE DEF inventory
<1>5. \A i \in shown' : Honest(i)
  BY <1>1, <1>3
<1> QED BY <1>4, <1>5 DEF Listed, Honest

\* Two surveys with one token are of the same homes.
LEMMA ConfirmListed ==
  ASSUME Steady, Listed, NEW scope \in Scopes, Confirm(scope)
  PROVE  Listed'
<1>1. PICK inventory \in shown : Token(scope, Survey(scope)) = inventory.token
  BY DEF Confirm
<1>2. Survey(scope) = inventory.homes
  <2>1. Survey(scope) = {line.home : line \in Token(scope, Survey(scope)).lines}
    BY TokenHomes
  <2> QED BY <1>1, <2>1 DEF Listed, Honest
<1>3. cmd'.entries = Survey(scope) /\ shown' = shown
  BY DEF Confirm, Idle
<1> QED BY <1>1, <1>2, <1>3 DEF Listed, Honest

LEMMA ListedNext == Steady /\ Listed /\ [Next]_vars => Listed'
<1> SUFFICES ASSUME Steady, Listed, [Next]_vars PROVE Listed'
  OBVIOUS
<1>1. ASSUME shown' = shown,
             cmd'.at \in {"phrase", "remove"} =>
               cmd.at \in {"phrase", "remove"} /\ cmd'.entries \subseteq cmd.entries
      PROVE  Listed'
  BY <1>1 DEF Listed, Honest
<1>2. CASE Author \/ UNCHANGED vars
  <2>1. shown' = shown /\ cmd' = cmd
    BY <1>2 DEF Author, AuthorCreates, AuthorEdits, AuthorWritesNotice, AuthorDeletes, vars
  <2> QED BY <1>1, <2>1
<1>3. CASE Moves \/ Adoption \/ Killed
  <2>1. shown' = shown
    BY <1>3 DEF Moves, MoveBetween, Rename, RenameFails, Notice, NoticeFails, GitInit, NoGit,
                Adoption, Quarantine, Copy, CopyFails, Discard, Killed
  <2>2. Ends => cmd'.at = "idle"
    BY DEF Ends, Idle
  <2>3. \A at \in {"git", "notice", "discard"} : Goes(at) => cmd'.at = at
    BY DEF Goes, Steady, Command
  <2>4. ASSUME NEW op, NEW from, NEW to, NEW n, MoveBetween(op, from, to, n)
        PROVE  cmd'.at = "rename"
    BY <2>4 DEF MoveBetween
  <2>5. ASSUME NEW n \in Foreign, NEW m \in Names, Quarantine(n, m) PROVE cmd'.at = "copy"
    BY <2>5 DEF Quarantine
  <2>6. Moves => cmd'.at \in {"rename", "notice", "git", "idle"}
    BY <2>2, <2>3, <2>4 DEF Moves, Rename, RenameFails, Notice, NoticeFails, GitInit, NoGit
  <2>7. Adoption => cmd'.at \in {"copy", "notice", "discard", "idle"}
    BY <2>2, <2>3, <2>5 DEF Adoption, Copy, CopyFails, Discard
  <2>8. cmd'.at \notin {"phrase", "remove"}
    BY <1>3, <2>2, <2>6, <2>7 DEF Killed
  <2> QED BY <1>1, <2>1, <2>8
<1>4. ASSUME NEW scope \in Scopes, Inventory(scope) \/ Confirm(scope) PROVE Listed'
  BY <1>4, InventoryListed, ConfirmListed
<1>5. CASE Phrase
  <2>1. shown' = shown /\ cmd.at = "phrase"
    BY <1>5 DEF Phrase
  <2>2. cmd'.at \in {"phrase", "remove"} => cmd'.entries = cmd.entries
    BY <1>5 DEF Phrase, Goes, Ends, Idle, Steady, Command
  <2> QED BY <1>1, <2>1, <2>2
<1>6. ASSUME NEW home \in Homes, Remove(home) PROVE Listed'
  <2>1. shown' = shown /\ cmd.at = "remove"
    BY <1>6 DEF Remove
  <2>2. cmd'.at \in {"phrase", "remove"} => cmd'.entries \subseteq cmd.entries
    BY <1>6 DEF Remove, Idle, Steady, Command
  <2> QED BY <1>1, <2>1, <2>2
<1> QED BY <1>2, <1>3, <1>4, <1>5, <1>6 DEF Next, Destruction

\* A step of the destruction changes only a tree that an inventory listed.
LEMMA DestroysListed ==
  ASSUME Steady, Listed, Destruction,
         NEW h \in {t \in Taken : t \notin DOMAIN trees' \/ trees'[t] # trees[t]}
  PROVE  \E inventory \in shown :
           /\ h \in inventory.homes
           /\ inventory.scope.kind = "sandbox" => h[1] = "sandbox"
           /\ inventory.scope.kind = "workspace" => h[2] = inventory.scope.name
<1>1. PICK home \in Homes : Remove(home)
  <2>1. trees' # trees
    BY DEF Taken
  <2> QED BY <2>1 DEF Destruction, Inventory, Confirm, Phrase
<1>2. cmd.at = "remove" /\ home \in cmd.entries /\ Erase(home)
  BY <1>1 DEF Remove
<1>3. h = home
  <2>1. \A t \in Taken \ {home} : t \in Taken' /\ trees'[t] = trees[t]
    BY <1>2, EraseFacts
  <2>2. Taken' = DOMAIN trees'
    BY DEF Taken
  <2> QED BY <2>1, <2>2
<1>4. PICK inventory \in shown : cmd.entries \subseteq inventory.homes
  BY <1>2 DEF Listed
<1>5. h \in inventory.homes /\ Honest(inventory)
  BY <1>2, <1>3, <1>4 DEF Listed
<1> QED BY <1>4, <1>5 DEF Honest

\* Whatever happens between the inventory, the confirmation and the removals,
\* selfdestruct destroys only what it listed (Tiers!DestroysOnlyListed).
THEOREM OnlyListed == Spec => DestroysOnlyListed
<1>1. ASSUME Steady, Listed
      PROVE  [Destruction =>
                \A h \in {t \in Taken : t \notin DOMAIN trees' \/ trees'[t] # trees[t]} :
                  \E inventory \in shown :
                    /\ h \in inventory.homes
                    /\ inventory.scope.kind = "sandbox" => h[1] = "sandbox"
                    /\ inventory.scope.kind = "workspace" => h[2] = inventory.scope.name]_vars
  BY <1>1, DestroysListed
<1> QED BY <1>1, SteadyInit, SteadyNext, ListedInit, ListedNext, PTL
        DEF Spec, DestroysOnlyListed
=============================================================================
