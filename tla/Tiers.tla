-------------------------------- MODULE Tiers --------------------------------
(***************************************************************************)
(* The commands that move workspaces between the tiers of the environment, *)
(* adopt a foreign tree, and destroy (lifecycle.lua, destruct.lua), beside *)
(* an author who goes on working in any of them.  A command is a script of *)
(* shell commands and file calls: each is a step, any may fail, and the    *)
(* script may be killed between two.                                       *)
(*                                                                         *)
(* Abstracted: a tree is the set of edits its files hold, the notice in    *)
(* its AGENTS.md and whether it is a repository; what the token covers of  *)
(* a repository beyond that is left out; the token is what it is computed  *)
(* from.  The environment is initialised.                                  *)
(***************************************************************************)
EXTENDS Integers, FiniteSets, Functions

CONSTANTS Names,    \* of workspaces
          Foreign,  \* of trees outside the environment
          MaxEdits, \* bound: the edits an author makes, new directories among them
          MaxTrees  \* bound: no tree is begun beside so many

ASSUME BoundAssumption == MaxEdits \in Nat

TierNames == {"sandbox", "project"}
Homes == (TierNames \X Names) \cup ({"outside"} \X Foreign)
Edits == 1 .. MaxEdits
Tree == [work : SUBSET Edits, notice : {"none", "author", "sandbox", "quarantine"},
         git : BOOLEAN]

VARIABLES
  trees,   \* what is where: a function on the homes that are taken
  edits,   \* how many edits the author has made
  shown,   \* the inventories selfdestruct printed, with their tokens
  cmd      \* the command that runs

vars == <<trees, edits, shown, cmd>>

Idle == [op |-> "none", at |-> "idle", from |-> <<"none", "none">>,
         to |-> <<"none", "none">>, entries |-> {}]
Taken == DOMAIN trees
Bare == [work |-> {}, notice |-> "none", git |-> FALSE]
\* rename(2) finds nothing in its way: there is nothing, or an empty directory.
Vacant(home) == home \in Taken => trees[home] = Bare
Leave(homes) == trees' = Restrict(trees, Taken \ homes)
Put(home, tree) ==
  trees' = [h \in Taken \cup {home} |-> IF h = home THEN tree ELSE trees[h]]
\* What stood at the target is gone.
Relocate(from, to) ==
  trees' = [h \in (Taken \ {from}) \cup {to} |-> IF h = to THEN trees[from] ELSE trees[h]]
\* rm -rf: all of it, or what it did not get to stays.
Erase(home) ==
  \/ Leave({home})
  \/ home \in Taken /\ \E rest \in SUBSET trees[home].work :
                         Put(home, [trees[home] EXCEPT !.work = rest])
Work == UNION {trees[h].work : h \in Taken}

Init ==
  /\ trees = [h \in {} |-> {}] /\ edits = 0 /\ shown = {} /\ cmd = Idle

-----------------------------------------------------------------------------
(* The author.                                                             *)
AuthorCreates(home) ==
  /\ home \notin Taken /\ edits < MaxEdits /\ Cardinality(Taken) < MaxTrees
  /\ \E work \in {{}, {edits + 1}} : Put(home, [Bare EXCEPT !.work = work])
  /\ edits' = edits + 1
  /\ UNCHANGED <<shown, cmd>>

AuthorEdits(home) ==
  /\ home \in Taken /\ edits < MaxEdits
  /\ LET tree == trees[home]
     IN \E old \in {{}} \cup {{e} : e \in tree.work} :  \* a file of its own, or instead of another
          Put(home, [tree EXCEPT !.work = (@ \ old) \cup {edits + 1}])
  /\ edits' = edits + 1
  /\ UNCHANGED <<shown, cmd>>

AuthorWritesNotice(home) ==
  /\ home \in Taken
  /\ Put(home, [trees[home] EXCEPT !.notice = "author"])
  /\ UNCHANGED <<edits, shown, cmd>>

AuthorDeletes(home) ==
  /\ home \in Taken /\ Leave({home})
  /\ UNCHANGED <<edits, shown, cmd>>

Author == \E home \in Homes :
  \/ AuthorCreates(home) \/ AuthorEdits(home) \/ AuthorWritesNotice(home)
  \/ AuthorDeletes(home)

-----------------------------------------------------------------------------
(* promote and demote.                                                     *)
Ends == cmd' = Idle
Goes(at) == cmd' = [cmd EXCEPT !.at = at]

MoveBetween(op, from, to, name) ==
  /\ cmd = Idle
  /\ <<from, name>> \in Taken /\ <<to, name>> \notin Taken
  /\ cmd' = [op |-> op, at |-> "rename", from |-> <<from, name>>, to |-> <<to, name>>,
             entries |-> {}]
  /\ UNCHANGED <<trees, edits, shown>>

RenameOver ==
  /\ cmd.at = "rename" /\ cmd.from \in Taken
  /\ Relocate(cmd.from, cmd.to)
  /\ Goes("notice")
  /\ UNCHANGED <<edits, shown>>
\* rename(2) does not replace a directory that holds anything.
Rename ==
  /\ cmd.at = "rename" /\ cmd.from \in Taken /\ Vacant(cmd.to)
  /\ Relocate(cmd.from, cmd.to)
  /\ Goes("notice")
  /\ UNCHANGED <<edits, shown>>
RenameFails ==
  /\ cmd.at = "rename" /\ Ends
  /\ UNCHANGED <<trees, edits, shown>>

\* The removal's result is not looked at, and neither is the write's.
Notice ==
  /\ cmd.at = "notice" /\ cmd.to \in Taken
  /\ Put(cmd.to, [trees[cmd.to] EXCEPT
                    !.notice = CASE cmd.op = "promote" -> "none"
                                 [] cmd.op = "demote" -> "sandbox"
                                 [] cmd.op = "quarantine" -> "quarantine"])
  /\ IF cmd.op = "promote" THEN Goes("git") ELSE Ends
  /\ UNCHANGED <<edits, shown>>
NoticeFails ==
  /\ cmd.at = "notice"
  /\ IF cmd.op = "promote" THEN Goes("git") ELSE Ends
  /\ UNCHANGED <<trees, edits, shown>>

GitInit ==
  /\ cmd.at = "git" /\ cmd.to \in Taken /\ ~trees[cmd.to].git
  /\ Put(cmd.to, [trees[cmd.to] EXCEPT !.git = TRUE])
  /\ Ends
  /\ UNCHANGED <<edits, shown>>
\* A repository already, --no-git, or no git.
NoGit ==
  /\ cmd.at = "git" /\ Ends
  /\ UNCHANGED <<trees, edits, shown>>

-----------------------------------------------------------------------------
(* quarantine.                                                             *)
Quarantine(name, as) ==
  /\ cmd = Idle
  /\ <<"outside", name>> \in Taken /\ <<"sandbox", as>> \notin Taken
  /\ Cardinality(Taken) < MaxTrees
  /\ cmd' = [op |-> "quarantine", at |-> "copy", from |-> <<"outside", name>>,
             to |-> <<"sandbox", as>>, entries |-> {}]
  /\ UNCHANGED <<trees, edits, shown>>

\* cp -a copies into a directory that has appeared at the target.
Copied(part) ==
  LET copy == [trees[cmd.from] EXCEPT !.work = part]
  IN IF cmd.to \in Taken THEN [trees[cmd.to] EXCEPT !.work = @ \cup part] ELSE copy

Copy ==
  /\ cmd.at = "copy" /\ cmd.from \in Taken
  /\ Put(cmd.to, Copied(trees[cmd.from].work))
  /\ Goes("notice")
  /\ UNCHANGED <<edits, shown>>
CopyFails ==
  /\ cmd.at = "copy"
  /\ \/ UNCHANGED trees
     \/ cmd.from \in Taken /\ \E part \in SUBSET trees[cmd.from].work : Put(cmd.to, Copied(part))
  /\ Goes("discard")
  /\ UNCHANGED <<edits, shown>>

Discard ==
  /\ cmd.at = "discard" /\ Erase(cmd.to) /\ Ends
  /\ UNCHANGED <<edits, shown>>

-----------------------------------------------------------------------------
(* selfdestruct.                                                           *)
Scopes == [kind : {"workspace"}, name : Names]
          \cup [kind : {"sandbox", "environment"}, name : {"every"}]

Survey(scope) ==
  {h \in Taken : /\ h[1] \in TierNames
                 /\ scope.kind = "workspace" => h[2] = scope.name
                 /\ scope.kind = "sandbox" => h[1] = "sandbox"}

Files(tree) == Cardinality(tree.work) + (IF tree.notice = "none" THEN 0 ELSE 1)
TokenByCount(scope, entries) ==
  [scope |-> scope.kind,
   lines |-> {[home |-> <<"any", "any">>, files |-> Files(trees[h]), git |-> trees[h].git] : h \in entries}]
\* The name does not enter the token, the paths do.
Token(scope, entries) ==
  [scope |-> scope.kind,
   lines |-> {[home |-> h, files |-> Files(trees[h]), git |-> trees[h].git] : h \in entries}]

\* First invocation: print the inventory and the token.  One is kept at a time.
Inventory(scope) ==
  /\ cmd = Idle /\ Survey(scope) # {}
  /\ shown' = {[scope |-> scope, token |-> Token(scope, Survey(scope)), homes |-> Survey(scope)]}
  /\ UNCHANGED <<trees, edits, cmd>>

\* Second invocation, with the token of an inventory.
Confirm(scope) ==
  /\ cmd = Idle
  /\ \E inventory \in shown : Token(scope, Survey(scope)) = inventory.token
  /\ Survey(scope) # {}
  /\ cmd' = [Idle EXCEPT !.op = "destruct", !.at = "phrase", !.entries = Survey(scope)]
  /\ UNCHANGED <<trees, edits, shown>>

Phrase ==
  /\ cmd.at = "phrase"
  /\ Goes("remove") \/ Ends
  /\ UNCHANGED <<trees, edits, shown>>

RemoveStays(home) ==
  /\ cmd.at = "remove" /\ home \in cmd.entries
  /\ Erase(home)
  /\ cmd' = [cmd EXCEPT !.entries = @ \ {home}]
  /\ UNCHANGED <<edits, shown>>
Remove(home) ==
  /\ cmd.at = "remove" /\ home \in cmd.entries
  /\ Erase(home)
  /\ cmd' = IF cmd.entries = {home} THEN Idle ELSE [cmd EXCEPT !.entries = @ \ {home}]
  /\ UNCHANGED <<edits, shown>>

Killed ==
  /\ cmd # Idle /\ Ends
  /\ UNCHANGED <<trees, edits, shown>>

-----------------------------------------------------------------------------
Moves ==
  \/ \E n \in Names : \/ MoveBetween("promote", "sandbox", "project", n)
                      \/ MoveBetween("demote", "project", "sandbox", n)
  \/ Rename \/ RenameFails \/ Notice \/ NoticeFails \/ GitInit \/ NoGit
Adoption == (\E n \in Foreign, m \in Names : Quarantine(n, m)) \/ Copy \/ CopyFails \/ Discard
Destruction ==
  \/ \E scope \in Scopes : Inventory(scope) \/ Confirm(scope)
  \/ Phrase \/ (\E home \in Homes : Remove(home))

Next == Author \/ Moves \/ Adoption \/ Destruction \/ Killed
Spec == Init /\ [][Next]_vars

-----------------------------------------------------------------------------
\* The shape of the state; a command that destroys always has something left to do.
TypeOK ==
  /\ \E taken \in SUBSET Homes : trees \in [taken -> Tree]
  /\ edits \in 0 .. MaxEdits
  /\ cmd.entries \subseteq Homes
  /\ cmd.entries # {} <=> cmd.at \in {"phrase", "remove"}

\* Promoting, demoting and adopting lose no edit, whatever fails and wherever the
\* script is killed; only what stands at its own target goes when a copy failed, be it
\* the copy or not (lifecycle.lua 292-475).
MovesKeepWork ==
  [][Moves \/ Adoption =>
       Work \ Work' \subseteq IF cmd.at = "discard" /\ cmd.to \in Taken THEN trees[cmd.to].work ELSE {}]_vars

\* What selfdestruct removes, or removes a part of, stood in the inventory its token
\* was printed with, and is a tree of the scope that was asked for (destruct.lua
\* 102-139, 151-170, 288-321).
DestroysOnlyListed ==
  [][Destruction => \A h \in {t \in Taken : t \notin DOMAIN trees' \/ trees'[t] # trees[t]} :
       \E inventory \in shown :
         /\ h \in inventory.homes
         /\ inventory.scope.kind = "sandbox" => h[1] = "sandbox"
         /\ inventory.scope.kind = "workspace" => h[2] = inventory.scope.name]_vars

\* "Nothing is deleted and nothing needs to be, so the additive steps after the
\* rename cannot lose work" (lifecycle.lua 344-345).
PromotionDeletesNothing ==
  [][cmd.op = "promote" /\ cmd.to \in Taken /\ trees[cmd.to].notice = "author"
       => cmd.to \notin DOMAIN trees' \/ trees'[cmd.to].notice = "author"]_vars
=============================================================================
